----------------------------- MODULE PirServer -----------------------------
(***************************************************************************)
(* The goroutines of the PIR server (src/go/server.go, RunServer): one     *)
(* builds the ServerState of each bin, later one answers each request.     *)
(*                                                                         *)
(* The hazard is the library's global generator, bufPrgReader: expanding a *)
(* bin's seed into its LWE matrix re-seeds the global and then reads from  *)
(* it, and the client expands the same seed on its own.  The answers come  *)
(* back over one unbuffered channel per request.                           *)
(*                                                                         *)
(* A seed is named by the bin that drew it.  A stream is the reader object *)
(* NewBufPRG makes for a seed, its position the number of reads so far; a  *)
(* matrix is the sequence of <<seed, position>> pairs it was read from.    *)
(***************************************************************************)
EXTENDS Integers, Sequences, FiniteSets

CONSTANTS CuckooSize,   \* psiParams.CuckooSize
          Queries,      \* --queries, used when CuckooSize is one
          MaxThreads,   \* bound on psiParams.Threads
          Reads         \* reads of at most bufSize bytes that fill a matrix

ASSUME ServerAssumption == /\ CuckooSize \in Nat \ {0}
                           /\ Queries \in Nat \ {0}
                           /\ MaxThreads \in Nat \ {0}
                           /\ Reads \in Nat \ {0}

Bins == 0 .. CuckooSize - 1

\* One state per bin, or the state of the only bin once per query.
NStates  == IF CuckooSize = 1 THEN Queries ELSE CuckooSize
Requests == 0 .. NStates - 1
StateOf(i) == IF CuckooSize = 1 THEN 0 ELSE i

None == -1

VARIABLES threads,    \* psiParams.Threads
          main,       \* the main goroutine: "build", "hints", "read", "answer",
                      \* "write" or "done"
          started,    \* bins whose CreateServerState has been called or spawned
          pending,    \* the WaitGroup's counter
          builder,    \* bin -> where its CreateServerState is
          mutex,      \* the bin whose builder holds it, or None
          prg,        \* bufPrgReader: the seed of the stream it points at
          reader,     \* bin -> the stream its Elements call reads from
          position,   \* seed -> position of its stream
          matrix,     \* bin -> the LWE matrix read so far
          hints,      \* bins whose hint has been written
          requests,   \* requests read
          answerer,   \* request -> "none", "computing", "sending" or "gone"
          responses   \* responses received or computed, in request order

vars == <<threads, main, started, pending, builder, mutex, prg, reader,
          position, matrix, hints, requests, answerer, responses>>

buildVars  == <<started, pending, builder, mutex, prg, reader, position, matrix>>
onlineVars == <<hints, requests, answerer, responses>>

-----------------------------------------------------------------------------
\* Builders run as goroutines; so do answerers.
ParallelBuild  == CuckooSize > 1 /\ threads > 1
ParallelAnswer == NStates > 1 /\ threads > 1

Init ==
  /\ threads \in 1 .. MaxThreads
  /\ main = "build" /\ started = 0 /\ pending = 0
  /\ builder = [b \in Bins |-> "idle"]
  /\ mutex = None /\ prg = None
  /\ reader = [b \in Bins |-> None]
  /\ position = [b \in Bins |-> 0]
  /\ matrix = [b \in Bins |-> <<>>]
  /\ hints = 0 /\ requests = 0
  /\ answerer = [i \in Requests |-> "none"]
  /\ responses = <<>>

\* Mutant: nothing is added to the WaitGroup before the goroutine starts.
AddedLater == pending

Added == IF ParallelBuild THEN pending + 1 ELSE pending

\* The loop over the datasets: go func, or a call that returns before the next.
StartBuilder ==
  /\ main = "build" /\ started < CuckooSize
  /\ ParallelBuild \/ \A b \in Bins: b < started => builder[b] = "done"
  /\ started' = started + 1
  /\ pending' = Added
  /\ builder' = [builder EXCEPT ![started] = "setup"]
  /\ UNCHANGED <<threads, main, mutex, prg, reader, position, matrix>>
  /\ UNCHANGED onlineVars

\* Mutant: the mutex is taken for granted.
Unguarded == TRUE

MutexFree == mutex = None

\* SetupProtocol and CreateDatabase touch nothing shared; then mutex.Lock().
Lock(b) ==
  /\ builder[b] = "setup" /\ MutexFree
  /\ mutex' = b
  /\ builder' = [builder EXCEPT ![b] = "locked"]
  /\ UNCHANGED <<threads, main, started, pending, prg, reader, position, matrix>>
  /\ UNCHANGED onlineVars

\* InitCompressedSeeded: the global points at a new stream of the bin's seed.
SeedGlobal(b) ==
  /\ builder[b] = "locked"
  /\ prg' = b
  /\ position' = [position EXCEPT ![b] = 0]
  /\ builder' = [builder EXCEPT ![b] = "seeded"]
  /\ UNCHANGED <<threads, main, started, pending, mutex, reader, matrix>>
  /\ UNCHANGED onlineVars

\* FasterMatrixRand loads the global once, as the receiver of Elements.
LoadGlobal(b) ==
  /\ builder[b] = "seeded"
  /\ reader' = [reader EXCEPT ![b] = prg]
  /\ builder' = [builder EXCEPT ![b] = "expand"]
  /\ UNCHANGED <<threads, main, started, pending, mutex, prg, position, matrix>>
  /\ UNCHANGED onlineVars

\* One turn of the read loop of Elements.
ReadStream(b) ==
  /\ builder[b] = "expand" /\ Len(matrix[b]) < Reads
  /\ matrix' = [matrix EXCEPT ![b] = Append(@, <<reader[b], position[reader[b]]>>)]
  /\ position' = [position EXCEPT ![reader[b]] = @ + 1]
  /\ UNCHANGED <<threads, main, started, pending, builder, mutex, prg, reader>>
  /\ UNCHANGED onlineVars

\* Mutant: the mutex is never unlocked.
NotReleased == mutex

Released == None

Unlock(b) ==
  /\ builder[b] = "expand" /\ Len(matrix[b]) = Reads
  /\ mutex' = Released
  /\ builder' = [builder EXCEPT ![b] = "hint"]
  /\ UNCHANGED <<threads, main, started, pending, prg, reader, position, matrix>>
  /\ UNCHANGED onlineVars

\* The hint, the offline message and states[i]; then waitGroup.Done().
Publish(b) ==
  /\ builder[b] = "hint"
  /\ builder' = [builder EXCEPT ![b] = "done"]
  /\ pending' = IF ParallelBuild THEN pending - 1 ELSE pending
  /\ UNCHANGED <<threads, main, started, mutex, prg, reader, position, matrix>>
  /\ UNCHANGED onlineVars

\* The sequential loop has returned from its last call, or waitGroup.Wait()
\* returns.
OfflineOver ==
  /\ main = "build" /\ started = CuckooSize
  /\ IF ParallelBuild THEN pending = 0 ELSE \A b \in Bins: builder[b] = "done"
  /\ main' = "hints"
  /\ UNCHANGED threads /\ UNCHANGED buildVars /\ UNCHANGED onlineVars

\* Ready, then the bucket size and the offline message of each bin in order.
WriteHint ==
  /\ main = "hints"
  /\ hints' = hints + 1
  /\ main' = IF hints' = CuckooSize THEN "read" ELSE "hints"
  /\ UNCHANGED <<threads, requests, answerer, responses>> /\ UNCHANGED buildVars

\* All requests are read, in order, before the first is answered.
ReadRequest ==
  /\ main = "read"
  /\ requests' = requests + 1
  /\ main' = IF requests' = NStates THEN "answer" ELSE "read"
  /\ answerer' = IF requests' = NStates /\ ParallelAnswer
                   THEN [i \in Requests |-> "computing"] ELSE answerer
  /\ UNCHANGED <<threads, hints, responses>> /\ UNCHANGED buildVars

Answer(i) == <<StateOf(i), i>>

\* Mutant: the last channel is not received from.
ButOne == NStates - 1

ToReceive == NStates

Received(i) ==
  /\ responses' = Append(responses, Answer(i))
  /\ main' = IF Len(responses') = ToReceive THEN "write" ELSE "answer"

AnswerSequentially ==
  /\ main = "answer" /\ ~ParallelAnswer
  /\ Received(Len(responses))
  /\ UNCHANGED <<threads, hints, requests, answerer>> /\ UNCHANGED buildVars

\* Goroutine i has its answer and blocks until the main goroutine receives it.
Compute(i) ==
  /\ answerer[i] = "computing"
  /\ answerer' = [answerer EXCEPT ![i] = "sending"]
  /\ UNCHANGED <<threads, main, hints, requests, responses>> /\ UNCHANGED buildVars

\* Mutant: one channel for all goroutines.
AnySender(i) == answerer[i] = "sending"

\* The goroutine at the other end of the channel that is received from next.
Sender(i) == answerer[i] = "sending" /\ i = Len(responses)

Receive(i) ==
  /\ main = "answer" /\ Sender(i)
  /\ answerer' = [answerer EXCEPT ![i] = "gone"]
  /\ Received(i)
  /\ UNCHANGED <<threads, hints, requests>> /\ UNCHANGED buildVars

WriteResponses ==
  /\ main = "write"
  /\ main' = "done"
  /\ UNCHANGED threads /\ UNCHANGED buildVars /\ UNCHANGED onlineVars

Terminated == main = "done" /\ UNCHANGED vars

Main == \/ StartBuilder \/ OfflineOver \/ WriteHint \/ ReadRequest
        \/ AnswerSequentially \/ WriteResponses
        \/ \E i \in Requests: Receive(i)

Builder(b) == \/ Lock(b) \/ SeedGlobal(b) \/ LoadGlobal(b) \/ ReadStream(b)
              \/ Unlock(b) \/ Publish(b)

Next == \/ Main
        \/ \E b \in Bins: Builder(b)
        \/ \E i \in Requests: Compute(i)
        \/ Terminated

\* The Go scheduler runs every goroutine that can run, and sync.Mutex hands
\* the lock on; the client sends its requests.
Spec == /\ Init /\ [][Next]_vars
        /\ WF_vars(Main)
        /\ \A b \in Bins: WF_vars(Builder(b))
        /\ \A i \in Requests: WF_vars(Compute(i))

-----------------------------------------------------------------------------
\* Types.
TypeOK ==
  /\ threads \in 1 .. MaxThreads
  /\ main \in {"build", "hints", "read", "answer", "write", "done"}
  /\ started \in 0 .. CuckooSize
  /\ pending \in 0 .. CuckooSize
  /\ builder \in [Bins -> {"idle", "setup", "locked", "seeded", "expand", "hint", "done"}]
  /\ mutex \in Bins \cup {None}
  /\ prg \in Bins \cup {None}
  /\ reader \in [Bins -> Bins \cup {None}]
  /\ position \in [Bins -> Nat]
  /\ matrix \in [Bins -> Seq(Bins \X Nat)]
  /\ hints \in 0 .. CuckooSize
  /\ requests \in 0 .. NStates
  /\ answerer \in [Requests -> {"none", "computing", "sending", "gone"}]
  /\ responses \in Seq(Bins \X Requests)

\* The client expands the seed it is sent with a generator of its own: the
\* hint is of use to it only if the server's matrix is that expansion, from
\* the start of the seed's stream and without gaps, whatever the builders of
\* the other bins did with the global meanwhile (server.go:170-178).
SeedGivesMatrix ==
  \A b \in Bins: builder[b] = "done" =>
     /\ Len(matrix[b]) = Reads
     /\ \A k \in 1 .. Len(matrix[b]): matrix[b][k] = <<b, k - 1>>

\* The client hears that the hints are ready only when every bin has its
\* state: the loop that sends them dereferences states[i] (server.go:65, 72-88).
ReadyMeansBuilt == main # "build" => \A b \in Bins: builder[b] = "done"

\* Response i is the answer of state i to request i, though the goroutines
\* finish in any order: the client matches them up by position alone
\* (server.go:139-146, client.go:68-74).
ResponsesInOrder ==
  /\ \A k \in 1 .. Len(responses): responses[k] = Answer(k - 1)
  /\ main \in {"write", "done"} => Len(responses) = NStates

\* No goroutine is left behind blocked on its channel when the server is done.
NoSenderLeft == main \in {"write", "done"} => \A i \in Requests: answerer[i] \in {"none", "gone"}

\* The server answers its client and ends.
ServerEnds == <>(main = "done")
=============================================================================
