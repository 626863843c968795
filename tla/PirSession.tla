----------------------------- MODULE PirSession -----------------------------
(***************************************************************************)
(* The conversation of the two PIR processes over their TCP connection     *)
(* (src/go/client.go RunClient, src/go/server.go RunServer, and            *)
(* WriteOverNetwork and ReadOverNetwork of src/go/more_utils.go).          *)
(*                                                                         *)
(* Each process runs a fixed script of writes and reads.  A direction of   *)
(* the connection is a bounded sequence of bytes: what one Write puts in,  *)
(* several Reads may take out, and the other way round.  A byte is named   *)
(* by its message and its place in it; what it says is left out.  A        *)
(* process may crash, and its kernel may then lose what it has sent.       *)
(***************************************************************************)
EXTENDS Integers, Sequences, FiniteSets

CONSTANTS CuckooSize,   \* hints: one per bin
          Queries,      \* queries when CuckooSize is one
          Bucket, Offline, Request, Response,  \* sizes of the messages
          Chunk,        \* CHUNK_SIZE
          Capacity,     \* bytes a direction of the connection holds
          MaxCrashes    \* bound on crashes

ASSUME SessionAssumption ==
  /\ {CuckooSize, Queries, Bucket, Offline, Request, Response, Chunk, Capacity} \subseteq Nat \ {0}
  /\ MaxCrashes \in Nat

Processes == {"client", "server"}
Peer(p) == IF p = "client" THEN "server" ELSE "client"

NStates  == IF CuckooSize = 1 THEN Queries ELSE CuckooSize
Requests == 0 .. NStates - 1

\* Both sides compute the sizes from the same parameters and bucket size.
Size(kind) == [ready |-> 1, bucket |-> Bucket, offline |-> Offline,
               request |-> Request, response |-> Response][kind]

\* ReadOverNetwork and WriteOverNetwork loop over chunks, binary.Read and
\* binary.Write over all bytes; the rest is one call whose error is ignored.
Loops(kind) == kind = "bucket" \/ (kind # "ready" /\ Size(kind) >= Chunk)

Each(does, kind) == [k \in 1 .. NStates |-> <<does, kind, k - 1>>]
Hints(does) == [k \in 1 .. 2 * CuckooSize |->
                  <<does, IF k % 2 = 1 THEN "bucket" ELSE "offline", (k - 1) \div 2>>]

ClientScript == << <<"read", "ready", 0>> >> \o Hints("read")
                \o << <<"write", "ready", 0>> >> \o Each("write", "request")
                \o Each("read", "response")

\* Mutant: a request is answered before the next is read.
AnswersAsItGoes == << <<"write", "ready", 0>> >> \o Hints("write")
                   \o << <<"read", "ready", 0>> >>
                   \o [k \in 1 .. 2 * NStates |->
                        IF k % 2 = 1 THEN <<"read", "request", (k - 1) \div 2>>
                                     ELSE <<"write", "response", (k - 1) \div 2>>]

\* Mutant: the client's ready byte is not read.
IgnoresReady == << <<"write", "ready", 0>> >> \o Hints("write")
                \o Each("read", "request")
                \o << <<"answer", "request", 0>> >> \o Each("write", "response")

ServerScript == << <<"write", "ready", 0>> >> \o Hints("write")
                \o << <<"read", "ready", 0>> >> \o Each("read", "request")
                \o << <<"answer", "request", 0>> >> \o Each("write", "response")

Script == [client |-> ClientScript, server |-> ServerScript]

VARIABLES status,    \* process -> "up", "done", "panic" or "crashed"
          pc,        \* process -> place in its script
          sent,      \* process -> bytes of the current message written
          got,       \* process -> bytes of the current message read
          stream,    \* process -> bytes it has sent and its peer not yet read
          results,   \* process -> messages read: kind, number and bytes
          blank      \* requests that are blank (ClientState.SkipRecover)

vars == <<status, pc, sent, got, stream, results, blank>>

Does(p)   == Script[p][pc[p]][1]
Kind(p)   == Script[p][pc[p]][2]
Number(p) == Script[p][pc[p]][3]
Running(p, does) == status[p] = "up" /\ pc[p] <= Len(Script[p]) /\ Does(p) = does
Whole(kind, i) == [k \in 1 .. Size(kind) |-> <<kind, i, k>>]

Init ==
  /\ status = [p \in Processes |-> "up"]
  /\ pc = [p \in Processes |-> 1]
  /\ sent = [p \in Processes |-> 0]
  /\ got = [p \in Processes |-> <<>>]
  /\ stream = [p \in Processes |-> <<>>]
  /\ results = [p \in Processes |-> <<>>]
  /\ blank \in SUBSET Requests

-----------------------------------------------------------------------------
\* The process ends.  What it has sent stays readable when it exits having
\* read all it was sent; else its kernel may reset the connection.
Ends(p, how) ==
  /\ status' = [status EXCEPT ![p] = how]
  /\ \E kept \in 0 .. Len(stream[p]):
        /\ how = "done" /\ stream[Peer(p)] = <<>> => kept = Len(stream[p])
        /\ stream' = [stream EXCEPT ![p] = SubSeq(@, 1, kept)]
  /\ UNCHANGED <<pc, sent, got, results, blank>>

Advance(p) == pc' = [pc EXCEPT ![p] = @ + 1]

\* A Write call puts its bytes in as room permits and returns after the last.
Write(p) ==
  /\ Running(p, "write") /\ status[Peer(p)] = "up"
  /\ Len(stream[p]) < Capacity
  /\ stream' = [stream EXCEPT ![p] = Append(@, <<Kind(p), Number(p), sent[p] + 1>>)]
  /\ IF sent[p] + 1 = Size(Kind(p))
       THEN sent' = [sent EXCEPT ![p] = 0] /\ Advance(p)
       ELSE sent' = [sent EXCEPT ![p] = @ + 1] /\ UNCHANGED pc
  /\ UNCHANGED <<status, got, results, blank>>

\* The peer is gone: the kernel may still swallow the bytes, and the reset
\* they provoke may discard what p has not yet read.
WriteToNobody(p) ==
  /\ Running(p, "write") /\ status[Peer(p)] # "up"
  /\ Advance(p)
  /\ sent' = [sent EXCEPT ![p] = 0]
  /\ \E kept \in 0 .. Len(stream[Peer(p)]):
        stream' = [stream EXCEPT ![Peer(p)] = SubSeq(@, 1, kept)]
  /\ UNCHANGED <<status, got, results, blank>>

\* Or Write returns an error: a panic where it is looked at.
WriteFails(p) ==
  /\ Running(p, "write") /\ status[Peer(p)] # "up"
  /\ Loops(Kind(p))
  /\ Ends(p, "panic")

\* Mutant: the loop's comparison is off by one.
MissingLate(p, bytes) == Len(bytes) <= Size(Kind(p))

\* Whether the loop of reads goes on.
Missing(p, bytes) == Len(bytes) < Size(Kind(p))

\* Mutant: every read asks for a full chunk.
FullChunk(p) == Chunk

\* What one Read call asks for: a chunk, or what is left of the message.
Asked(p) ==
  LET left == Size(Kind(p)) - Len(got[p])
  IN  IF left < Chunk \/ Kind(p) = "bucket" THEN left ELSE Chunk

\* ReadOverNetwork returns the bytes; the server keeps its requests for later.
\* An empty offline message or response makes the decoding of it panic.
Returns(p, bytes) ==
  /\ results' = [results EXCEPT ![p] = Append(@, <<Kind(p), Number(p), bytes>>)]
  /\ got' = [got EXCEPT ![p] = <<>>]
  /\ Advance(p)

\* A Read call takes what has arrived, at least one byte.
Read(p) ==
  /\ Running(p, "read")
  /\ \E n \in 1 .. Asked(p):
       /\ n <= Len(stream[Peer(p)])
       /\ stream' = [stream EXCEPT ![Peer(p)] = SubSeq(@, n + 1, Len(@))]
       /\ LET bytes == got[p] \o SubSeq(stream[Peer(p)], 1, n)
          IN  IF Loops(Kind(p)) /\ Missing(p, bytes)
                THEN got' = [got EXCEPT ![p] = bytes] /\ UNCHANGED <<pc, results>>
                ELSE Returns(p, bytes)
  /\ UNCHANGED <<status, sent, blank>>

\* Mutant: an empty message is decoded like any other.
Lenient(p) == TRUE

\* Whether p goes on when it is told that the connection has ended: it does
\* when nothing of the message is decoded now.
GoesOn(p) ==
  \/ ~Loops(Kind(p))
  \/ Kind(p) = "request"
  \/ Kind(p) = "response" /\ Number(p) \in blank

\* Nothing is left to read and nothing will come: the bytes of this message
\* that were read are dropped, and the next read is told the same.
ReadEnded(p) ==
  /\ Running(p, "read")
  /\ stream[Peer(p)] = <<>> /\ status[Peer(p)] # "up"
  /\ IF GoesOn(p)
       THEN Returns(p, <<>>) /\ UNCHANGED <<status, sent, stream, blank>>
       ELSE Ends(p, "panic")

AllRequestsRead ==
  \A k \in 1 .. Len(results["server"]):
     results["server"][k][1] = "request" /\ Loops("request") => results["server"][k][3] # <<>>

\* Every request is answered before the first response is written; decoding
\* one that could not be read panics.
Answer ==
  /\ Running("server", "answer")
  /\ IF AllRequestsRead
       THEN Advance("server") /\ UNCHANGED <<status, sent, got, stream, results, blank>>
       ELSE Ends("server", "panic")

Finish(p) ==
  /\ status[p] = "up" /\ pc[p] > Len(Script[p])
  /\ Ends(p, "done")

Crash(p) ==
  /\ status[p] = "up"
  /\ Cardinality({q \in Processes: status[q] = "crashed"}) < MaxCrashes
  /\ Ends(p, "crashed")

Terminated == (\A p \in Processes: status[p] # "up") /\ UNCHANGED vars

Step(p) == \/ Write(p) \/ WriteToNobody(p) \/ WriteFails(p)
           \/ Read(p) \/ ReadEnded(p) \/ Finish(p)

Next == (\E p \in Processes: Step(p) \/ Crash(p)) \/ Answer \/ Terminated

\* Both processes run on, and the kernels deliver what is in the connection.
Spec == /\ Init /\ [][Next]_vars
        /\ \A p \in Processes: WF_vars(Step(p))
        /\ WF_vars(Answer)

-----------------------------------------------------------------------------
\* Types.
TypeOK ==
  /\ status \in [Processes -> {"up", "done", "panic", "crashed"}]
  /\ \A p \in Processes:
       /\ pc[p] \in 1 .. Len(Script[p]) + 1
       /\ pc[p] <= Len(Script[p]) =>
             sent[p] < Size(Kind(p)) /\ Len(got[p]) < Size(Kind(p))
       /\ Len(stream[p]) <= Capacity
       /\ \A k \in 1 .. Len(results[p]): results[p][k][1] \in {"ready", "bucket", "offline", "request", "response"}
  /\ blank \subseteq Requests

Results(p) == {results[p][k]: k \in 1 .. Len(results[p])}

\* The byte streams stay aligned: whatever the segmentation, a read returns
\* the very message its process is waiting for, whole, or nothing at all
\* because the peer is gone (more_utils.go:95-126).
ReadsWholeMessages ==
  \A p \in Processes: \A r \in Results(p):
     r[3] = Whole(r[1], r[2]) \/ (r[3] = <<>> /\ status[Peer(p)] # "up")

\* A client that reports a count has the whole response, and the whole hint,
\* of every query that is not blank: a server that dies does not make it report
\* a smaller intersection (client.go:68-80, more_utils.go:116).  So where the
\* responses reach CHUNK_SIZE, as here; of a shorter one zeros are decoded for
\* what is missing (more_utils.go:97-101), see HearEnd of Trial.
CountsOnlyAnswers ==
  status["client"] = "done" =>
     /\ \A b \in 0 .. CuckooSize - 1: <<"offline", b, Whole("offline", b)>> \in Results("client")
     /\ \A i \in Requests \ blank: <<"response", i, Whole("response", i)>> \in Results("client")

\* A response leaves the server only after it has read all requests, whole:
\* the two never write to each other at once (server.go:110-122).
AnswersWholeRequests ==
  \A k \in 1 .. Len(stream["server"]):
     stream["server"][k][1] = "response" =>
        \A i \in Requests: <<"request", i, Whole("request", i)>> \in Results("server")

\* Without a crash nobody panics: in particular the server's exit right
\* after its last write loses nothing (main.go:99, server.go:143-146).
NobodyPanicsAlone ==
  (\E p \in Processes: status[p] = "panic") => \E p \in Processes: status[p] = "crashed"

\* Both processes end, although neither sets a deadline and both may be
\* blocked writing into a full connection.
BothEnd == <>(\A p \in Processes: status[p] # "up")
=============================================================================
