-------------------------- MODULE PirServerProofs --------------------------
(***************************************************************************)
(* The goroutines of the PIR server for any number of bins, threads,       *)
(* queries and reads: each matrix is the expansion of its own seed, the    *)
(* hints are announced only when all are built, and responses are in order.*)
(***************************************************************************)
EXTENDS PirServer, FiniteSetTheorems, TLAPS

\* The WaitGroup counts the builders that run.
Running == {b \in Bins: builder[b] \notin {"idle", "done"}}

Counted ==
  /\ ParallelBuild => pending = Cardinality(Running)
  /\ ~ParallelBuild => pending = 0

\* The bins are started in order, and built before anything else happens.
InOrder ==
  /\ \A b \in Bins: builder[b] = "idle" <=> b >= started
  /\ main # "build" => \A b \in Bins: builder[b] = "done"

\* Whoever is between Lock and Unlock holds the mutex, and has the global
\* and its stream for itself.
Exclusive ==
  \A b \in Bins: builder[b] \in {"locked", "seeded", "expand"} <=> mutex = b

Expands(b) ==
  /\ builder[b] \in {"idle", "setup", "locked", "seeded"} => matrix[b] = <<>>
  /\ builder[b] = "seeded" => prg = b /\ position[b] = 0
  /\ builder[b] = "expand" => reader[b] = b /\ position[b] = Len(matrix[b])
  /\ builder[b] \in {"hint", "done"} => Len(matrix[b]) = Reads
  /\ Len(matrix[b]) <= Reads
  /\ \A k \in 1 .. Len(matrix[b]): matrix[b][k] = <<b, k - 1>>

Expanding == \A b \in Bins: Expands(b)

\* The main goroutine's loops have turns left exactly while it is in them.
Stages ==
  /\ hints = IF main = "build" THEN 0 ELSE IF main = "hints" THEN hints ELSE CuckooSize
  /\ main = "hints" => hints < CuckooSize
  /\ main \in {"build", "hints"} => requests = 0
  /\ main = "read" => requests < NStates
  /\ main \in {"build", "hints", "read"} => responses = <<>>
  /\ main = "answer" => Len(responses) < NStates
  /\ main \in {"write", "done"} => Len(responses) = NStates

\* Channel i has been received from exactly when response i is there.
Answerers ==
  \A i \in Requests:
     IF ParallelAnswer /\ main \in {"answer", "write", "done"}
       THEN answerer[i] = "gone" <=> i < Len(responses)
       ELSE answerer[i] = "none"

Aligned == \A k \in 1 .. Len(responses): responses[k] = Answer(k - 1)

Inv == /\ TypeOK /\ Counted /\ InOrder /\ Exclusive /\ Expanding
       /\ Stages /\ Answerers /\ Aligned

-----------------------------------------------------------------------------
\* What the proofs use of the constants.
LEMMA ConstantFacts ==
  /\ CuckooSize \in Nat /\ CuckooSize > 0 /\ Reads \in Nat /\ Reads > 0
  /\ NStates \in Nat /\ NStates > 0 /\ MaxThreads \in Nat /\ MaxThreads > 0
  /\ Bins \subseteq Nat /\ 0 \in Bins /\ None \notin Bins
  /\ \A b: b \in Bins <=> b \in Nat /\ b < CuckooSize
  /\ \A i: i \in Requests <=> i \in Nat /\ i < NStates
BY ServerAssumption DEF NStates, Bins, Requests, None

\* There are at most CuckooSize running builders.
LEMMA BinsFinite ==
  /\ IsFiniteSet(Bins) /\ Cardinality(Bins) = CuckooSize
<1>1. 0 \in Int /\ CuckooSize - 1 \in Int
  BY ConstantFacts
<1>2. IsFiniteSet(Bins) /\ Cardinality(Bins) = IF 0 > CuckooSize - 1 THEN 0 ELSE (CuckooSize - 1) - 0 + 1
  BY <1>1, FS_Interval DEF Bins
<1> QED
  BY <1>2, ConstantFacts

\* The builders that run are finitely many, and none exactly when the count is zero.
LEMMA RunningBounded ==
  /\ IsFiniteSet(Running)
  /\ Cardinality(Running) \in 0 .. CuckooSize
  /\ Cardinality(Running) = 0 <=> Running = {}
<1>1. Running \subseteq Bins
  BY DEF Running
<1>2. IsFiniteSet(Running) /\ Cardinality(Running) <= CuckooSize
  BY <1>1, BinsFinite, FS_Subset
<1>3. Cardinality(Running) \in Nat
  BY <1>2, FS_CardinalityType
<1>4. Cardinality(Running) = 0 <=> Running = {}
  BY <1>2, FS_EmptySet
<1> QED
  BY <1>2, <1>3, <1>4, ConstantFacts

\* Nobody has started: the invariant holds.
LEMMA InitInv == Init => Inv
<1> SUFFICES ASSUME Init PROVE Inv
  OBVIOUS
<1> USE ConstantFacts
<1>1. Running = {}
  BY DEF Init, Running
<1>2. Cardinality(Running) = 0
  BY <1>1, RunningBounded
<1>3. TypeOK
  BY DEF Init, TypeOK, None
<1>4. Counted
  BY <1>2 DEF Init, Counted
<1>5. InOrder /\ Exclusive /\ Stages /\ Answerers /\ Aligned
  BY DEF Init, InOrder, Exclusive, Stages, Answerers, Aligned
<1>6. Expanding
  BY DEF Init, Expanding, Expands
<1> QED
  BY <1>3, <1>4, <1>5, <1>6 DEF Inv

-----------------------------------------------------------------------------
\* The bin that is started next is idle.
LEMMA StartedIdle ==
  ASSUME TypeOK, InOrder, started < CuckooSize
  PROVE  started \in Bins /\ builder[started] = "idle"
<1>1. started \in Nat
  BY ConstantFacts DEF TypeOK
<1>2. started \in Bins
  BY <1>1, ConstantFacts
<1>3. started >= started
  BY <1>1
<1> QED
  BY <1>2, <1>3 DEF InOrder

\* The WaitGroup keeps counting the builders that run.
LEMMA NextCounted ==
  ASSUME Inv, [Next]_vars
  PROVE  Counted'
<1> USE ConstantFacts DEF Inv
<1>1. CASE StartBuilder
  <2>1. started \in Bins /\ builder[started] = "idle"
    BY <1>1, StartedIdle DEF StartBuilder
  <2>2. started \notin Running /\ Running' = Running \cup {started}
    BY <1>1, <2>1 DEF StartBuilder, Running, TypeOK
  <2>3. Cardinality(Running') = Cardinality(Running) + 1
    BY <2>2, RunningBounded, FS_AddElement
  <2> QED
    BY <1>1, <2>3 DEF StartBuilder, Counted, Added, ParallelBuild
<1>2. ASSUME NEW b \in Bins, Publish(b) PROVE Counted'
  <2>1. b \in Running /\ Running' = Running \ {b}
    BY <1>2 DEF Publish, Running, TypeOK
  <2>2. Cardinality(Running') = Cardinality(Running) - 1
    BY <2>1, RunningBounded, FS_RemoveElement
  <2> QED
    BY <1>2, <2>2 DEF Publish, Counted, ParallelBuild
<1>3. ASSUME NEW b \in Bins, Lock(b) \/ SeedGlobal(b) \/ LoadGlobal(b) \/ Unlock(b)
      PROVE  Counted'
  <2>1. Running' = Running
    BY <1>3 DEF Lock, SeedGlobal, LoadGlobal, Unlock, Running, TypeOK
  <2> QED
    BY <1>3, <2>1 DEF Lock, SeedGlobal, LoadGlobal, Unlock, Counted, ParallelBuild
<1>4. ASSUME UNCHANGED <<builder, pending, threads>> PROVE Counted'
  BY <1>4 DEF Counted, Running, ParallelBuild
<1>5. CASE OfflineOver \/ WriteHint \/ ReadRequest \/ AnswerSequentially \/ WriteResponses
  BY <1>4, <1>5 DEF OfflineOver, WriteHint, ReadRequest, AnswerSequentially, WriteResponses, buildVars
<1>6. ASSUME NEW i \in Requests, Receive(i) \/ Compute(i) PROVE Counted'
  BY <1>4, <1>6 DEF Receive, Compute, buildVars
<1>7. ASSUME NEW b \in Bins, ReadStream(b) PROVE Counted'
  BY <1>4, <1>7 DEF ReadStream
<1>8. CASE UNCHANGED vars
  BY <1>4, <1>8 DEF vars
<1> QED
  BY <1>1, <1>2, <1>3, <1>5, <1>6, <1>7, <1>8 DEF Next, Main, Builder, Terminated

\* The main goroutine goes on only when every builder is done.
LEMMA NextInOrder ==
  ASSUME Inv, [Next]_vars
  PROVE  InOrder'
<1> USE ConstantFacts DEF Inv
<1>1. CASE StartBuilder
  BY <1>1 DEF StartBuilder, InOrder, TypeOK, onlineVars
<1>2. CASE OfflineOver
  <2>1. CASE ParallelBuild
    <3>1. Running = {}
      BY <1>2, <2>1, RunningBounded DEF OfflineOver, Counted
    <3>2. \A b \in Bins: builder[b] = "done"
      BY <1>2, <3>1 DEF OfflineOver, Running, InOrder, TypeOK
    <3> QED
      BY <1>2, <3>2 DEF OfflineOver, InOrder, buildVars
  <2>2. CASE ~ParallelBuild
    BY <1>2, <2>2 DEF OfflineOver, InOrder, buildVars
  <2> QED
    BY <2>1, <2>2
<1>3. ASSUME NEW b \in Bins, Builder(b) PROVE InOrder'
  BY <1>3, ZenonT(40) DEF Builder, Lock, SeedGlobal, LoadGlobal, ReadStream, Unlock, Publish,
              InOrder, TypeOK
<1>4. CASE WriteHint \/ ReadRequest \/ AnswerSequentially \/ WriteResponses
  BY <1>4 DEF WriteHint, ReadRequest, AnswerSequentially, WriteResponses, Received,
              InOrder, buildVars
<1>5. ASSUME NEW i \in Requests, Receive(i) \/ Compute(i) PROVE InOrder'
  BY <1>5 DEF Receive, Compute, Received, InOrder, buildVars
<1>6. CASE UNCHANGED vars
  BY <1>6 DEF InOrder, vars
<1> QED
  BY <1>1, <1>2, <1>3, <1>4, <1>5, <1>6 DEF Next, Main, Terminated

\* The critical section is exclusive.
LEMMA NextExclusive ==
  ASSUME Inv, [Next]_vars
  PROVE  Exclusive'
<1> USE ConstantFacts DEF Inv
<1>1. CASE StartBuilder
  BY <1>1, StartedIdle DEF StartBuilder, Exclusive, TypeOK
<1>2. ASSUME NEW b \in Bins, Builder(b) PROVE Exclusive'
  <2>1. CASE Lock(b)
    BY <1>2, <2>1 DEF Lock, MutexFree, Exclusive, TypeOK
  <2>2. CASE Unlock(b)
    BY <1>2, <2>2 DEF Unlock, Released, Exclusive, TypeOK
  <2>3. CASE SeedGlobal(b) \/ LoadGlobal(b) \/ ReadStream(b) \/ Publish(b)
    BY <1>2, <2>3 DEF SeedGlobal, LoadGlobal, ReadStream, Publish, Exclusive, TypeOK
  <2> QED
    BY <1>2, <2>1, <2>2, <2>3 DEF Builder
<1>3. ASSUME UNCHANGED <<builder, mutex>> PROVE Exclusive'
  BY <1>3 DEF Exclusive
<1>4. CASE OfflineOver \/ WriteHint \/ ReadRequest \/ AnswerSequentially \/ WriteResponses
  BY <1>3, <1>4 DEF OfflineOver, WriteHint, ReadRequest, AnswerSequentially, WriteResponses, buildVars
<1>5. ASSUME NEW i \in Requests, Receive(i) \/ Compute(i) PROVE Exclusive'
  BY <1>3, <1>5 DEF Receive, Compute, buildVars
<1>6. CASE UNCHANGED vars
  BY <1>3, <1>6 DEF vars
<1> QED
  BY <1>1, <1>2, <1>4, <1>5, <1>6 DEF Next, Main, Terminated

\* Inside it, the global and the position are the holder's, so that what is
\* read is the holder's stream from its start.
LEMMA NextExpanding ==
  ASSUME Inv, [Next]_vars
  PROVE  Expanding'
<1> USE ConstantFacts DEF Inv
<1>0. \A c \in Bins: Expands(c)
  BY DEF Expanding
<1>t. builder = [b \in Bins |-> builder[b]]
  BY DEF TypeOK
<1>1. CASE StartBuilder
  <2>1. PICK b \in Bins: b = started /\ builder[b] = "idle"
    BY <1>1, StartedIdle DEF StartBuilder
  <2>2. /\ builder'[b] = "setup" /\ \A c \in Bins: c # b => builder'[c] = builder[c]
        /\ UNCHANGED <<prg, reader, position, matrix>>
    BY <1>1, <1>t, <2>1 DEF StartBuilder
  <2>3. Expands(b)'
    BY <1>0, <2>1, <2>2 DEF Expands
  <2>4. \A c \in Bins: c # b => Expands(c)'
    BY <1>0, <2>2 DEF Expands
  <2> QED
    BY <2>3, <2>4 DEF Expanding
<1>2. ASSUME NEW b \in Bins, Lock(b) \/ Publish(b) \/ Unlock(b) PROVE Expanding'
  <2>1. /\ \/ builder[b] = "setup" /\ builder'[b] = "locked"
           \/ builder[b] = "hint" /\ builder'[b] = "done"
           \/ builder[b] = "expand" /\ Len(matrix[b]) = Reads /\ builder'[b] = "hint"
        /\ \A c \in Bins: c # b => builder'[c] = builder[c]
        /\ UNCHANGED <<prg, reader, position, matrix>>
    BY <1>2, <1>t DEF Lock, Publish, Unlock
  <2>2. Expands(b)'
    BY <1>0, <2>1 DEF Expands
  <2>3. \A c \in Bins: c # b => Expands(c)'
    BY <1>0, <2>1, SMTT(30) DEF Expands
  <2> QED
    BY <2>2, <2>3 DEF Expanding
<1>3. ASSUME NEW b \in Bins, SeedGlobal(b) PROVE Expanding'
  <2>1. \A c \in Bins: c # b => builder[c] # "seeded"
    BY <1>3 DEF SeedGlobal, Exclusive
  <2>2. Expands(b)'
    BY <1>0, <1>3 DEF SeedGlobal, Expands, TypeOK
  <2>3. \A c \in Bins: c # b => Expands(c)'
    BY <1>0, <1>3, <2>1, ZenonT(40) DEF SeedGlobal, Expands, TypeOK
  <2> QED
    BY <2>2, <2>3 DEF Expanding
<1>4. ASSUME NEW b \in Bins, LoadGlobal(b) PROVE Expanding'
  <2>1. matrix[b] = <<>> /\ prg = b /\ position[b] = 0
    BY <1>0, <1>4 DEF LoadGlobal, Expands
  <2>2. reader'[b] = b /\ builder'[b] = "expand" /\ position'[b] = 0 /\ matrix'[b] = <<>>
    BY <1>4, <2>1 DEF LoadGlobal, TypeOK
  <2>3. Expands(b)'
    BY <2>2 DEF Expands
  <2>4. \A c \in Bins: c # b => Expands(c)'
    BY <1>0, <1>4, ZenonT(40) DEF LoadGlobal, Expands, TypeOK
  <2> QED
    BY <2>3, <2>4 DEF Expanding
<1>5. ASSUME NEW b \in Bins, ReadStream(b) PROVE Expanding'
  <2>1. /\ builder[b] = "expand" /\ Len(matrix[b]) < Reads
        /\ reader[b] = b /\ position[b] = Len(matrix[b])
    BY <1>0, <1>5 DEF ReadStream, Expands
  <2>2. matrix[b] \in Seq(Bins \X Nat)
    BY DEF TypeOK
  <2> DEFINE read == Append(matrix[b], <<b, Len(matrix[b])>>)
  <2>3. /\ Len(read) = Len(matrix[b]) + 1
        /\ \A k \in 1 .. Len(read): read[k] = IF k = Len(read) THEN <<b, Len(matrix[b])>> ELSE matrix[b][k]
    BY <2>2
  <2>a. \A k \in 1 .. Len(matrix[b]): matrix[b][k] = <<b, k - 1>>
    BY <1>0 DEF Expands
  <2>b. Len(matrix[b]) \in Nat
    BY <2>2
  <2> HIDE DEF read
  <2>4. ASSUME NEW k \in 1 .. Len(read) PROVE read[k] = <<b, k - 1>>
    <3>1. k \in 1 .. Len(matrix[b]) + 1
      BY <2>3
    <3>2. k # Len(matrix[b]) + 1 => k \in 1 .. Len(matrix[b])
      BY <3>1, <2>b
    <3>3. k = Len(matrix[b]) + 1 => k - 1 = Len(matrix[b])
      BY <2>b
    <3> QED
      BY <2>3, <2>a, <3>2, <3>3
  <2>5. matrix'[b] = read /\ position'[b] = Len(read) /\ builder' = builder /\ reader' = reader
    BY <1>5, <2>1, <2>3 DEF ReadStream, TypeOK, read
  <2>6. Len(read) <= Reads
    BY <2>1, <2>b, <2>3
  <2>7. Expands(b)'
    BY <2>1, <2>4, <2>5, <2>6 DEF Expands
  <2>8. \A c \in Bins: c # b => matrix'[c] = matrix[c] /\ position'[c] = position[c]
    BY <1>5, <2>1 DEF ReadStream, TypeOK
  <2>9. \A c \in Bins: c # b => Expands(c)'
    BY <1>0, <1>5, <2>8 DEF ReadStream, Expands
  <2> QED
    BY <2>7, <2>9 DEF Expanding
<1>7. ASSUME UNCHANGED <<builder, prg, reader, position, matrix>> PROVE Expanding'
  BY <1>7 DEF Expanding, Expands
<1>8. CASE OfflineOver \/ WriteHint \/ ReadRequest \/ AnswerSequentially \/ WriteResponses
  BY <1>7, <1>8 DEF OfflineOver, WriteHint, ReadRequest, AnswerSequentially, WriteResponses, buildVars
<1>9. ASSUME NEW i \in Requests, Receive(i) \/ Compute(i) PROVE Expanding'
  BY <1>7, <1>9 DEF Receive, Compute, buildVars
<1>10. CASE UNCHANGED vars
  BY <1>7, <1>10 DEF vars
<1> QED
  BY <1>1, <1>2, <1>3, <1>4, <1>5, <1>8, <1>9, <1>10 DEF Next, Main, Builder, Terminated

-----------------------------------------------------------------------------
\* What an appended response does.
LEMMA AppendedResponse ==
  ASSUME TypeOK, NEW i \in Requests, i = Len(responses), Aligned,
         responses' = Append(responses, Answer(i))
  PROVE  /\ responses' \in Seq(Bins \X Requests)
         /\ Len(responses') = Len(responses) + 1
         /\ Aligned'
<1>1. responses \in Seq(Bins \X Requests)
  BY DEF TypeOK
<1>2. Answer(i) \in Bins \X Requests
  <2>1. CASE CuckooSize = 1
    BY <2>1, ConstantFacts DEF Answer, StateOf
  <2>2. CASE CuckooSize # 1
    <3>1. i \in Bins
      BY <2>2 DEF Requests, NStates, Bins
    <3> QED
      BY <2>2, <3>1 DEF Answer, StateOf
  <2> QED
    BY <2>1, <2>2
<1>3. /\ responses' \in Seq(Bins \X Requests)
      /\ Len(responses') = Len(responses) + 1
      /\ Len(responses) \in Nat
      /\ \A k \in 1 .. Len(responses) + 1:
           responses'[k] = IF k = Len(responses) + 1 THEN Answer(i) ELSE responses[k]
  BY <1>1, <1>2
<1>4. ASSUME NEW k \in 1 .. Len(responses) + 1
      PROVE  responses'[k] = Answer(k - 1)
  <2>1. CASE k = Len(responses) + 1
    <3>1. k - 1 = i
      BY <1>3, <2>1
    <3> QED
      BY <1>3, <2>1, <3>1
  <2>2. CASE k # Len(responses) + 1
    <3>1. k \in 1 .. Len(responses)
      BY <1>3, <2>2
    <3> QED
      BY <1>3, <2>2, <3>1 DEF Aligned
  <2> QED
    BY <2>1, <2>2
<1> QED
  BY <1>3, <1>4 DEF Aligned, Answer, StateOf

\* The online phase: one response per request, in order, and one received
\* channel per response.
LEMMA NextOnline ==
  ASSUME Inv, [Next]_vars
  PROVE  Stages' /\ Answerers' /\ Aligned'
<1> USE ConstantFacts DEF Inv
<1>t. Len(responses) \in Nat
  BY DEF TypeOK
<1>1. ASSUME UNCHANGED <<threads, main>>, UNCHANGED onlineVars
      PROVE  Stages' /\ Answerers' /\ Aligned'
  BY <1>1 DEF onlineVars, Stages, Answerers, Aligned, ParallelAnswer, Answer, StateOf
<1>2. CASE StartBuilder \/ \E b \in Bins: Builder(b)
  BY <1>1, <1>2 DEF StartBuilder, Builder, Lock, SeedGlobal, LoadGlobal, ReadStream, Unlock, Publish
<1>3. CASE OfflineOver \/ WriteHint
  <2>1. Stages'
    BY <1>3 DEF OfflineOver, WriteHint, Stages, TypeOK, onlineVars
  <2>2. main \in {"build", "hints"} /\ main' \in {"hints", "read"} /\ answerer' = answerer
    BY <1>3 DEF OfflineOver, WriteHint, onlineVars
  <2>3. Answerers'
    BY <2>2 DEF Answerers
  <2>4. Aligned'
    BY <1>3 DEF OfflineOver, WriteHint, Aligned, Answer, StateOf, onlineVars
  <2> QED
    BY <2>1, <2>3, <2>4
<1>4. CASE ReadRequest
  <2>1. responses = <<>> /\ responses' = <<>> /\ threads' = threads
    BY <1>4 DEF ReadRequest, Stages
  <2>2. Stages' /\ Aligned'
    BY <1>4, <2>1 DEF ReadRequest, Stages, Aligned, TypeOK
  <2>3. Answerers'
    BY <1>4, <2>1 DEF ReadRequest, Answerers, ParallelAnswer
  <2> QED
    BY <2>2, <2>3
<1>5. CASE AnswerSequentially
  <2>1. Len(responses) \in Requests /\ main = "answer"
    BY <1>4, <1>5, <1>t DEF AnswerSequentially, Stages
  <2>2. Len(responses') = Len(responses) + 1 /\ Aligned'
    BY <1>5, <2>1, AppendedResponse DEF AnswerSequentially, Received
  <2>3. Stages'
    BY <1>5, <1>t, <2>1, <2>2 DEF AnswerSequentially, Received, ToReceive, Stages
  <2>4. Answerers'
    BY <1>5 DEF AnswerSequentially, Answerers, ParallelAnswer
  <2> QED
    BY <2>2, <2>3, <2>4
<1>6. ASSUME NEW i \in Requests, Compute(i)
      PROVE  Stages' /\ Answerers' /\ Aligned'
  <2>1. Stages' /\ Aligned'
    BY <1>6 DEF Compute, Stages, Aligned, Answer, StateOf
  <2>2. Answerers'
    BY <1>6 DEF Compute, Answerers, ParallelAnswer, TypeOK
  <2> QED
    BY <2>1, <2>2
<1>7. ASSUME NEW i \in Requests, Receive(i)
      PROVE  Stages' /\ Answerers' /\ Aligned'
  <2>1. i = Len(responses) /\ main = "answer" /\ answerer[i] = "sending"
    BY <1>7 DEF Receive, Sender
  <2>2. Len(responses') = Len(responses) + 1 /\ Aligned'
    BY <1>7, <2>1, AppendedResponse DEF Receive, Received
  <2>3. Stages'
    BY <1>7, <1>t, <2>1, <2>2 DEF Receive, Received, ToReceive, Stages
  <2>4. ParallelAnswer
    BY <2>1 DEF Answerers
  <2>5. ASSUME NEW j \in Requests PROVE answerer'[j] = "gone" <=> j < Len(responses')
    <3>1. answerer[j] = "gone" <=> j < Len(responses)
      BY <2>1, <2>4 DEF Answerers
    <3>2. answerer'[j] = IF j = i THEN "gone" ELSE answerer[j]
      BY <1>7 DEF Receive, TypeOK
    <3> QED
      BY <1>t, <2>1, <2>2, <3>1, <3>2
  <2>6. Answerers'
    BY <1>7, <2>4, <2>5 DEF Receive, Received, Answerers, ParallelAnswer
  <2> QED
    BY <2>2, <2>3, <2>6
<1>8. CASE WriteResponses
  <2>1. Stages' /\ Aligned'
    BY <1>8 DEF WriteResponses, Stages, Aligned, Answer, StateOf, onlineVars
  <2>2. Answerers'
    BY <1>8 DEF WriteResponses, Answerers, ParallelAnswer, onlineVars
  <2> QED
    BY <2>1, <2>2
<1>9. CASE UNCHANGED vars
  BY <1>1, <1>9 DEF vars, onlineVars
<1> QED
  BY <1>2, <1>3, <1>4, <1>5, <1>6, <1>7, <1>8, <1>9 DEF Next, Main, Terminated

\* Types.
LEMMA NextTypes ==
  ASSUME Inv, [Next]_vars
  PROVE  TypeOK'
<1> USE ConstantFacts DEF Inv
<1>1. (Cardinality(Running) \in 0 .. CuckooSize)'
  BY RunningBounded, PTL
<1>2. pending' \in 0 .. CuckooSize
  BY <1>1, NextCounted DEF Counted
<1>3. CASE StartBuilder
  <2>1. started \in Bins
    BY <1>3, StartedIdle DEF StartBuilder
  <2>2. started + 1 \in 0 .. CuckooSize
    BY <2>1
  <2> QED
    BY <1>2, <1>3, <2>1, <2>2 DEF StartBuilder, TypeOK, onlineVars
<1>4. ASSUME NEW b \in Bins, Lock(b) \/ SeedGlobal(b) \/ LoadGlobal(b) \/ Unlock(b) \/ Publish(b)
      PROVE  TypeOK'
  <2>1. CASE Lock(b)
    BY <1>2, <2>1 DEF Lock, TypeOK, onlineVars
  <2>2. CASE SeedGlobal(b)
    BY <1>2, <2>2 DEF SeedGlobal, TypeOK, onlineVars
  <2>3. CASE LoadGlobal(b)
    BY <1>2, <2>3 DEF LoadGlobal, TypeOK, onlineVars
  <2>4. CASE Unlock(b)
    BY <1>2, <2>4 DEF Unlock, Released, TypeOK, onlineVars
  <2>5. CASE Publish(b)
    BY <1>2, <2>5 DEF Publish, TypeOK, onlineVars
  <2> QED
    BY <1>4, <2>1, <2>2, <2>3, <2>4, <2>5
<1>5. ASSUME NEW b \in Bins, ReadStream(b) PROVE TypeOK'
  <2>1. Expands(b) /\ builder[b] = "expand"
    BY <1>5 DEF Expanding, ReadStream
  <2>2. reader[b] = b /\ position[b] \in Nat /\ matrix[b] \in Seq(Bins \X Nat)
    BY <2>1 DEF Expands, TypeOK
  <2>3. Append(matrix[b], <<b, position[b]>>) \in Seq(Bins \X Nat)
    BY <2>2
  <2>4. /\ matrix' = [matrix EXCEPT ![b] = Append(matrix[b], <<b, position[b]>>)]
        /\ position' = [position EXCEPT ![b] = position[b] + 1]
    BY <1>5, <2>2 DEF ReadStream
  <2>5. matrix' \in [Bins -> Seq(Bins \X Nat)]
    BY <2>3, <2>4 DEF TypeOK
  <2>a. position \in [Bins -> Nat] /\ position[b] + 1 \in Nat
    BY <2>2, SMTT(30) DEF TypeOK
  <2>6. position' \in [Bins -> Nat]
    BY ONLY <2>4, <2>a
  <2> QED
    BY <1>2, <1>5, <2>5, <2>6 DEF ReadStream, TypeOK, onlineVars
<1>6. CASE OfflineOver \/ WriteHint \/ ReadRequest \/ WriteResponses
  <2>1. CASE OfflineOver \/ WriteResponses
    BY <1>2, <2>1 DEF OfflineOver, WriteResponses, TypeOK, buildVars, onlineVars
  <2>2. CASE WriteHint
    <3>1. hints + 1 \in 0 .. CuckooSize
      BY <2>2 DEF WriteHint, TypeOK, Stages
    <3> QED
      BY <1>2, <2>2, <3>1 DEF WriteHint, TypeOK, buildVars
  <2>3. CASE ReadRequest
    <3>1. requests + 1 \in 0 .. NStates
      BY <2>3 DEF ReadRequest, TypeOK, Stages
    <3>2. answerer' \in [Requests -> {"none", "computing", "sending", "gone"}]
      BY <2>3 DEF ReadRequest, TypeOK
    <3> QED
      BY <1>2, <2>3, <3>1, <3>2 DEF ReadRequest, TypeOK, buildVars
  <2> QED
    BY <1>6, <2>1, <2>2, <2>3
<1>7. CASE AnswerSequentially
  <2>t. Len(responses) \in Nat
    BY DEF TypeOK
  <2>1. Len(responses) \in Requests
    BY <1>7, <2>t DEF AnswerSequentially, Stages
  <2>2. responses' \in Seq(Bins \X Requests)
    BY <1>7, <2>1, AppendedResponse DEF AnswerSequentially, Received
  <2> QED
    BY <1>2, <1>7, <2>2 DEF AnswerSequentially, Received, TypeOK, buildVars
<1>8. ASSUME NEW i \in Requests, Receive(i) PROVE TypeOK'
  <2>1. responses' \in Seq(Bins \X Requests)
    BY <1>8, AppendedResponse DEF Receive, Received, Sender
  <2> QED
    BY <1>2, <1>8, <2>1 DEF Receive, Received, TypeOK, buildVars
<1>9. ASSUME NEW i \in Requests, Compute(i) PROVE TypeOK'
  BY <1>2, <1>9 DEF Compute, TypeOK, buildVars
<1>10. CASE UNCHANGED vars
  BY <1>10 DEF vars, TypeOK
<1> QED
  BY <1>3, <1>4, <1>5, <1>6, <1>7, <1>8, <1>9, <1>10 DEF Next, Main, Builder, Terminated

\* Every reachable state of the server satisfies the invariant.
THEOREM ServerInvariant == Spec => []Inv
<1>1. Inv /\ [Next]_vars => Inv'
  BY NextTypes, NextCounted, NextInOrder, NextExclusive, NextExpanding, NextOnline DEF Inv
<1> QED
  BY <1>1, InitInv, PTL DEF Spec

\* Types, for any number of bins, threads and queries (server.go:33-153).
THEOREM ServerTypes == Spec => []TypeOK
<1>1. Inv => TypeOK
  BY DEF Inv
<1> QED
  BY <1>1, ServerInvariant, PTL

\* Whatever the builders do concurrently, the matrix of a finished bin is the
\* expansion of the bin's own seed (server.go:170-178).
THEOREM ServerSeedGivesMatrix == Spec => []SeedGivesMatrix
<1>1. Inv => SeedGivesMatrix
  BY DEF Inv, Expanding, Expands, SeedGivesMatrix
<1> QED
  BY <1>1, ServerInvariant, PTL

\* The hints are announced only when every bin is built (server.go:65-88).
THEOREM ServerReadyMeansBuilt == Spec => []ReadyMeansBuilt
<1>1. Inv => ReadyMeansBuilt
  BY DEF Inv, InOrder, ReadyMeansBuilt
<1> QED
  BY <1>1, ServerInvariant, PTL

\* Responses are in request order, however the goroutines are scheduled
\* (server.go:131-146).
THEOREM ServerResponsesInOrder == Spec => []ResponsesInOrder
<1>1. Inv => ResponsesInOrder
  BY DEF Inv, Aligned, Stages, ResponsesInOrder
<1> QED
  BY <1>1, ServerInvariant, PTL

\* No goroutine stays blocked on its channel (server.go:136, 139-140).
THEOREM ServerNoSenderLeft == Spec => []NoSenderLeft
<1>1. Inv => NoSenderLeft
  BY ConstantFacts DEF Inv, Answerers, Stages, NoSenderLeft
<1> QED
  BY <1>1, ServerInvariant, PTL
=============================================================================
