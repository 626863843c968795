--------------------------- MODULE ServerEncrypt ---------------------------
(***************************************************************************)
(* The parallel half of Server::offline (src/src/server.cc:15-38): the     *)
(* dataset is cut into one batch per thread, each thread (std::async) runs *)
(* Server::encrypt over its batch into a vector of its own, and the main   *)
(* thread joins the futures in order and concatenates what they return.    *)
(*                                                                         *)
(* An element is its position in the dataset, counted from 1, and its      *)
(* encryption is the position again: which element an output stands for is *)
(* all the properties ask.  A position after size is memory behind  *)
(* the vector's last element.                                              *)
(***************************************************************************)
EXTENDS Integers, Sequences

CONSTANTS MaxSize,      \* bound on dataset.size()
          MaxThreads    \* bound on params.threads

ASSUME BoundsAssumption == MaxSize \in Nat /\ MaxThreads \in Nat \ {0}

VARIABLES size,       \* dataset.size()
          threads,    \* params.threads
          launched,   \* threads started so far
          part,       \* thread -> positions it has encrypted, in order
          joined,     \* futures the main thread has got
          output      \* what the main thread has concatenated

encryptionVars == <<size, threads, launched, part, joined, output>>

ThreadIds == 0 .. threads - 1

Batch == size \div threads + (IF size % threads # 0 THEN 1 ELSE 0)

\* Position before the first element of thread i.
Start(i) == i * Batch

\* Mutant: the last thread takes a full batch like the others.
FullBatch(i) == Batch

\* The int argument of encrypt: the last thread takes what is left.  A
\* negative size makes the loop of encrypt end at once.
Size(i) == IF i + 1 < threads THEN Batch ELSE size - Start(i)

\* The batches of all threads but the last fit in the dataset.  The code
\* relies on it and tests it nowhere.
BatchesFit == Start(threads - 1) <= size

EncryptionInit ==
  /\ size \in 0 .. MaxSize
  /\ threads \in 1 .. MaxThreads
  /\ launched = 0
  /\ part = [i \in ThreadIds |-> <<>>]
  /\ joined = 0
  /\ output = <<>>

\* With one thread the main thread encrypts the dataset itself.
EncryptAlone ==
  /\ threads = 1
  /\ joined = 0
  /\ output' = [k \in 1 .. size |-> k]
  /\ joined' = 1
  /\ UNCHANGED <<size, threads, launched, part>>

\* Mutant: the loop that starts the threads runs once too often.
LaunchesTooMany == launched <= threads

ToLaunch == launched < threads

Launch ==
  /\ threads > 1
  /\ ToLaunch
  /\ launched' = launched + 1
  /\ UNCHANGED <<size, threads, part, joined, output>>

NextPosition(i) == Start(i) + Len(part[i]) + 1

\* One turn of the loop in Server::encrypt, on thread i.
Encrypt(i) ==
  /\ i < launched
  /\ Len(part[i]) < Size(i)
  /\ part' = [part EXCEPT ![i] = Append(@, NextPosition(i))]
  /\ UNCHANGED <<size, threads, launched, joined, output>>

\* Mutant: a future is taken for ready once its thread is started.
Started(i) == i < launched

Returned(i) == i < launched /\ Len(part[i]) >= Size(i)

\* futures[i].get() blocks until thread i returns; then i is appended.
Join ==
  /\ launched = threads /\ joined < threads
  /\ Returned(joined)
  /\ output' = output \o part[joined]
  /\ joined' = joined + 1
  /\ UNCHANGED <<size, threads, launched, part>>

AllJoined == joined = threads

EncryptionTerminated == AllJoined /\ UNCHANGED encryptionVars

EncryptionNext ==
  \/ EncryptAlone \/ Launch \/ Join
  \/ \E i \in ThreadIds: Encrypt(i)
  \/ EncryptionTerminated

\* std::launch::async gives each batch a thread of the operating system,
\* which runs whatever the others do; the main thread waits for nothing else.
Fairness == /\ WF_encryptionVars(EncryptAlone \/ Launch \/ Join)
            /\ \A i \in 0 .. MaxThreads - 1: WF_encryptionVars(i < threads /\ Encrypt(i))

\* Sizes and thread counts whose batches fit, as in every params/*.ini.
InitFitting == EncryptionInit /\ BatchesFit

EncryptionSpec == InitFitting /\ [][EncryptionNext]_encryptionVars /\ Fairness

\* Any size and any thread count the command line accepts.
SpecAnySizes == EncryptionInit /\ [][EncryptionNext]_encryptionVars /\ Fairness

-----------------------------------------------------------------------------
\* Types.
EncryptionTypeOK ==
  /\ size \in 0 .. MaxSize
  /\ threads \in 1 .. MaxThreads
  /\ launched \in 0 .. threads
  /\ joined \in 0 .. threads
  /\ part \in [ThreadIds -> Seq(Nat)]
  /\ output \in Seq(Nat)

\* No thread reads behind the dataset: encrypt is handed a pointer and a size
\* with no bounds of its own (server.cc:25-31, 60).
ReadsDatasetOnly ==
  \A i \in ThreadIds: \A k \in 1 .. Len(part[i]): part[i][k] \in 1 .. size

\* No element is encrypted by two threads: the batches do not overlap,
\* the shorter last one included.
BatchesDisjoint ==
  \A i, j \in ThreadIds:
     i # j => \A k \in 1 .. Len(part[i]): \A l \in 1 .. Len(part[j]):
                 part[i][k] # part[j][l]

\* What is handed to the hashtables is the encryption of the dataset, every
\* element once and in the order of the file, whichever thread returns first;
\* a prefix of it while futures are outstanding (server.cc:34-37).
OutputInOrder ==
  /\ \A k \in 1 .. Len(output): output[k] = k
  /\ AllJoined => Len(output) = size
=============================================================================
