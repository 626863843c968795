---------------------------- MODULE TrialProofs ----------------------------
(***************************************************************************)
(* What a SUCCESS means and what the logs tell, for every number of        *)
(* trials, queries, dials and faults.                                      *)
(*                                                                         *)
(* The inductive invariant says what the place of each process in its      *)
(* script tells of the files: what it has written, what it has loaded,     *)
(* and, of the PIR processes, what the other one must have done.           *)
(***************************************************************************)
EXTENDS Trial, TLAPS

-----------------------------------------------------------------------------
\* The inductive invariant, part by part.
Stages   == {"clean", "datagen", "oprf", "pir", "done", "raised"}
Verdicts == {"none", "SUCCESS", "FAILURE"}
Contents == [of: 1 .. Trials, n: 0 .. NQueries, lost: BOOLEAN]
Outputs  == [printed: SUBSET Processes, verdict: Verdicts]

\* Types: driver, trial and the two choices of the experiment; ...
DriverTyped == /\ driver \in Stages /\ trial \in 1 .. Trials
               /\ single \in BOOLEAN /\ expected \in {0, 1}

\* ... the two directories of contents; ...
FilesTyped == /\ files \in [Files -> {None} \cup Contents]
              /\ loaded \in [Files -> {None} \cup Contents]

\* ... the processes; ...
ProcessesTyped == /\ status \in [Processes -> {"idle", "up", "exited", "aborted"}]
                  /\ pc \in [Processes -> Nat \ {0}]
                  /\ told \in [Processes -> Nat] /\ heard \in [Processes -> Nat]

\* ... and what they print.
OutputTyped == output \in Outputs

Typed == DriverTyped /\ FilesTyped /\ ProcessesTyped /\ OutputTyped

Phase(p) == IF p \in Oprf THEN "oprf" ELSE IF p \in Pir THEN "pir" ELSE "datagen"
Live == driver \in {"datagen", "oprf", "pir"}

\* Only the processes of the phase run, and those of a later phase have not
\* begun.
Phased ==
  /\ \A p \in Processes: status[p] = "up" => driver = Phase(p)
  /\ Live => \A p \in Oprf: pc[p] > 1 => driver # "datagen"
  /\ Live => \A p \in Pir: pc[p] > 1 => driver = "pir"
  /\ driver \in {"oprf", "pir"} => Ended("datagen")
  /\ driver = "pir" => \A p \in Oprf: Ended(p)

\* A file that has been closed: it holds n entries, or has lost some of them.
Holds(f, n) == /\ files[f] # None /\ files[f].of = trial
               /\ files[f].n <= n /\ (files[f].n = n \/ files[f].lost)

\* Every file in out/ is of this trial.
OfThisTrial == \A f \in Files: files[f] # None => files[f].of = trial

\* What the place of datagen tells.
DatagenAt ==
  /\ files["server.db"] # None <=> pc["datagen"] >= 2
  /\ pc["datagen"] >= 3 => Holds("server.db", NQueries)
  /\ files["client.db"] # None <=> pc["datagen"] >= 4
  /\ pc["datagen"] >= 5 => Holds("client.db", NQueries)
  /\ status["datagen"] = "exited" => pc["datagen"] >= 5

Took(f) == files[f] # None /\ loaded[f] = files[f]

\* What the place of the OPRF server tells.
OprfServerAt ==
  /\ pc["oprfServer"] >= 2 => Took("server.db")
  /\ files["server.edb"] # None <=> pc["oprfServer"] >= 8

\* What the place of the OPRF client tells.
OprfClientAt ==
  /\ pc["oprfClient"] >= 2 => Took("client.db")
  /\ files["client.edb"] # None <=> pc["oprfClient"] >= 9
  /\ files["queries.db"] # None <=> pc["oprfClient"] >= 11
  /\ pc["oprfClient"] >= 10 => Holds("client.edb", Entries("client.edb"))
  /\ pc["oprfClient"] >= 12 => Holds("queries.db", Entries("queries.db"))
  /\ status["oprfClient"] = "exited" => pc["oprfClient"] >= 12

\* What the place of the PIR server tells: it goes on after the requests when
\* it was sent one for every query, or when the client is gone; what it has
\* said is lost only where it aborts.
PirServerAt ==
  /\ pc["pirServer"] >= 3 => Took("server.edb") /\ loaded["server.edb"].n = NQueries
  /\ told["pirServer"] >= 1 => pc["pirServer"] >= 4
  /\ told["pirServer"] >= 2 => pc["pirServer"] >= 6
  /\ status["pirServer"] # "aborted" => /\ pc["pirServer"] >= 4 => told["pirServer"] >= 1
                                        /\ pc["pirServer"] >= 6 => told["pirServer"] >= 2
  /\ status["pirServer"] = "exited" => pc["pirServer"] >= 7
  /\ pc["pirServer"] >= 5 =>
       Ended("pirClient") \/ (pc["pirClient"] >= 6 /\ NAsked = NQueries)

\* What the place of the PIR client tells.
PirClientAt ==
  /\ pc["pirClient"] >= 4 => Took("client.edb") /\ Took("queries.db")
  /\ told["pirClient"] >= 1 => pc["pirClient"] >= 6
  /\ pc["pirClient"] <= 4 => heard["pirClient"] = 0
  /\ pc["pirClient"] \in {5, 6} => heard["pirClient"] = 1
  /\ pc["pirClient"] >= 7 => heard["pirClient"] >= 1
  /\ pc["pirClient"] >= 5 => told["pirServer"] >= 1
  /\ pc["pirClient"] >= 6 => single \/ NAsked = NQueries
  /\ pc["pirClient"] >= 7 => \/ heard["pirClient"] = 2 /\ NAsked \in {0, NQueries}
                             \/ status["pirServer"] = "aborted"
  /\ output.verdict # "none" => pc["pirClient"] >= 9
  /\ output.verdict = "SUCCESS" =>
       expected = 0 \/ (NAsked = NQueries /\ \A f \in Datasets: loaded[f].n = NQueries)

Scripted == Live => /\ OfThisTrial /\ DatagenAt /\ OprfServerAt /\ OprfClientAt
                    /\ PirServerAt /\ PirClientAt

\* What the log and the results hold while no verdict was FAILURE; a trial
\* that some success comes after has a first such success.
Logs ==
  driver # "raised" =>
    /\ log \in Seq(Outputs)
    /\ Len(log) = IF driver = "done" THEN Trials ELSE trial - 1
    /\ \A t \in DOMAIN log: log[t].verdict # "FAILURE"
    /\ results = [p \in Processes |-> {{t}: t \in {u \in DOMAIN log: p \in log[u].printed}}]
    /\ \A t \in DOMAIN log, s \in Successes:
         t <= s => \E r \in Successes: t <= r /\ \A q \in Successes: q < r => q < t

Inv == Typed /\ Phased /\ Scripted /\ Logs

-----------------------------------------------------------------------------
\* The places of the steps in the scripts.
LEMMA PlacesOfDatagen ==
  ASSUME NEW step, ProcessesTyped, At("datagen", step)
  PROVE  \/ pc["datagen"] = 1 /\ step = "create" /\ Script["datagen"][2] = "server.db"
         \/ pc["datagen"] = 2 /\ step = "server.db"
         \/ pc["datagen"] = 3 /\ step = "create" /\ Script["datagen"][4] = "client.db"
         \/ pc["datagen"] = 4 /\ step = "client.db"
PROOF
  BY DEF At, Script, ProcessesTyped, Processes

\* Where in its script the OPRF server takes which step.
LEMMA PlacesOfOprfServer ==
  ASSUME NEW step, ProcessesTyped, At("oprfServer", step)
  PROVE  \/ pc["oprfServer"] = 1 /\ step = "load"
         \/ pc["oprfServer"] \in 2 .. 6 /\ step \in {"meet", "tell", "hear", "print"}
         \/ pc["oprfServer"] = 7 /\ step = "create" /\ Script["oprfServer"][8] = "server.edb"
         \/ pc["oprfServer"] = 8 /\ step = "server.edb"
PROOF
  BY DEF At, Script, ProcessesTyped, Processes, Oprf

\* Where in its script the OPRF client takes which step.
LEMMA PlacesOfOprfClient ==
  ASSUME NEW step, ProcessesTyped, At("oprfClient", step)
  PROVE  \/ pc["oprfClient"] = 1 /\ step = "load"
         \/ pc["oprfClient"] \in 2 .. 7 /\ step \in {"meet", "tell", "hear", "insert", "print"}
         \/ pc["oprfClient"] = 8 /\ step = "create" /\ Script["oprfClient"][9] = "client.edb"
         \/ pc["oprfClient"] = 9 /\ step = "client.edb"
         \/ pc["oprfClient"] = 10 /\ step = "create" /\ Script["oprfClient"][11] = "queries.db"
         \/ pc["oprfClient"] = 11 /\ step = "queries.db"
PROOF
  BY DEF At, Script, ProcessesTyped, Processes, Oprf

\* Where in its script the PIR server takes which step.
LEMMA PlacesOfPirServer ==
  ASSUME NEW step, ProcessesTyped, At("pirServer", step)
  PROVE  \/ pc["pirServer"] = 1 /\ step = "dial"
         \/ pc["pirServer"] = 2 /\ step = "load"
         \/ pc["pirServer"] \in {3, 5} /\ step = "tell"
         \/ pc["pirServer"] = 4 /\ step = "hear"
         \/ pc["pirServer"] = 6 /\ step = "print"
PROOF
  BY DEF At, Script, PirServerScript, ProcessesTyped, Processes, Pir

\* Where in its script the PIR client takes which step.
LEMMA PlacesOfPirClient ==
  ASSUME NEW step, ProcessesTyped, At("pirClient", step)
  PROVE  \/ pc["pirClient"] = 1 /\ step = "listen"
         \/ pc["pirClient"] = 2 /\ step = "accept"
         \/ pc["pirClient"] = 3 /\ step = "load"
         \/ pc["pirClient"] \in {4, 6} /\ step = "hear"
         \/ pc["pirClient"] = 5 /\ step = "tell"
         \/ pc["pirClient"] = 7 /\ step = "print"
         \/ pc["pirClient"] = 8 /\ step = "report"
PROOF
  BY DEF At, Script, ProcessesTyped, Processes, Pir

\* The lengths of the scripts.
LEMMA Lengths ==
  /\ Len(Script["datagen"]) = 4
  /\ Len(Script["oprfServer"]) = 8
  /\ Len(Script["oprfClient"]) = 11
  /\ Len(Script["pirServer"]) = 6
  /\ Len(Script["pirClient"]) = 8
PROOF
  BY DEF Script, PirServerScript

-----------------------------------------------------------------------------
\* What a step of one process may change.
Written(p) == CASE p = "datagen" -> Datasets
                [] p = "oprfServer" -> {"server.edb"}
                [] p = "oprfClient" -> {"client.edb", "queries.db"}
                [] OTHER -> {}

Own(p) ==
  /\ status[p] = "up" /\ status'[p] \in {"up", "exited", "aborted"}
  /\ pc'[p] >= pc[p]
  /\ told'[p] >= told[p] \/ told'[p] >= heard[Peer(p)]
  /\ \A q \in Processes \ {p}: /\ status'[q] = status[q] /\ pc'[q] = pc[q]
                               /\ told'[q] = told[q] /\ heard'[q] = heard[q]
  /\ \A f \in Files: files'[f] = files[f] \/ (f \in Written(p) /\ files'[f].of = trial)
  /\ \A f \in Files: loaded'[f] = loaded[f] \/ (p # "datagen" /\ f \in Inputs[p] /\ pc[p] <= 3)
  /\ p # "pirClient" => output'.verdict = output.verdict
  /\ UNCHANGED <<driver, record>>

\* Advance, where nothing but the place changes for the process.
LEMMA AdvanceOwn ==
  ASSUME ProcessesTyped, NEW p \in Processes, status[p] = "up", Advance(p), status' = status
  PROVE  /\ pc' \in [Processes -> Nat \ {0}] /\ pc'[p] = pc[p] + 1
         /\ \A q \in Processes \ {p}: pc'[q] = pc[q]
PROOF
  BY DEF Advance, ProcessesTyped

\* A process that aborts changes its own state only.
LEMMA AbortOwn ==
  ASSUME Typed, NEW p \in Processes, status[p] = "up", Abort(p)
  PROVE  Typed' /\ Own(p) /\ status'[p] = "aborted" /\ told'[p] <= told[p]
PROOF
<1> USE DEF Typed, ProcessesTyped
<1>1. PICK n \in {told[p]} \cup (heard[Peer(p)] .. told[p]): told' = [told EXCEPT ![p] = n]
  BY DEF Abort
<1>2. Peer(p) \in Processes
  BY DEF Peer, Processes, Oprf, Pir
<1>3. n \in Nat /\ n <= told[p] /\ (n = told[p] \/ n >= heard[Peer(p)])
  BY <1>1, <1>2
<1>4. status' = [status EXCEPT ![p] = "aborted"] /\ UNCHANGED <<driver, record, files, loaded, pc, heard, output>>
  BY DEF Abort
<1>5. Typed'
  BY <1>1, <1>3, <1>4 DEF DriverTyped, FilesTyped, OutputTyped, record
<1>6. Own(p)
  BY <1>1, <1>3, <1>4 DEF Own, Outputs, OutputTyped
<1> QED
  BY <1>1, <1>3, <1>4, <1>5, <1>6

\* Loading happens early in a script, and never in datagen's.
LEMMA LoadPlace ==
  ASSUME ProcessesTyped, NEW p \in Processes, At(p, "load")
  PROVE  p # "datagen" /\ pc[p] <= 3
PROOF
  BY PlacesOfDatagen, PlacesOfOprfServer, PlacesOfOprfClient, PlacesOfPirServer,
     PlacesOfPirClient DEF Processes, Oprf, Pir

\* A process that loads a file changes its own state only.
LEMMA LoadOwn ==
  ASSUME Typed, NEW p \in Processes, Load(p)
  PROVE  Typed' /\ Own(p)
PROOF
<1>1. status[p] = "up" /\ p # "datagen" /\ pc[p] <= 3
  BY LoadPlace DEF Load, At, Typed
<1>2. CASE Abort(p)
  BY <1>1, <1>2, AbortOwn
<1>3. CASE /\ loaded' = [f \in Files |-> IF f \in Inputs[p] THEN files[f] ELSE loaded[f]]
           /\ Advance(p)
           /\ UNCHANGED <<driver, record, files, status, talk, output>>
  <2>1. /\ pc' \in [Processes -> Nat \ {0}] /\ pc'[p] = pc[p] + 1
        /\ \A q \in Processes \ {p}: pc'[q] = pc[q]
    BY <1>1, <1>3, AdvanceOwn DEF Typed
  <2>2. Typed'
    BY <1>3, <2>1 DEF Typed, DriverTyped, FilesTyped, ProcessesTyped, OutputTyped, record, talk
  <2>3. Own(p)
    BY <1>1, <1>3, <2>1 DEF Own, Typed, ProcessesTyped, talk
  <2> QED
    BY <2>2, <2>3
<1> QED
  BY <1>2, <1>3 DEF Load

\* Steps that change the talk at most.
LEMMA TellOwn ==
  ASSUME Typed, NEW p \in Processes, Tell(p)
  PROVE  Typed' /\ Own(p)
PROOF
<1>1. status[p] = "up"
  BY DEF Tell, At
<1>2. CASE Abort(p)
  BY <1>1, <1>2, AbortOwn
<1>3. CASE /\ told' = [told EXCEPT ![p] = @ + 1] /\ Advance(p)
           /\ UNCHANGED <<driver, record, files, loaded, status, heard, output>>
  <2>4. told' \in [Processes -> Nat] /\ told'[p] = told[p] + 1
    BY <1>3 DEF Typed, ProcessesTyped
  <2>1. /\ pc' \in [Processes -> Nat \ {0}] /\ pc'[p] = pc[p] + 1
        /\ \A q \in Processes \ {p}: pc'[q] = pc[q]
    BY <1>1, <1>3, AdvanceOwn DEF Typed
  <2>2. Typed'
    BY <1>3, <2>4, <2>1 DEF Typed, DriverTyped, FilesTyped, ProcessesTyped, OutputTyped, record
  <2>3. Own(p)
    BY <1>1, <1>3, <2>4, <2>1 DEF Own, Typed, ProcessesTyped
  <2> QED
    BY <2>2, <2>3
<1> QED
  BY <1>2, <1>3 DEF Tell

\* A process that hears its peer changes its own state only.
LEMMA HearOwn ==
  ASSUME Typed, NEW p \in Processes, Hear(p)
  PROVE  Typed' /\ Own(p)
PROOF
<1>1. status[p] = "up"
  BY DEF Hear, At
<1>2. CASE Abort(p)
  BY <1>1, <1>2, AbortOwn
<1>3. CASE /\ heard' = [heard EXCEPT ![p] = @ + 1] /\ Advance(p)
           /\ UNCHANGED <<driver, record, files, loaded, status, told, output>>
  <2>1. /\ pc' \in [Processes -> Nat \ {0}] /\ pc'[p] = pc[p] + 1
        /\ \A q \in Processes \ {p}: pc'[q] = pc[q]
    BY <1>1, <1>3, AdvanceOwn DEF Typed
  <2>2. heard' \in [Processes -> Nat]
    BY <1>3 DEF Typed, ProcessesTyped
  <2>3. Typed'
    BY <1>3, <2>1, <2>2 DEF Typed, DriverTyped, FilesTyped, ProcessesTyped, OutputTyped, record
  <2>4. Own(p)
    BY <1>1, <1>3, <2>1 DEF Own, Typed, ProcessesTyped
  <2> QED
    BY <2>3, <2>4
<1> QED
  BY <1>2, <1>3 DEF Hear

\* Steps that change the place and nothing else: HearEnd where it goes on,
\* InsertAll where it succeeds, Listen, Dial and Accept.
LEMMA PassOwn ==
  ASSUME Typed, NEW p \in Processes, status[p] = "up", Advance(p),
         UNCHANGED <<driver, record, files, loaded, status, talk, output>>
  PROVE  Typed' /\ Own(p)
PROOF
<1>1. /\ pc' \in [Processes -> Nat \ {0}] /\ pc'[p] = pc[p] + 1
      /\ \A q \in Processes \ {p}: pc'[q] = pc[q]
  BY AdvanceOwn DEF Typed
<1>2. Typed'
  BY <1>1 DEF Typed, DriverTyped, FilesTyped, ProcessesTyped, OutputTyped, record, talk
<1>3. Own(p)
  BY <1>1 DEF Own, Typed, ProcessesTyped, talk
<1> QED
  BY <1>2, <1>3

\* So does one that finds its peer gone.
LEMMA HearEndOwn ==
  ASSUME Typed, NEW p \in Processes, HearEnd(p)
  PROVE  Typed' /\ Own(p)
PROOF
  BY AbortOwn, PassOwn DEF HearEnd, At

\* Steps that print.
LEMMA PrintOwn ==
  ASSUME Typed, NEW p \in Processes, PrintMetrics(p)
  PROVE  Typed' /\ Own(p)
PROOF
<1>1. status[p] = "up"
  BY DEF PrintMetrics, At
<1>2. /\ output' = [output EXCEPT !.printed = @ \cup {p}] /\ Advance(p)
      /\ UNCHANGED <<driver, record, files, loaded, status, talk>>
  BY DEF PrintMetrics
<1>3. /\ pc' \in [Processes -> Nat \ {0}] /\ pc'[p] = pc[p] + 1
      /\ \A q \in Processes \ {p}: pc'[q] = pc[q]
  BY <1>1, <1>2, AdvanceOwn DEF Typed, talk
<1>4. output' \in Outputs /\ output'.verdict = output.verdict
  BY <1>2 DEF Typed, OutputTyped, Outputs
<1>5. Typed'
  BY <1>2, <1>3, <1>4 DEF Typed, DriverTyped, FilesTyped, ProcessesTyped, OutputTyped, record, talk
<1>6. Own(p)
  BY <1>1, <1>2, <1>3, <1>4 DEF Own, Typed, ProcessesTyped, talk
<1> QED
  BY <1>5, <1>6

\* The verdict is the client's own step.
LEMMA ReportOwn ==
  ASSUME Typed, Report
  PROVE  Typed' /\ Own("pirClient") /\ pc'["pirClient"] = pc["pirClient"] + 1
PROOF
<1> "pirClient" \in Processes
  BY DEF Processes, Pir
<1>1. status["pirClient"] = "up"
  BY DEF Report, At
<1>2. /\ \E v \in {"SUCCESS", "FAILURE"}: output' = [output EXCEPT !.verdict = v]
      /\ Advance("pirClient")
      /\ UNCHANGED <<driver, record, files, loaded, status, talk>>
  BY DEF Report
<1>3. /\ pc' \in [Processes -> Nat \ {0}] /\ pc'["pirClient"] = pc["pirClient"] + 1
      /\ \A q \in Processes \ {"pirClient"}: pc'[q] = pc[q]
  BY <1>1, <1>2, AdvanceOwn DEF Typed, talk
<1>4. output' \in Outputs
  BY <1>2 DEF Typed, OutputTyped, Outputs, Verdicts
<1>5. Typed'
  BY <1>2, <1>3, <1>4 DEF Typed, DriverTyped, FilesTyped, ProcessesTyped, OutputTyped, record, talk
<1>6. Own("pirClient")
  BY <1>1, <1>2, <1>3 DEF Own, Typed, ProcessesTyped, talk
<1> QED
  BY <1>3, <1>5, <1>6

\* A process exits at the end of its script.
LEMMA ExitOwn ==
  ASSUME Typed, NEW p \in Processes, Exit(p)
  PROVE  Typed' /\ Own(p) /\ status'[p] = "exited" /\ pc[p] > Len(Script[p])
PROOF
<1>1. /\ status[p] = "up" /\ status' = [status EXCEPT ![p] = "exited"]
      /\ pc[p] > Len(Script[p])
      /\ UNCHANGED <<driver, record, files, loaded, pc, talk, output>>
  BY DEF Exit
<1>2. Typed'
  BY <1>1 DEF Typed, DriverTyped, FilesTyped, ProcessesTyped, OutputTyped, record, talk
<1>3. Own(p)
  BY <1>1 DEF Own, Typed, ProcessesTyped, talk
<1> QED
  BY <1>1, <1>2, <1>3 DEF Typed, ProcessesTyped

\* A step that writes n entries of a file.
LEMMA WriteOwn ==
  ASSUME Typed, NEW p \in Processes, status[p] = "up", Advance(p),
         NEW f \in Written(p), NEW n \in 0 .. NQueries, NEW l \in BOOLEAN,
         files' = [files EXCEPT ![f] = [of |-> trial, n |-> n, lost |-> l]],
         UNCHANGED <<driver, record, loaded, status, talk, output>>
  PROVE  Typed' /\ Own(p)
PROOF
<1>1. f \in Files
  BY DEF Written, Files, Datasets, Results, Processes, Oprf, Pir
<1>2. /\ pc' \in [Processes -> Nat \ {0}] /\ pc'[p] = pc[p] + 1
      /\ \A q \in Processes \ {p}: pc'[q] = pc[q]
  BY AdvanceOwn DEF Typed
<1>3. PICK c \in Contents: c = [of |-> trial, n |-> n, lost |-> l]
  BY DEF Contents, Typed, DriverTyped
<1>4. files' = [files EXCEPT ![f] = c] /\ c.of = trial
  BY <1>3
<1>5. Typed'
  BY <1>1, <1>2, <1>4 DEF Typed, DriverTyped, FilesTyped, ProcessesTyped, OutputTyped, record, talk
<1>6. Own(p)
  BY <1>1, <1>2, <1>4 DEF Own, Typed, FilesTyped, ProcessesTyped, talk
<1> QED
  BY <1>5, <1>6

\* What a process that closes a file has written, or lost.
LEMMA CloseWrites ==
  ASSUME Typed, NEW p \in Processes, NEW f \in Files, Close(p, f), NEW m \in 0 .. NQueries,
         Entries(f) = m, files[f] # None
  PROVE  \E n \in 0 .. m, l \in BOOLEAN:
            /\ files' = [files EXCEPT ![f] = [of |-> trial, n |-> n, lost |-> l]]
            /\ n = m \/ l
PROOF
<1> NQueries \in Nat \ {0}
  BY TrialAssumption
<1>1. CASE files' = [files EXCEPT ![f] = [of |-> trial, n |-> Entries(f), lost |-> FALSE]]
  <2>1. m \in 0 .. m
    OBVIOUS
  <2>2. files' = [files EXCEPT ![f] = [of |-> trial, n |-> m, lost |-> FALSE]]
    BY <1>1
  <2> QED
    BY <2>1, <2>2, Zenon
<1>2. CASE /\ files[f].n < Entries(f)
           /\ files' = [files EXCEPT ![f] = [of |-> trial, n |-> files[f].n, lost |-> TRUE]]
  <2>1. files[f] \in Contents
    BY DEF Typed, FilesTyped
  <2>2. files[f].n \in 0 .. m
    BY <1>2, <2>1 DEF Contents
  <2> QED
    BY <1>2, <2>2
<1> QED
  BY <1>1, <1>2 DEF Close

-----------------------------------------------------------------------------
\* What such a step leaves as it was, part by part.
LEMMA PhasedKept ==
  ASSUME Typed, Phased, NEW p \in Processes, Own(p)
  PROVE  Phased' /\ Live /\ Live'
PROOF
<1>1. driver = Phase(p) /\ driver' = driver
  BY DEF Phased, Own
<1>2. Live /\ Live'
  BY <1>1 DEF Live, Phase
<1>3. \A q \in Processes: status'[q] = "up" => driver' = Phase(q)
  BY <1>1 DEF Own, Phased
<1>4. \A q \in Oprf: pc'[q] > 1 => driver' # "datagen"
  BY <1>1, <1>2 DEF Own, Phased, Phase, Processes, Oprf, Pir
<1>5. \A q \in Pir: pc'[q] > 1 => driver' = "pir"
  BY <1>1, <1>2 DEF Own, Phased, Phase, Processes, Oprf, Pir
<1>6. driver' \in {"oprf", "pir"} => Ended("datagen")'
  BY <1>1 DEF Own, Phased, Phase, Processes, Oprf, Pir, Ended
<1>7. driver' = "pir" => \A q \in Oprf: Ended(q)'
  BY <1>1 DEF Own, Phased, Phase, Processes, Oprf, Pir, Ended
<1> QED
  BY <1>2, <1>3, <1>4, <1>5, <1>6, <1>7 DEF Phased, Live

\* A step of a process leaves the driver and its record alone.
LEMMA OfThisTrialKept ==
  ASSUME OfThisTrial, NEW p \in Processes, Own(p)
  PROVE  OfThisTrial'
PROOF
  BY DEF OfThisTrial, Own, record

\* A step of another process leaves the generator's files alone.
LEMMA DatagenKept ==
  ASSUME Typed, DatagenAt, NEW p \in Processes \ {"datagen"}, Own(p)
  PROVE  DatagenAt'
PROOF
<1>1. files'["server.db"] = files["server.db"] /\ files'["client.db"] = files["client.db"]
  BY DEF Own, Written, Files, Datasets, Results, Processes, Oprf, Pir
<1>2. pc'["datagen"] = pc["datagen"] /\ status'["datagen"] = status["datagen"] /\ trial' = trial
  BY DEF Own, Processes, record
<1> QED
  BY <1>1, <1>2 DEF DatagenAt, Holds

\* A step of another process leaves what the OPRF server tells.
LEMMA OprfServerKept ==
  ASSUME Typed, Phased, OprfServerAt, NEW p \in Processes \ {"oprfServer"}, Own(p)
  PROVE  OprfServerAt'
PROOF
<1>1. pc'["oprfServer"] = pc["oprfServer"]
  BY DEF Own, Processes, Oprf
<1>2. files'["server.edb"] = files["server.edb"]
  BY DEF Own, Written, Files, Datasets, Results, Processes, Oprf, Pir
<1>3. loaded'["server.db"] = loaded["server.db"]
  BY DEF Own, Inputs, Files, Datasets, Results, Processes, Oprf, Pir
<1>4. CASE p = "datagen"
  <2>1. pc["oprfServer"] = 1
    BY <1>4, PhasedKept DEF Own, Phased, Phase, Processes, Oprf, Pir, Typed, ProcessesTyped
  <2> QED
    BY <1>1, <1>2, <2>1 DEF OprfServerAt
<1>5. CASE p # "datagen"
  <2>1. files'["server.db"] = files["server.db"]
    BY <1>5 DEF Own, Written, Files, Datasets, Results, Processes, Oprf, Pir
  <2> QED
    BY <1>1, <1>2, <1>3, <2>1 DEF OprfServerAt, Took
<1> QED
  BY <1>4, <1>5

\* A step of another process leaves what the OPRF client tells.
LEMMA OprfClientKept ==
  ASSUME Typed, Phased, OprfClientAt, NEW p \in Processes \ {"oprfClient"}, Own(p)
  PROVE  OprfClientAt'
PROOF
<1>1. pc'["oprfClient"] = pc["oprfClient"] /\ status'["oprfClient"] = status["oprfClient"]
      /\ trial' = trial /\ single' = single
  BY DEF Own, Processes, Oprf, record
<1>2. files'["client.edb"] = files["client.edb"] /\ files'["queries.db"] = files["queries.db"]
  BY DEF Own, Written, Files, Datasets, Results, Processes, Oprf, Pir
<1>3. loaded'["client.db"] = loaded["client.db"]
  BY DEF Own, Inputs, Files, Datasets, Results, Processes, Oprf, Pir
<1>4. Entries("client.edb")' = Entries("client.edb") /\ Entries("queries.db")' = Entries("queries.db")
  BY <1>1, <1>3 DEF Entries, Datasets
<1>5. CASE p = "datagen"
  <2>1. pc["oprfClient"] = 1
    BY <1>5, PhasedKept DEF Own, Phased, Phase, Processes, Oprf, Pir, Typed, ProcessesTyped
  <2> QED
    BY <1>1, <1>2, <2>1 DEF OprfClientAt
<1>6. CASE p # "datagen"
  <2>1. files'["client.db"] = files["client.db"]
    BY <1>6 DEF Own, Written, Files, Datasets, Results, Processes, Oprf, Pir
  <2> QED
    BY <1>1, <1>2, <1>3, <1>4, <2>1 DEF OprfClientAt, Took, Holds
<1> QED
  BY <1>5, <1>6

\* A step of another process leaves what the PIR server tells.
LEMMA PirServerKept ==
  ASSUME Typed, Typed', Phased, PirServerAt, NEW p \in Processes \ {"pirServer"}, Own(p)
  PROVE  PirServerAt'
PROOF
<1>1. /\ pc'["pirServer"] = pc["pirServer"] /\ told'["pirServer"] = told["pirServer"]
      /\ status'["pirServer"] = status["pirServer"] /\ trial' = trial
  BY DEF Own, Processes, Pir, record
<1>2. loaded'["server.edb"] = loaded["server.edb"]
  BY DEF Own, Inputs, Files, Datasets, Results, Processes, Oprf, Pir
<1>3. CASE p \notin Pir
  <2>1. pc["pirServer"] = 1
    BY <1>3, PhasedKept DEF Own, Phased, Phase, Processes, Oprf, Pir, Typed, ProcessesTyped
  <2> QED
    BY <1>1, <2>1 DEF PirServerAt, Typed, ProcessesTyped
<1>4. CASE p = "pirClient"
  <2>1. files'["server.edb"] = files["server.edb"]
    BY <1>4 DEF Own, Written, Files, Datasets, Results
  <2>2. Ended("pirClient") => Ended("pirClient")'
    BY <1>4 DEF Own, Ended
  <2>3. pc["pirClient"] >= 6 => pc'["pirClient"] >= 6 /\ NAsked' = NAsked
    BY <1>4 DEF Own, NAsked, Files, Results, Typed, ProcessesTyped, Processes, Pir
  <2> QED
    BY <1>1, <1>2, <2>1, <2>2, <2>3 DEF PirServerAt, Took
<1> QED
  BY <1>3, <1>4 DEF Pir

\* A step of another process leaves what the PIR client tells.
LEMMA PirClientKept ==
  ASSUME Typed, Typed', Phased, PirServerAt, PirClientAt,
         NEW p \in Processes \ {"pirClient"}, Own(p)
  PROVE  PirClientAt'
PROOF
<1>1. /\ pc'["pirClient"] = pc["pirClient"] /\ told'["pirClient"] = told["pirClient"]
      /\ heard'["pirClient"] = heard["pirClient"]
  BY DEF Own, Processes, Pir
<1>2. single' = single /\ expected' = expected /\ output'.verdict = output.verdict
  BY DEF Own, record
<1>3. loaded'["client.edb"] = loaded["client.edb"] /\ loaded'["queries.db"] = loaded["queries.db"]
  BY DEF Own, Inputs, Files, Datasets, Results, Processes, Oprf, Pir
<1>4. NAsked' = NAsked
  BY <1>3 DEF NAsked
<1>5. CASE p \notin Pir
  <2>1. pc["pirClient"] = 1
    BY <1>5, PhasedKept DEF Own, Phased, Phase, Processes, Oprf, Pir, Typed, ProcessesTyped
  <2> QED
    BY <1>1, <1>2, <2>1 DEF PirClientAt, Typed, ProcessesTyped
<1>6. CASE p = "pirServer"
  <2>1. files'["client.edb"] = files["client.edb"] /\ files'["queries.db"] = files["queries.db"]
    BY <1>6 DEF Own, Written, Files, Datasets, Results
  <2>2. \A f \in Datasets: loaded'[f] = loaded[f]
    BY <1>6 DEF Own, Inputs, Files, Datasets, Results
  <2>3. pc["pirClient"] >= 5 => told'["pirServer"] >= 1
    <3>1. Peer("pirServer") = "pirClient"
      BY DEF Peer
    <3>2. pc["pirClient"] >= 5 => told["pirServer"] >= 1 /\ heard["pirClient"] >= 1
      BY DEF PirClientAt, Typed, ProcessesTyped, Processes, Pir
    <3>3. told'["pirServer"] >= told["pirServer"] \/ told'["pirServer"] >= heard["pirClient"]
      BY <1>6, <3>1 DEF Own
    <3>4. told["pirServer"] \in Nat /\ heard["pirClient"] \in Nat
      BY DEF Typed, ProcessesTyped, Processes, Pir
    <3>5. told'["pirServer"] \in Nat
      BY DEF Typed, ProcessesTyped, Processes, Pir
    <3> QED
      BY <3>2, <3>3, <3>4, <3>5
  <2>4. status["pirServer"] # "aborted"
    BY <1>6 DEF Own
  <2> QED
    BY <1>1, <1>2, <1>3, <1>4, <2>1, <2>2, <2>3, <2>4 DEF PirClientAt, Took
<1> QED
  BY <1>5, <1>6 DEF Pir

-----------------------------------------------------------------------------
\* The places of each process after its own steps.
LEMMA Names == /\ Processes = {"datagen", "oprfServer", "oprfClient", "pirServer", "pirClient"}
               /\ Files = {"server.db", "client.db", "server.edb", "client.edb", "queries.db"}
PROOF
  BY DEF Processes, Oprf, Pir, Files, Datasets, Results

\* The generator's own steps keep what its place tells.
LEMMA DatagenSteps ==
  ASSUME Typed, OfThisTrial, DatagenAt, Datagen \/ Kill("datagen")
  PROVE  Typed' /\ Own("datagen") /\ DatagenAt'
PROOF
<1> "datagen" \in Processes
  BY Names
<1> NQueries \in Nat \ {0}
  BY TrialAssumption
<1> DEFINE here == pc["datagen"]
<1>1. CASE Kill("datagen")
  <2>1. Abort("datagen") /\ status["datagen"] = "up"
    BY <1>1 DEF Kill
  <2>2. Typed' /\ Own("datagen") /\ status'["datagen"] = "aborted"
    BY <2>1, AbortOwn
  <2>3. DatagenAt'
    BY <2>1, <2>2 DEF Abort, DatagenAt, Holds, record
  <2> QED
    BY <2>2, <2>3
<1>2. CASE Exit("datagen")
  <2>1. Typed' /\ Own("datagen") /\ here > Len(Script["datagen"])
    BY <1>2, ExitOwn
  <2>2. here >= 5
    BY <2>1, Lengths DEF Typed, ProcessesTyped
  <2>3. DatagenAt'
    BY <1>2, <2>1, <2>2 DEF Exit, DatagenAt, Holds, record
  <2> QED
    BY <2>1, <2>3
<1>3. CASE \E f \in Files: Create("datagen", f)
  <2>1. PICK f \in Files: Create("datagen", f)
    BY <1>3
  <2>2. PICK n \in 0 .. Entries(f): files' = [files EXCEPT ![f] = [of |-> trial, n |-> n, lost |-> FALSE]]
    BY <2>1 DEF Create
  <2>3. \/ here = 1 /\ f = "server.db"
        \/ here = 3 /\ f = "client.db"
    BY <2>1, PlacesOfDatagen DEF Create, Typed
  <2>4. n \in 0 .. NQueries
    BY <2>3 DEF Entries, Datasets
  <2>5. /\ Typed' /\ Own("datagen")
    BY <2>1, <2>2, <2>3, <2>4, WriteOwn DEF Create, At, Written, Datasets
  <2>6. pc'["datagen"] = here + 1 /\ status' = status /\ trial' = trial
    BY <2>1 DEF Create, Advance, Typed, ProcessesTyped, record
  <2>7. DatagenAt'
    <3>1. CASE here = 1 /\ f = "server.db"
      <4>1. files'["client.db"] = files["client.db"]
        BY <2>2, <3>1, Names DEF Typed, FilesTyped
      <4>2. files'["server.db"] # None
        BY <2>2, <3>1, Names DEF Typed, DriverTyped, FilesTyped, None
      <4> QED
        BY <2>1, <2>6, <3>1, <4>1, <4>2 DEF DatagenAt, Create, At
    <3>2. CASE here = 3 /\ f = "client.db"
      <4>1. files'["server.db"] = files["server.db"]
        BY <2>2, <3>2, Names DEF Typed, FilesTyped
      <4>2. files'["client.db"] # None
        BY <2>2, <3>2, Names DEF Typed, DriverTyped, FilesTyped, None
      <4> QED
        BY <2>1, <2>6, <3>2, <4>1, <4>2 DEF DatagenAt, Create, At, Holds
    <3> QED
      BY <2>3, <3>1, <3>2
  <2> QED
    BY <2>5, <2>7
<1>4. CASE \E f \in Files: Close("datagen", f)
  <2>1. PICK f \in Files: Close("datagen", f)
    BY <1>4
  <2>2. \/ here = 2 /\ f = "server.db"
        \/ here = 4 /\ f = "client.db"
    BY <2>1, PlacesOfDatagen, Names DEF Close, Typed
  <2>3. PICK n \in 0 .. NQueries, l \in BOOLEAN:
           /\ files' = [files EXCEPT ![f] = [of |-> trial, n |-> n, lost |-> l]]
           /\ n = NQueries \/ l
    <3>1. Entries(f) = NQueries
      BY <2>2 DEF Entries, Datasets
    <3>2. files[f] # None /\ NQueries \in 0 .. NQueries
      BY <2>2 DEF DatagenAt
    <3> QED
      BY <2>1, <3>1, <3>2, CloseWrites
  <2>4. /\ Typed' /\ Own("datagen")
    <3>1. f \in Written("datagen")
      BY <2>2 DEF Written, Datasets
    <3> QED
      BY <2>1, <2>3, <3>1, WriteOwn DEF Close, At
  <2>5. pc'["datagen"] = here + 1 /\ status' = status /\ trial' = trial
    BY <2>1 DEF Close, Advance, Typed, ProcessesTyped, record
  <2>6. f \in Files /\ Holds(f, NQueries)'
    BY <2>3, <2>5, Names DEF Holds, None, Typed, DriverTyped, FilesTyped
  <2>7. DatagenAt'
    <3>1. CASE here = 2 /\ f = "server.db"
      <4>1. files'["client.db"] = files["client.db"]
        BY <2>3, <3>1, Names DEF Typed, FilesTyped
      <4> QED
        BY <2>1, <2>5, <2>6, <3>1, <4>1 DEF DatagenAt, Close, At, Holds
    <3>2. CASE here = 4 /\ f = "client.db"
      <4>1. files'["server.db"] = files["server.db"]
        BY <2>3, <3>2, Names DEF Typed, FilesTyped
      <4>2. Holds("server.db", NQueries)'
        BY <2>5, <3>2, <4>1 DEF DatagenAt, Holds
      <4> QED
        BY <2>1, <2>5, <2>6, <3>2, <4>2 DEF DatagenAt, Close, At, Holds
    <3> QED
      BY <2>2, <3>1, <3>2
  <2> QED
    BY <2>4, <2>7
<1> QED
  BY <1>1, <1>2, <1>3, <1>4 DEF Datagen, Writing

\* The OPRF server's own steps keep what its place tells.
LEMMA OprfServerSteps ==
  ASSUME Typed, OfThisTrial, OprfServerAt, OprfServer \/ Kill("oprfServer")
  PROVE  Typed' /\ Own("oprfServer") /\ OprfServerAt'
PROOF
<1> "oprfServer" \in Processes
  BY Names
<1> NQueries \in Nat \ {0}
  BY TrialAssumption
<1> DEFINE here == pc["oprfServer"]
<1>1. ASSUME Typed', Own("oprfServer"), UNCHANGED <<files, loaded>>,
             (here \in 2 .. 6 /\ pc'["oprfServer"] = here + 1) \/ pc'["oprfServer"] = here
      PROVE  OprfServerAt'
  BY <1>1 DEF OprfServerAt, Took, Own, Typed, ProcessesTyped
<1>2. CASE Kill("oprfServer") \/ Tell("oprfServer") \/ Hear("oprfServer")
           \/ HearEnd("oprfServer") \/ PrintMetrics("oprfServer") \/ Exit("oprfServer")
  <2>1. Typed' /\ Own("oprfServer")
    BY <1>2, AbortOwn, TellOwn, HearOwn, HearEndOwn, PrintOwn, ExitOwn DEF Kill
  <2>2. UNCHANGED <<files, loaded>>
    BY <1>2 DEF Kill, Abort, Tell, Hear, HearEnd, PrintMetrics, Exit
  <2>3. CASE Kill("oprfServer") \/ Exit("oprfServer") \/ Abort("oprfServer")
    BY <1>1, <2>1, <2>2, <2>3 DEF Kill, Exit, Abort
  <2>4. CASE ~(Kill("oprfServer") \/ Exit("oprfServer") \/ Abort("oprfServer"))
    <3>1. here \in 2 .. 6 /\ status["oprfServer"] = "up"
      BY <1>2, <2>4, PlacesOfOprfServer DEF Tell, Hear, HearEnd, PrintMetrics, Typed, At
    <3>2. Advance("oprfServer") /\ status' = status
      BY <1>2, <2>4 DEF Tell, Hear, HearEnd, PrintMetrics
    <3>3. pc'["oprfServer"] = here + 1
      BY <3>1, <3>2, AdvanceOwn DEF Typed
    <3> QED
      BY <1>1, <2>1, <2>2, <3>1, <3>3
  <2> QED
    BY <2>1, <2>3, <2>4
<1>3. CASE Load("oprfServer")
  <2>1. Typed' /\ Own("oprfServer")
    BY <1>3, LoadOwn
  <2>2. CASE Abort("oprfServer")
    BY <1>1, <2>1, <2>2 DEF Abort
  <2>3. CASE ~Abort("oprfServer")
    <3>1. /\ files["server.db"] # None /\ files' = files /\ here = 1
          /\ loaded' = [f \in Files |-> IF f \in Inputs["oprfServer"] THEN files[f] ELSE loaded[f]]
      BY <1>3, <2>3, PlacesOfOprfServer DEF Load, Inputs, Typed
    <3>2. loaded'["server.db"] = files["server.db"]
      BY <3>1, Names DEF Inputs
    <3>3. pc'["oprfServer"] = 2
      BY <1>3, <2>3, <3>1 DEF Load, Advance, Typed, ProcessesTyped
    <3> QED
      BY <2>1, <3>1, <3>2, <3>3 DEF OprfServerAt, Took
  <2> QED
    BY <2>2, <2>3
<1>4. CASE \E f \in Files: Create("oprfServer", f) \/ Close("oprfServer", f)
  <2>1. PICK f \in Files: Create("oprfServer", f) \/ Close("oprfServer", f)
    BY <1>4
  <2>2. /\ here \in {7, 8} /\ f = "server.edb"
        /\ here = 8 => Close("oprfServer", f)
        /\ here = 7 => Create("oprfServer", f)
    BY <2>1, PlacesOfOprfServer, Names DEF Create, Close, Typed
  <2>3. PICK m \in 0 .. NQueries: Entries(f) = m
    BY <2>2 DEF Entries, Datasets
  <2>4. PICK n \in 0 .. NQueries, l \in BOOLEAN:
           files' = [files EXCEPT ![f] = [of |-> trial, n |-> n, lost |-> l]]
    <3>1. CASE here = 7
      <4>1. PICK n \in 0 .. m: files' = [files EXCEPT ![f] = [of |-> trial, n |-> n, lost |-> FALSE]]
        BY <2>2, <2>3, <3>1 DEF Create
      <4>2. n \in 0 .. NQueries
        OBVIOUS
      <4> QED
        BY <4>1, <4>2, Zenon
    <3>2. CASE here = 8
      BY <2>2, <2>3, <3>2, CloseWrites DEF OprfServerAt
    <3> QED
      BY <2>2, <3>1, <3>2
  <2>5. /\ Typed' /\ Own("oprfServer")
    BY <2>1, <2>2, <2>4, WriteOwn DEF Create, Close, At, Written
  <2>6. pc'["oprfServer"] = here + 1 /\ loaded' = loaded
    BY <2>1 DEF Create, Close, Advance, Typed, ProcessesTyped
  <2>7. files'["server.db"] = files["server.db"] /\ files'["server.edb"] # None
    BY <2>2, <2>4, Names DEF Typed, DriverTyped, FilesTyped, None
  <2> QED
    BY <2>2, <2>5, <2>6, <2>7 DEF OprfServerAt, Took
<1> QED
  BY <1>2, <1>3, <1>4 DEF OprfServer, Step, Writing

\* The OPRF client's own steps keep what its place tells.
LEMMA OprfClientSteps ==
  ASSUME Typed, OfThisTrial, OprfClientAt, OprfClient \/ Kill("oprfClient")
  PROVE  Typed' /\ Own("oprfClient") /\ OprfClientAt'
PROOF
<1> "oprfClient" \in Processes
  BY Names
<1> NQueries \in Nat \ {0}
  BY TrialAssumption
<1> DEFINE here == pc["oprfClient"]
<1> here \in Nat \ {0}
  BY DEF Typed, ProcessesTyped
<1>1. ASSUME Typed', Own("oprfClient"), status'["oprfClient"] # "exited",
             (here \in 2 .. 7 /\ pc'["oprfClient"] = here + 1) \/ pc'["oprfClient"] = here,
             UNCHANGED <<files, loaded>>
      PROVE  OprfClientAt'
  <2>1. UNCHANGED <<trial, single>>
    BY <1>1 DEF Own, record
  <2>2. Entries("client.edb")' = Entries("client.edb") /\ Entries("queries.db")' = Entries("queries.db")
    BY <1>1, <2>1 DEF Entries
  <2> QED
    BY <1>1, <2>1, <2>2 DEF OprfClientAt, Took, Holds
<1>2. ASSUME Advance("oprfClient"), status["oprfClient"] = "up", status' = status
      PROVE  pc'["oprfClient"] = here + 1 /\ status'["oprfClient"] # "exited"
  BY <1>2, AdvanceOwn DEF Typed
<1>3. CASE Kill("oprfClient")
  BY <1>1, <1>3, AbortOwn DEF Kill, Abort
<1>4. CASE Tell("oprfClient") \/ Hear("oprfClient") \/ HearEnd("oprfClient")
           \/ PrintMetrics("oprfClient") \/ InsertAll
  <2>1. here \in 2 .. 7 /\ status["oprfClient"] = "up"
    BY <1>4, PlacesOfOprfClient DEF Tell, Hear, HearEnd, PrintMetrics, InsertAll, Typed, At
  <2>2. UNCHANGED <<files, loaded>>
    BY <1>4 DEF Abort, Tell, Hear, HearEnd, PrintMetrics, InsertAll
  <2>3. Typed' /\ Own("oprfClient")
    BY <1>4, <2>1, AbortOwn, TellOwn, HearOwn, HearEndOwn, PrintOwn, PassOwn DEF InsertAll
  <2>4. Abort("oprfClient") \/ (Advance("oprfClient") /\ status' = status)
    BY <1>4 DEF Tell, Hear, HearEnd, PrintMetrics, InsertAll
  <2>5. CASE Abort("oprfClient")
    BY <1>1, <2>1, <2>3, <2>5, AbortOwn DEF Abort
  <2>6. CASE Advance("oprfClient") /\ status' = status
    BY <1>1, <1>2, <2>1, <2>2, <2>3, <2>6
  <2> QED
    BY <2>3, <2>4, <2>5, <2>6
<1>5. CASE Exit("oprfClient")
  <2>1. Typed' /\ Own("oprfClient") /\ here > Len(Script["oprfClient"])
    BY <1>5, ExitOwn
  <2>2. here >= 12
    BY <2>1, Lengths
  <2>3. UNCHANGED <<trial, single, files, loaded, pc>>
    BY <1>5 DEF Exit, record
  <2>4. Entries("client.edb")' = Entries("client.edb") /\ Entries("queries.db")' = Entries("queries.db")
    BY <2>3 DEF Entries
  <2> QED
    BY <2>1, <2>2, <2>3, <2>4 DEF OprfClientAt, Took, Holds
<1>6. CASE Load("oprfClient")
  <2>1. Typed' /\ Own("oprfClient")
    BY <1>6, LoadOwn
  <2>2. here = 1 /\ status["oprfClient"] = "up"
    BY <1>6, PlacesOfOprfClient DEF Load, At, Typed
  <2>3. CASE Abort("oprfClient")
    BY <1>1, <2>1, <2>2, <2>3, AbortOwn DEF Abort
  <2>4. CASE ~Abort("oprfClient")
    <3>1. /\ files["client.db"] # None /\ files' = files
          /\ Advance("oprfClient") /\ status' = status
          /\ loaded' = [f \in Files |-> IF f \in Inputs["oprfClient"] THEN files[f] ELSE loaded[f]]
      BY <1>6, <2>4 DEF Load, Inputs
    <3>2. loaded'["client.db"] = files["client.db"]
      BY <3>1, Names DEF Inputs
    <3>3. pc'["oprfClient"] = 2 /\ status'["oprfClient"] # "exited"
      BY <1>2, <2>2, <3>1
    <3> QED
      BY <2>1, <2>2, <3>1, <3>2, <3>3 DEF OprfClientAt, Took
  <2> QED
    BY <2>1, <2>3, <2>4
<1>7. CASE \E f \in Files: Create("oprfClient", f) \/ Close("oprfClient", f)
  <2>1. PICK f \in Files: Create("oprfClient", f) \/ Close("oprfClient", f)
    BY <1>7
  <2>2. /\ status["oprfClient"] = "up" /\ Advance("oprfClient")
        /\ UNCHANGED <<driver, record, loaded, status, talk, output>>
    BY <2>1 DEF Create, Close, At
  <2>3. /\ here \in 8 .. 11
        /\ here \in {8, 9} => f = "client.edb"
        /\ here \in {10, 11} => f = "queries.db"
        /\ here \in {9, 11} => Close("oprfClient", f)
    BY <2>1, PlacesOfOprfClient, Names DEF Create, Close, Typed
  <2>4. PICK m \in 0 .. NQueries: Entries("client.edb") = m /\ Entries("queries.db") = m
    <3>1. loaded["client.db"] \in Contents
      BY <2>3, Names DEF OprfClientAt, Took, Typed, FilesTyped
    <3>2. loaded["client.db"].n \in 0 .. NQueries
      BY <3>1 DEF Contents
    <3> QED
      BY <3>2 DEF Entries, Datasets
  <2>5. Entries(f) = m
    BY <2>3, <2>4
  <2>6. PICK n \in 0 .. m, l \in BOOLEAN:
           /\ files' = [files EXCEPT ![f] = [of |-> trial, n |-> n, lost |-> l]]
           /\ here \in {9, 11} => n = m \/ l
    <3>1. CASE here \in {8, 10}
      <4>1. Create("oprfClient", f)
        BY <2>1, <2>3, <3>1, PlacesOfOprfClient, Names DEF Close, Typed
      <4>2. PICK n \in 0 .. m: files' = [files EXCEPT ![f] = [of |-> trial, n |-> n, lost |-> FALSE]]
        BY <2>5, <4>1 DEF Create
      <4>3. ~(here \in {9, 11})
        BY <3>1
      <4> QED
        BY <4>2, <4>3, Zenon
    <3>2. CASE here \in {9, 11}
      BY <2>3, <2>5, <3>2, CloseWrites DEF OprfClientAt
    <3> QED
      BY <2>3, <3>1, <3>2
  <2>7. f \in Written("oprfClient") /\ n \in 0 .. NQueries
    BY <2>3 DEF Written
  <2>8. /\ Typed' /\ Own("oprfClient")
    BY <2>2, <2>6, <2>7, WriteOwn
  <2>9. pc'["oprfClient"] = here + 1 /\ status'["oprfClient"] # "exited"
    BY <1>2, <2>2
  <2>10. trial' = trial /\ single' = single
    BY <2>2 DEF record
  <2>11. Entries("client.edb")' = m /\ Entries("queries.db")' = m
    BY <2>2, <2>4, <2>10 DEF Entries
  <2>12. loaded'["client.db"] = loaded["client.db"] /\ files'["client.db"] = files["client.db"]
    BY <2>2, <2>3, <2>6, Names DEF Typed, FilesTyped
  <2>15. /\ files'[f] # None
         /\ here \in {9, 11} => Holds(f, m)'
    BY <2>3, <2>6, <2>10, Names DEF Holds, None, Typed, DriverTyped, FilesTyped
  <2>13. CASE here \in {8, 9}
    <3>1. files'["queries.db"] = files["queries.db"] /\ f = "client.edb"
      BY <2>3, <2>6, <2>13, Names DEF Typed, FilesTyped
    <3> QED
      BY <2>8, <2>9, <2>11, <2>12, <2>13, <2>15, <3>1 DEF OprfClientAt, Took
  <2>14. CASE here \in {10, 11}
    <3>1. files'["client.edb"] = files["client.edb"] /\ f = "queries.db"
      BY <2>3, <2>6, <2>14, Names DEF Typed, FilesTyped
    <3>2. Holds("client.edb", m)'
      BY <2>4, <2>10, <2>14, <3>1 DEF OprfClientAt, Holds
    <3> QED
      BY <2>8, <2>9, <2>11, <2>12, <2>14, <2>15, <3>1, <3>2 DEF OprfClientAt, Took
  <2> QED
    BY <2>3, <2>8, <2>13, <2>14
<1> QED
  BY <1>3, <1>4, <1>5, <1>6, <1>7 DEF OprfClient, Step, Writing

\* The PIR server's own steps keep what its place tells.
LEMMA PirServerSteps ==
  ASSUME Typed, OfThisTrial, PirServerAt, PirClientAt, PirServer \/ Kill("pirServer")
  PROVE  Typed' /\ Own("pirServer") /\ PirServerAt'
PROOF
<1> "pirServer" \in Processes /\ "pirClient" \in Processes
  BY Names
<1> NQueries \in Nat \ {0}
  BY TrialAssumption
<1> DEFINE here == pc["pirServer"]
           said == told["pirServer"]
<1> here \in Nat \ {0} /\ said \in Nat
  BY DEF Typed, ProcessesTyped
<1>1. ASSUME Typed', Own("pirServer"), UNCHANGED <<files, loaded>>,
             \/ pc'["pirServer"] = here /\ told'["pirServer"] <= said /\ status'["pirServer"] = "aborted"
             \/ /\ pc'["pirServer"] = here /\ told'["pirServer"] = said
                /\ status'["pirServer"] = "exited" => here >= 7
             \/ /\ pc'["pirServer"] = here + 1 /\ here \in {1, 3, 5, 6} /\ status'["pirServer"] = "up"
                /\ told'["pirServer"] = IF here \in {3, 5} THEN said + 1 ELSE said
             \/ /\ pc'["pirServer"] = here + 1 /\ here = 4 /\ told'["pirServer"] = said
                /\ status'["pirServer"] = "up"
                /\ Ended("pirClient") \/ (pc["pirClient"] >= 6 /\ NAsked = NQueries)
      PROVE  PirServerAt'
  <2>1. trial' = trial /\ NAsked' = NAsked
    BY <1>1 DEF Own, record, NAsked
  <2>2. pc'["pirClient"] = pc["pirClient"] /\ Ended("pirClient")' = Ended("pirClient")
    BY <1>1 DEF Own, Ended
  <2>3. told'["pirServer"] \in Nat /\ status["pirServer"] = "up"
    BY <1>1 DEF Own, Typed, ProcessesTyped
  <2> QED
    BY <1>1, <2>1, <2>2, <2>3 DEF PirServerAt, Took
<1>2. ASSUME Advance("pirServer"), status["pirServer"] = "up", status' = status
      PROVE  pc'["pirServer"] = here + 1
  BY <1>2, AdvanceOwn DEF Typed
<1>3. ASSUME Abort("pirServer"), status["pirServer"] = "up"
      PROVE  Typed' /\ Own("pirServer") /\ PirServerAt'
  BY <1>1, <1>3, AbortOwn DEF Abort
<1>4. CASE Kill("pirServer")
  BY <1>3, <1>4 DEF Kill
<1>5. CASE Refused
  <2>1. status["pirServer"] = "up"
    BY <1>5 DEF Refused, At
  <2>2. CASE Abort("pirServer")
    BY <1>3, <2>1, <2>2
  <2>3. CASE UNCHANGED <<driver, record, files, loaded, status, pc, talk, output>>
    <3>1. Typed'
      BY <2>3 DEF Typed, DriverTyped, FilesTyped, ProcessesTyped, OutputTyped, record, talk
    <3>2. Own("pirServer")
      BY <2>1, <2>3 DEF Own, Typed, ProcessesTyped, talk
    <3> QED
      BY <1>1, <2>1, <2>3, <3>1, <3>2 DEF talk
  <2> QED
    BY <1>5, <2>2, <2>3 DEF Refused
<1>6. CASE Dial
  <2>1. here = 1 /\ status["pirServer"] = "up"
    BY <1>6, PlacesOfPirServer DEF Dial, At, Typed
  <2>2. /\ Advance("pirServer")
        /\ UNCHANGED <<driver, record, files, loaded, status, talk, output>>
    BY <1>6 DEF Dial
  <2>3. Typed' /\ Own("pirServer")
    BY <2>1, <2>2, PassOwn
  <2> QED
    BY <1>1, <1>2, <2>1, <2>2, <2>3 DEF talk
<1>7. CASE Load("pirServer")
  <2>1. Typed' /\ Own("pirServer")
    BY <1>7, LoadOwn
  <2>2. here = 2 /\ status["pirServer"] = "up"
    BY <1>7, PlacesOfPirServer DEF Load, At, Typed
  <2>3. CASE Abort("pirServer")
    BY <1>3, <2>2, <2>3
  <2>4. CASE ~Abort("pirServer")
    <3>1. /\ files["server.edb"] # None /\ files["server.edb"].n = NQueries
          /\ UNCHANGED <<record, files, status, talk>> /\ Advance("pirServer")
          /\ loaded' = [f \in Files |-> IF f \in Inputs["pirServer"] THEN files[f] ELSE loaded[f]]
      BY <1>7, <2>4 DEF Load, Inputs
    <3>2. loaded'["server.edb"] = files["server.edb"]
      BY <3>1, Names DEF Inputs
    <3>3. pc'["pirServer"] = 3 /\ told'["pirServer"] = said /\ trial' = trial
      BY <1>2, <2>2, <3>1 DEF talk, record
    <3>4. files["server.edb"] \in Contents /\ files["server.edb"].of = trial
      BY <3>1, Names DEF Typed, FilesTyped, OfThisTrial
    <3>5. files["server.edb"].of = trial
      BY <3>4
    <3>6. said = 0
      BY <2>2 DEF PirServerAt
    <3> QED
      BY <2>1, <2>2, <3>1, <3>2, <3>3, <3>5, <3>6 DEF PirServerAt, Took
  <2> QED
    BY <2>3, <2>4
<1>8. CASE Tell("pirServer")
  <2>1. here \in {3, 5} /\ status["pirServer"] = "up"
    BY <1>8, PlacesOfPirServer DEF Tell, At, Typed
  <2>2. Typed' /\ Own("pirServer")
    BY <1>8, TellOwn
  <2>3. CASE Abort("pirServer")
    BY <1>3, <2>1, <2>3
  <2>4. CASE ~Abort("pirServer")
    <3>1. /\ Advance("pirServer") /\ UNCHANGED <<files, loaded, status>>
          /\ told' = [told EXCEPT !["pirServer"] = @ + 1]
      BY <1>8, <2>4 DEF Tell
    <3>2. told'["pirServer"] = said + 1
      BY <3>1 DEF Typed, ProcessesTyped
    <3> QED
      BY <1>1, <1>2, <2>1, <2>2, <3>1, <3>2
  <2> QED
    BY <2>3, <2>4
<1>9. CASE Hear("pirServer")
  <2>1. here = 4 /\ status["pirServer"] = "up"
    BY <1>9, PlacesOfPirServer DEF Hear, At, Typed
  <2>2. Typed' /\ Own("pirServer")
    BY <1>9, HearOwn
  <2>3. told["pirClient"] > heard["pirServer"] /\ NAsked = NQueries
    BY <1>9 DEF Hear, Arrived
  <2>4. pc["pirClient"] >= 6
    BY <2>3 DEF PirClientAt, Typed, ProcessesTyped
  <2>5. Advance("pirServer") /\ UNCHANGED <<files, loaded, status, told>>
    BY <1>9 DEF Hear
  <2> QED
    BY <1>1, <1>2, <2>1, <2>2, <2>3, <2>4, <2>5
<1>10. CASE HearEnd("pirServer")
  <2>1. here = 4 /\ status["pirServer"] = "up"
    BY <1>10, PlacesOfPirServer DEF HearEnd, At, Typed
  <2>2. Typed' /\ Own("pirServer")
    BY <1>10, HearEndOwn
  <2>3. Ended("pirClient")
    BY <1>10 DEF HearEnd, Peer
  <2>4. CASE Abort("pirServer")
    BY <1>3, <2>1, <2>4
  <2>5. CASE ~Abort("pirServer")
    <3>1. Advance("pirServer") /\ UNCHANGED <<files, loaded, status, talk>>
      BY <1>10, <2>5 DEF HearEnd
    <3> QED
      BY <1>1, <1>2, <2>1, <2>2, <2>3, <3>1 DEF talk
  <2> QED
    BY <2>4, <2>5
<1>11. CASE PrintMetrics("pirServer")
  <2>1. here = 6 /\ status["pirServer"] = "up"
    BY <1>11, PlacesOfPirServer DEF PrintMetrics, At, Typed
  <2>2. Typed' /\ Own("pirServer")
    BY <1>11, PrintOwn
  <2>3. Advance("pirServer") /\ UNCHANGED <<files, loaded, status, talk>>
    BY <1>11 DEF PrintMetrics
  <2> QED
    BY <1>1, <1>2, <2>1, <2>2, <2>3 DEF talk
<1>12. CASE Exit("pirServer")
  <2>1. Typed' /\ Own("pirServer")
    BY <1>12, ExitOwn
  <2>2. UNCHANGED <<files, loaded, pc, talk>> /\ here >= 7
    BY <1>12, Lengths DEF Exit
  <2> QED
    BY <1>1, <2>1, <2>2 DEF talk
<1> QED
  BY <1>4, <1>5, <1>6, <1>7, <1>8, <1>9, <1>10, <1>11, <1>12 DEF PirServer, Step

\* The PIR client's own steps keep what its place tells.
LEMMA PirClientSteps ==
  ASSUME Typed, OfThisTrial, PirServerAt, PirClientAt, PirClient \/ Kill("pirClient")
  PROVE  Typed' /\ Own("pirClient") /\ PirClientAt'
PROOF
<1> "pirServer" \in Processes /\ "pirClient" \in Processes
  BY Names
<1> NQueries \in Nat \ {0}
  BY TrialAssumption
<1> DEFINE here == pc["pirClient"]
           said == told["pirClient"]
           got  == heard["pirClient"]
<1> /\ here \in Nat \ {0} /\ said \in Nat /\ got \in Nat
    /\ told["pirServer"] \in Nat /\ pc["pirServer"] \in Nat
  BY DEF Typed, ProcessesTyped
\* Where the place stays.
<1>1. ASSUME Typed', Own("pirClient"), UNCHANGED <<files, loaded, heard>>, output'.verdict = output.verdict,
             pc'["pirClient"] = here, told'["pirClient"] <= said
      PROVE  PirClientAt'
  <2>1. UNCHANGED <<single, expected>> /\ NAsked' = NAsked
    BY <1>1 DEF Own, record, NAsked
  <2>2. /\ told'["pirServer"] = told["pirServer"] /\ told'["pirClient"] \in Nat
        /\ status'["pirServer"] = status["pirServer"]
    BY <1>1 DEF Own, Typed, ProcessesTyped
  <2> QED
    BY <1>1, <2>1, <2>2 DEF PirClientAt, Took
\* Where it goes on: the conditions on the way.
<1>2. ASSUME Typed', Own("pirClient"), UNCHANGED files, here < 8,
             output'.verdict = output.verdict,
             here # 3 => UNCHANGED loaded,
             here = 3 => Took("client.edb")' /\ Took("queries.db")',
             pc'["pirClient"] = here + 1,
             told'["pirClient"] = said \/ here = 5,
             heard'["pirClient"] = got \/ (here \in {4, 6} /\ heard'["pirClient"] = got + 1),
             here = 4 => heard'["pirClient"] = got + 1 /\ told["pirServer"] >= 1,
             here = 5 => single \/ NAsked = NQueries,
             here = 6 => \/ heard'["pirClient"] = got + 1 /\ NAsked \in {0, NQueries}
                         \/ status["pirServer"] = "aborted"
      PROVE  PirClientAt'
  <2>1. UNCHANGED <<single, expected>>
    BY <1>2 DEF Own, record
  <2>2. /\ told'["pirServer"] = told["pirServer"] /\ status'["pirServer"] = status["pirServer"]
        /\ told'["pirClient"] \in Nat /\ heard'["pirClient"] \in Nat
    BY <1>2 DEF Own, Typed, ProcessesTyped
  <2>3. output'.verdict = "none"
    BY <1>2 DEF PirClientAt
  <2>4. here # 3 => NAsked' = NAsked
    BY <1>2 DEF NAsked
  <2>5. CASE here <= 3
    BY <1>2, <2>1, <2>2, <2>3, <2>5 DEF PirClientAt
  <2>6. CASE here >= 4
    BY <1>2, <2>1, <2>2, <2>3, <2>4, <2>6 DEF PirClientAt, Took
  <2> QED
    BY <2>5, <2>6
<1>3. ASSUME Advance("pirClient"), status["pirClient"] = "up", status' = status
      PROVE  pc'["pirClient"] = here + 1
  BY <1>3, AdvanceOwn DEF Typed
<1>4. ASSUME Abort("pirClient"), status["pirClient"] = "up"
      PROVE  Typed' /\ Own("pirClient") /\ PirClientAt'
  BY <1>1, <1>4, AbortOwn DEF Abort
<1>5. CASE Kill("pirClient")
  BY <1>4, <1>5 DEF Kill
<1>6. CASE Listen \/ Accept
  <2>1. here \in {1, 2} /\ status["pirClient"] = "up"
    BY <1>6, PlacesOfPirClient DEF Listen, Accept, At, Typed
  <2>2. /\ Advance("pirClient")
        /\ UNCHANGED <<driver, record, files, loaded, status, talk, output>>
    BY <1>6 DEF Listen, Accept
  <2>3. Typed' /\ Own("pirClient")
    BY <2>1, <2>2, PassOwn
  <2> QED
    BY <1>2, <1>3, <2>1, <2>2, <2>3 DEF talk
<1>7. CASE Load("pirClient")
  <2>1. Typed' /\ Own("pirClient")
    BY <1>7, LoadOwn
  <2>2. here = 3 /\ status["pirClient"] = "up"
    BY <1>7, PlacesOfPirClient DEF Load, At, Typed
  <2>3. CASE Abort("pirClient")
    BY <1>4, <2>2, <2>3
  <2>4. CASE ~Abort("pirClient")
    <3>1. /\ files["client.edb"] # None /\ files["queries.db"] # None
          /\ UNCHANGED <<files, status, talk, output>> /\ Advance("pirClient")
          /\ loaded' = [f \in Files |-> IF f \in Inputs["pirClient"] THEN files[f] ELSE loaded[f]]
      BY <1>7, <2>4 DEF Load, Inputs
    <3>2. loaded'["client.edb"] = files["client.edb"] /\ loaded'["queries.db"] = files["queries.db"]
      BY <3>1, Names DEF Inputs
    <3>3. Took("client.edb")' /\ Took("queries.db")'
      BY <3>1, <3>2 DEF Took
    <3> QED
      BY <1>2, <1>3, <2>1, <2>2, <3>1, <3>3 DEF talk
  <2> QED
    BY <2>3, <2>4
<1>8. CASE Tell("pirClient")
  <2>1. here = 5 /\ status["pirClient"] = "up"
    BY <1>8, PlacesOfPirClient DEF Tell, At, Typed
  <2>2. Typed' /\ Own("pirClient")
    BY <1>8, TellOwn
  <2>3. CASE Abort("pirClient")
    BY <1>4, <2>1, <2>3
  <2>4. CASE ~Abort("pirClient")
    <3>1. /\ Advance("pirClient") /\ UNCHANGED <<files, loaded, status, heard, output>>
          /\ single \/ NAsked = NQueries
      BY <1>8, <2>4 DEF Tell
    <3> QED
      BY <1>2, <1>3, <2>1, <2>2, <3>1
  <2> QED
    BY <2>3, <2>4
<1>9. CASE Hear("pirClient")
  <2>1. here \in {4, 6} /\ status["pirClient"] = "up"
    BY <1>9, PlacesOfPirClient DEF Hear, At, Typed
  <2>2. Typed' /\ Own("pirClient")
    BY <1>9, HearOwn
  <2>3. told["pirServer"] > got \/ (got = 1 /\ NAsked = 0)
    BY <1>9 DEF Hear, Arrived
  <2>7. CASE Abort("pirClient")
    BY <1>4, <2>1, <2>7
  <2>4. ASSUME ~Abort("pirClient")
        PROVE  /\ Advance("pirClient") /\ UNCHANGED <<files, loaded, status, told, output>>
               /\ heard'["pirClient"] = got + 1
    BY <1>9, <2>4 DEF Hear, Typed, ProcessesTyped
  <2>5. here = 4 => told["pirServer"] >= 1
    BY <2>3 DEF PirClientAt
  <2>6. here = 6 => NAsked \in {0, NQueries}
    <3>1. SUFFICES ASSUME here = 6, NAsked # 0 PROVE NAsked = NQueries
      OBVIOUS
    <3>2. told["pirServer"] >= 2
      BY <2>3, <3>1 DEF PirClientAt
    <3>3. pc["pirServer"] >= 5
      BY <3>2 DEF PirServerAt
    <3> QED
      BY <2>1, <3>3 DEF PirServerAt, Ended
  <2> QED
    BY <1>2, <1>3, <2>1, <2>2, <2>4, <2>5, <2>6, <2>7
<1>10. CASE HearEnd("pirClient")
  <2>1. here \in {4, 6} /\ status["pirClient"] = "up"
    BY <1>10, PlacesOfPirClient DEF HearEnd, At, Typed
  <2>2. Typed' /\ Own("pirClient")
    BY <1>10, HearEndOwn
  <2>3. CASE Abort("pirClient")
    BY <1>4, <2>1, <2>3
  <2>4. CASE ~Abort("pirClient")
    <3>1. /\ Advance("pirClient") /\ UNCHANGED <<files, loaded, status, talk, output>>
          /\ got = 1 /\ ~(told["pirServer"] > got) /\ Ended("pirServer")
      BY <1>10, <2>4 DEF HearEnd, Arrived, Peer
    <3>2. here = 6 /\ status["pirServer"] = "aborted"
      BY <2>1, <3>1 DEF PirClientAt, PirServerAt, Ended
    <3> QED
      BY <1>2, <1>3, <2>1, <2>2, <3>1, <3>2 DEF talk
  <2> QED
    BY <2>3, <2>4
<1>11. CASE PrintMetrics("pirClient")
  <2>1. here = 7 /\ status["pirClient"] = "up"
    BY <1>11, PlacesOfPirClient DEF PrintMetrics, At, Typed
  <2>2. Typed' /\ Own("pirClient")
    BY <1>11, PrintOwn
  <2>3. Advance("pirClient") /\ UNCHANGED <<files, loaded, status, talk>>
    BY <1>11 DEF PrintMetrics
  <2>4. output'.verdict = output.verdict
    BY <1>11 DEF PrintMetrics, Typed, OutputTyped, Outputs
  <2> QED
    BY <1>2, <1>3, <2>1, <2>2, <2>3, <2>4 DEF talk
<1>12. CASE Report
  <2>1. here = 8 /\ status["pirClient"] = "up"
    BY <1>12, PlacesOfPirClient DEF Report, At, Typed
  <2>2. Typed' /\ Own("pirClient") /\ pc'["pirClient"] = 9
    BY <1>12, <2>1, ReportOwn
  <2>3. UNCHANGED <<files, loaded, talk, record>>
    BY <1>12 DEF Report
  <2>4. PICK found \in Found: output'.verdict = IF found = expected THEN "SUCCESS" ELSE "FAILURE"
    BY <1>12 DEF Report, Typed, OutputTyped, Outputs
  <2>5. output'.verdict = "SUCCESS" =>
          expected = 0 \/ (NAsked = NQueries /\ \A f \in Datasets: loaded[f].n = NQueries)
    BY <2>4 DEF Found, Matching, Typed, DriverTyped
  <2>6. NAsked' = NAsked
    BY <2>3 DEF NAsked
  <2>7. status'["pirServer"] = status["pirServer"]
    BY <1>12 DEF Report
  <2> QED
    BY <2>1, <2>2, <2>3, <2>5, <2>6, <2>7 DEF PirClientAt, Took, talk, record
<1>13. CASE Exit("pirClient")
  <2>1. Typed' /\ Own("pirClient")
    BY <1>13, ExitOwn
  <2>2. UNCHANGED <<files, loaded, pc, talk, output>>
    BY <1>13 DEF Exit
  <2> QED
    BY <1>1, <2>1, <2>2 DEF talk
<1> QED
  BY <1>5, <1>6, <1>7, <1>8, <1>9, <1>10, <1>11, <1>12, <1>13 DEF PirClient, Step

-----------------------------------------------------------------------------
\* A step of one process keeps the invariant.
LEMMA LogsKept ==
  ASSUME Logs, UNCHANGED <<driver, record>>
  PROVE  Logs'
PROOF
  BY DEF Logs, Successes, record

\* A step that is a process's own, and keeps what its place tells, keeps the invariant.
LEMMA OwnKeeps ==
  ASSUME Inv, Live, NEW p \in Processes, Own(p), Typed',
         p = "datagen" => DatagenAt',
         p = "oprfServer" => OprfServerAt',
         p = "oprfClient" => OprfClientAt',
         p = "pirServer" => PirServerAt',
         p = "pirClient" => PirClientAt'
  PROVE  Inv'
PROOF
<1>1. Phased' /\ Live'
  BY PhasedKept DEF Inv
<1>2. OfThisTrial' /\ DatagenAt'
  BY OfThisTrialKept, DatagenKept DEF Inv, Scripted
<1>3. OprfServerAt' /\ OprfClientAt'
  BY OprfServerKept, OprfClientKept DEF Inv, Scripted
<1>4. PirServerAt' /\ PirClientAt'
  BY PirServerKept, PirClientKept DEF Inv, Scripted
<1>5. Logs'
  BY LogsKept DEF Own, Inv
<1> QED
  BY <1>1, <1>2, <1>3, <1>4, <1>5 DEF Inv, Scripted

\* Where a process is up, the driver waits for it.
LEMMA UpIsLive ==
  ASSUME Phased, NEW p \in Processes, status[p] = "up"
  PROVE  Live
PROOF
  BY DEF Phased, Phase, Live

\* The steps of the processes keep the invariant.
LEMMA ProcessSteps ==
  ASSUME Inv, \/ Datagen \/ OprfServer \/ OprfClient \/ PirServer \/ PirClient
              \/ \E p \in Processes: Kill(p)
  PROVE  Inv'
PROOF
<1>1. CASE Datagen \/ Kill("datagen")
  <2>1. Live
    BY <1>1, UpIsLive, Names DEF Inv, Datagen, Writing, Create, Close, Exit, Kill, At
  <2>2. Typed' /\ Own("datagen") /\ DatagenAt'
    BY <1>1, <2>1, DatagenSteps DEF Inv, Scripted
  <2> QED
    BY <2>1, <2>2, OwnKeeps, Names
<1>2. CASE OprfServer \/ Kill("oprfServer")
  <2>1. Live
    BY <1>2, UpIsLive, Names DEF Inv, OprfServer, Step, Load, Tell, Hear, HearEnd, PrintMetrics,
                                 Writing, Create, Close, Exit, Kill, At
  <2>2. Typed' /\ Own("oprfServer") /\ OprfServerAt'
    BY <1>2, <2>1, OprfServerSteps DEF Inv, Scripted
  <2> QED
    BY <2>1, <2>2, OwnKeeps, Names
<1>3. CASE OprfClient \/ Kill("oprfClient")
  <2>1. Live
    BY <1>3, UpIsLive, Names DEF Inv, OprfClient, Step, Load, Tell, Hear, HearEnd, PrintMetrics,
                                 Writing, Create, Close, Exit, Kill, At, InsertAll
  <2>2. Typed' /\ Own("oprfClient") /\ OprfClientAt'
    BY <1>3, <2>1, OprfClientSteps DEF Inv, Scripted
  <2> QED
    BY <2>1, <2>2, OwnKeeps, Names
<1>4. CASE PirServer \/ Kill("pirServer")
  <2>1. Live
    BY <1>4, UpIsLive, Names DEF Inv, PirServer, Step, Load, Tell, Hear, HearEnd, PrintMetrics,
                                 Exit, Kill, At, Dial, Refused
  <2>2. Typed' /\ Own("pirServer") /\ PirServerAt'
    BY <1>4, <2>1, PirServerSteps DEF Inv, Scripted
  <2> QED
    BY <2>1, <2>2, OwnKeeps, Names
<1>5. CASE PirClient \/ Kill("pirClient")
  <2>1. Live
    BY <1>5, UpIsLive, Names DEF Inv, PirClient, Step, Load, Tell, Hear, HearEnd, PrintMetrics,
                                 Exit, Kill, At, Listen, Accept, Report
  <2>2. Typed' /\ Own("pirClient") /\ PirClientAt'
    BY <1>5, <2>1, PirClientSteps DEF Inv, Scripted
  <2> QED
    BY <2>1, <2>2, OwnKeeps, Names
<1> QED
  BY <1>1, <1>2, <1>3, <1>4, <1>5, Names

\* The OPRF processes meet: the places of both go on, and nothing else.
LEMMA MeetKeeps ==
  ASSUME Inv, Meet
  PROVE  Inv'
PROOF
<1>1. /\ pc' = [p \in Processes |-> IF p \in Oprf THEN pc[p] + 1 ELSE pc[p]]
      /\ UNCHANGED <<driver, record, files, loaded, status, talk, output>>
  BY DEF Meet
<1>2. /\ At("oprfServer", "meet") /\ At("oprfClient", "meet")
      /\ status["oprfServer"] = "up"
  BY DEF Meet, Oprf, At
<1>3. pc["oprfServer"] \in 2 .. 6 /\ pc["oprfClient"] \in 2 .. 7
  BY <1>2, PlacesOfOprfServer, PlacesOfOprfClient DEF Inv, Typed
<1>4. /\ pc'["oprfServer"] = pc["oprfServer"] + 1 /\ pc'["oprfClient"] = pc["oprfClient"] + 1
      /\ pc'["datagen"] = pc["datagen"]
      /\ pc'["pirServer"] = pc["pirServer"] /\ pc'["pirClient"] = pc["pirClient"]
  BY <1>1, Names DEF Oprf
<1>5. driver = "oprf" /\ Live
  BY <1>2, Names DEF Inv, Phased, Phase, Oprf, Live
<1>6. Typed'
  <2>1. pc' \in [Processes -> Nat \ {0}]
    BY <1>1 DEF Inv, Typed, ProcessesTyped
  <2> QED
    BY <1>1, <2>1 DEF Inv, Typed, DriverTyped, FilesTyped, ProcessesTyped, OutputTyped, record, talk
<1>7. Phased'
  BY <1>1, <1>4, <1>5 DEF Inv, Phased, Oprf, Pir, Ended, Live, Phase
<1>8. Scripted'
  <2>1. /\ NAsked' = NAsked
        /\ Entries("client.edb")' = Entries("client.edb") /\ Entries("queries.db")' = Entries("queries.db")
    BY <1>1 DEF NAsked, Entries, record
  <2>2. OfThisTrial' /\ DatagenAt' /\ OprfServerAt'
    BY <1>1, <1>3, <1>4, <1>5 DEF Inv, Scripted, OfThisTrial, DatagenAt, OprfServerAt, Took, Holds, record
  <2>3. OprfClientAt'
    BY <1>1, <1>3, <1>4, <1>5, <2>1 DEF Inv, Scripted, OprfClientAt, Took, Holds, record
  <2>4. PirServerAt' /\ PirClientAt'
    BY <1>1, <1>4, <1>5, <2>1
    DEF Inv, Scripted, PirServerAt, PirClientAt, Took, Ended, record, talk
  <2> QED
    BY <2>2, <2>3, <2>4 DEF Scripted
<1>9. Logs'
  BY <1>1, LogsKept DEF Inv
<1> QED
  BY <1>6, <1>7, <1>8, <1>9 DEF Inv

-----------------------------------------------------------------------------
\* The steps of the driver.
LEMMA InitInv ==
  ASSUME Init
  PROVE  Inv
PROOF
<1>1. Trials \in Nat \ {0}
  BY TrialAssumption
<1>2. Typed
  BY <1>1 DEF Init, Typed, DriverTyped, FilesTyped, ProcessesTyped, OutputTyped, Stages,
              Silence, Outputs, Verdicts
<1>3. Phased /\ Scripted
  BY DEF Init, Phased, Scripted, Live
<1>4. Logs
  BY DEF Init, Logs, Successes
<1> QED
  BY <1>2, <1>3, <1>4 DEF Inv

\* A new trial starts with an empty directory.
LEMMA StartDatagenKeeps ==
  ASSUME Inv, StartDatagen
  PROVE  Inv'
PROOF
<1>1. Typed'
  BY DEF StartDatagen, Inv, Typed, DriverTyped, FilesTyped, ProcessesTyped, OutputTyped, Stages,
         Silence, Outputs, Verdicts, Cleaned, record
<1>2. Phased'
  BY Names DEF StartDatagen, Phased, Phase, Oprf, Pir, Live
<1>3. Scripted'
  BY Names DEF StartDatagen, Scripted, OfThisTrial, DatagenAt, OprfServerAt, OprfClientAt,
               PirServerAt, PirClientAt, Cleaned, Silence
<1>4. Logs'
  BY DEF StartDatagen, Inv, Logs, Successes, record
<1> QED
  BY <1>1, <1>2, <1>3, <1>4 DEF Inv

\* The next two processes start where the last ones left off.
LEMMA NextPhaseKeeps ==
  ASSUME Inv, StartOprf \/ StartPir
  PROVE  Inv'
PROOF
<1>1. UNCHANGED <<record, files, loaded, pc, talk, output>>
  BY DEF StartOprf, StartPir
<1>2. \A p \in Processes: status'[p] = status[p] \/ status'[p] = "up"
  BY DEF StartOprf, StartPir, Inv, Typed, ProcessesTyped
<1>3. Live /\ Live' /\ driver' # "raised" /\ driver # "raised" /\ driver' # "done" /\ driver # "done"
  BY DEF StartOprf, StartPir, Live
<1>4. Typed'
  BY <1>1 DEF StartOprf, StartPir, Inv, Typed, DriverTyped, FilesTyped, ProcessesTyped, OutputTyped,
              Stages, record, talk
<1>5. Phased'
  <2>1. CASE StartOprf
    BY <2>1, Names DEF StartOprf, Inv, Phased, Phase, Live, Ended, Oprf, Pir, Typed, ProcessesTyped
  <2>2. CASE StartPir
    BY <2>2, Names DEF StartPir, Inv, Phased, Phase, Live, Ended, Oprf, Pir, Typed, ProcessesTyped
  <2> QED
    BY <2>1, <2>2
<1>6. Scripted'
  <2>1. /\ NAsked' = NAsked
        /\ Entries("client.edb")' = Entries("client.edb") /\ Entries("queries.db")' = Entries("queries.db")
    BY <1>1 DEF NAsked, Entries, record
  <2>2. OfThisTrial' /\ DatagenAt' /\ OprfServerAt'
    BY <1>1, <1>2, <1>3, Names DEF Inv, Scripted, OfThisTrial, DatagenAt, OprfServerAt, Took, Holds, record
  <2>3. OprfClientAt'
    BY <1>1, <1>2, <1>3, <2>1, Names DEF Inv, Scripted, OprfClientAt, Took, Holds, record
  <2>4. PirServerAt'
    <3>1. /\ pc["pirServer"] = 1 /\ told["pirServer"] \in Nat
          /\ status'["pirServer"] = status["pirServer"] \/ status'["pirServer"] = "up"
      BY <1>2, <1>3, Names DEF StartOprf, StartPir, Inv, Phased, Pir, Typed, ProcessesTyped
    <3> QED
      BY <1>1, <1>3, <3>1 DEF Inv, Scripted, PirServerAt, talk
  <2>5. PirClientAt'
    <3>1. pc["pirClient"] = 1
      BY <1>3, Names DEF StartOprf, StartPir, Inv, Phased, Pir, Typed, ProcessesTyped
    <3> QED
      BY <1>1, <1>3, <2>1, <3>1 DEF Inv, Scripted, PirClientAt, Took, record, talk
  <2> QED
    BY <2>2, <2>3, <2>4, <2>5 DEF Scripted
<1>7. Logs'
  BY <1>1, <1>3 DEF Inv, Logs, Successes, record
<1> QED
  BY <1>4, <1>5, <1>6, <1>7 DEF Inv

\* A further trial in the log: the first success after a trial stays it, and
\* a new success is the first after those that had none.
LEMMA ParseOutputKeeps ==
  ASSUME Inv, ParseOutput
  PROVE  Inv'
PROOF
<1> DEFINE t0 == Len(log) + 1
<1>1. /\ driver = "pir" /\ log' = Append(log, output)
      /\ UNCHANGED <<single, expected, files, loaded, status, pc, talk, output>>
      /\ \A p \in Pir: Ended(p)
  BY DEF ParseOutput, Logged
<1>2. /\ output \in Outputs /\ log \in Seq(Outputs) /\ Len(log) = trial - 1 /\ trial \in 1 .. Trials
  BY <1>1 DEF Inv, Logs, Typed, OutputTyped, DriverTyped
<1>3. Trials \in Nat \ {0}
  BY TrialAssumption
<1>4. Typed' /\ ~Live' /\ driver' # "oprf"
  BY <1>1, <1>2, <1>3 DEF ParseOutput, Inv, Typed, DriverTyped, FilesTyped, ProcessesTyped, OutputTyped,
                    Stages, talk, Live
<1>5. Phased' /\ Scripted'
  <2>1. \A p \in Processes: status'[p] # "up"
    BY <1>1 DEF Inv, Phased, Phase, Ended
  <2> QED
    BY <1>4, <2>1 DEF Phased, Scripted, Live
<1>6. Logs'
  <2>1. SUFFICES ASSUME driver' # "raised"
                 PROVE  Logs'
    BY DEF Logs
  <2>2. /\ output.verdict # "FAILURE" /\ t0 = trial
        /\ results' = [p \in Processes |-> results[p] \cup {{trial}: q \in {p} \cap output.printed}]
        /\ \/ trial = Trials /\ driver' = "done" /\ trial' = trial
           \/ driver' = "clean" /\ trial' = trial + 1
    BY <1>2, <2>1 DEF ParseOutput
  <2>3. /\ log' \in Seq(Outputs) /\ Len(log') = t0 /\ DOMAIN log = 1 .. trial - 1
        /\ DOMAIN log' = 1 .. trial /\ log'[trial] = output
        /\ \A t \in 1 .. trial - 1: log'[t] = log[t]
    BY <1>1, <1>2, <2>2
  <2>4. Len(log') = IF driver' = "done" THEN Trials ELSE trial' - 1
    BY <1>2, <2>2, <2>3
  <2>5. \A t \in DOMAIN log: log[t].verdict # "FAILURE"
    BY <1>1 DEF Inv, Logs
  <2>6. \A t \in DOMAIN log': log'[t].verdict # "FAILURE"
    BY <1>2, <2>2, <2>3, <2>5
  <2>7. results = [p \in Processes |-> {{t}: t \in {u \in DOMAIN log: p \in log[u].printed}}]
    BY <1>1 DEF Inv, Logs
  <2>8. results' = [p \in Processes |-> {{t}: t \in {u \in DOMAIN log': p \in log'[u].printed}}]
    <3>1. ASSUME NEW p \in Processes
          PROVE  {{t}: t \in {u \in DOMAIN log: p \in log[u].printed}} \cup {{trial}: q \in {p} \cap output.printed}
                   = {{t}: t \in {u \in DOMAIN log': p \in log'[u].printed}}
      BY <1>2, <2>3
    <3> QED
      BY <2>2, <2>7, <3>1
  <2>9. /\ Successes \subseteq 1 .. trial - 1
        /\ Successes' = Successes \cup (IF output.verdict = "SUCCESS" THEN {trial} ELSE {})
    BY <1>2, <2>3 DEF Successes
  <2>10. ASSUME NEW t \in DOMAIN log', NEW s \in Successes', t <= s
         PROVE  \E r \in Successes': t <= r /\ \A q \in Successes': q < r => q < t
    <3>1. CASE \E z \in Successes: t <= z
      <4>1. PICK z \in Successes: t <= z
        BY <3>1
      <4>2. t \in DOMAIN log
        BY <1>2, <2>3, <2>9, <4>1
      <4>3. PICK r \in Successes: t <= r /\ \A q \in Successes: q < r => q < t
        BY <1>1, <4>1, <4>2 DEF Inv, Logs
      <4> QED
        BY <1>2, <2>9, <4>3
    <3>2. CASE \A z \in Successes: ~(t <= z)
      <4>1. s = trial /\ trial \in Successes'
        BY <2>9, <2>10, <3>2
      <4>2. \A q \in Successes': q < trial => q < t
        BY <1>2, <2>3, <2>9, <3>2
      <4> QED
        BY <2>10, <4>1, <4>2
    <3> QED
      BY <3>1, <3>2
  <2> QED
    BY <2>3, <2>4, <2>6, <2>8, <2>10 DEF Logs
<1> QED
  BY <1>4, <1>5, <1>6 DEF Inv

-----------------------------------------------------------------------------
\* The invariant holds throughout.
THEOREM TrialInvariant == Spec => []Inv
PROOF
<1>1. Init => Inv
  BY InitInv
<1>2. Inv /\ [Next]_vars => Inv'
  <2>1. CASE UNCHANGED vars
    BY <2>1 DEF vars, record, talk, Inv, Typed, DriverTyped, FilesTyped, ProcessesTyped, OutputTyped,
                Phased, Live, Ended, Scripted, OfThisTrial, DatagenAt, OprfServerAt, OprfClientAt,
                PirServerAt, PirClientAt, Took, Holds, Entries, NAsked, Logs, Successes
  <2>2. ASSUME Inv, Next PROVE Inv' \/ UNCHANGED vars
    <3>1. CASE Driver
      BY <2>2, <3>1, StartDatagenKeeps, NextPhaseKeeps, ParseOutputKeeps DEF Driver
    <3>2. CASE Meet
      BY <2>2, <3>2, MeetKeeps
    <3>3. CASE \/ Datagen \/ OprfServer \/ OprfClient \/ PirServer \/ PirClient
               \/ \E p \in Processes: Kill(p)
      BY <2>2, <3>3, ProcessSteps
    <3>4. CASE Terminated
      BY <3>4 DEF Terminated
    <3> QED
      BY <2>2, <3>1, <3>2, <3>3, <3>4 DEF Next
  <2> QED
    BY <2>1, <2>2
<1> QED
  BY <1>1, <1>2, PTL DEF Spec

\* The chain from a verdict back to the datasets.
LEMMA SuccessFollows ==
  ASSUME Inv
  PROVE  SuccessIsReal
PROOF
<1> DEFINE Short(f) == loaded[f].n < NQueries
           Lost(f)  == Short(f) /\ loaded[f].lost
<1>1. SUFFICES ASSUME driver = "pir", output.verdict = "SUCCESS"
               PROVE
       /\ \A f \in Files: loaded[f].of = trial
       /\ ~Short("server.edb")
       /\ Short("server.db") => Lost("server.db")
       /\ Short("client.db") => Lost("client.db") \/ status["datagen"] = "aborted"
       /\ Short("client.edb") => Lost("client.edb") \/ (single /\ Short("client.db"))
       /\ Short("queries.db") => /\ single /\ (NAsked = 0 \/ status["pirServer"] = "aborted")
                                 /\ \/ Lost("queries.db") \/ Short("client.db")
                                    \/ status["oprfClient"] = "aborted"
       /\ expected > 0 => \A f \in Files \ {"client.edb"}: ~Short(f)
       /\ heard["pirClient"] = 2 \/ status["pirServer"] = "aborted"
  BY DEF SuccessIsReal
<1> NQueries \in Nat \ {0}
  BY TrialAssumption
<1>2. /\ OfThisTrial /\ DatagenAt /\ OprfServerAt /\ OprfClientAt /\ PirServerAt /\ PirClientAt
  BY <1>1 DEF Inv, Scripted, Live
<1>3. \A p \in Processes: pc[p] \in Nat /\ told[p] \in Nat /\ heard[p] \in Nat
  BY DEF Inv, Typed, ProcessesTyped
\* The client has heard the server, which has read the hashtable; ...
<1>4. /\ pc["pirClient"] >= 9 /\ told["pirServer"] >= 1
      /\ single \/ NAsked = NQueries
      /\ \/ heard["pirClient"] = 2 /\ NAsked \in {0, NQueries}
         \/ status["pirServer"] = "aborted"
  BY <1>1, <1>2, <1>3, Names DEF PirClientAt
<1>5. Took("server.edb") /\ loaded["server.edb"].n = NQueries
  BY <1>2, <1>3, <1>4, Names DEF PirServerAt
<1>6. Took("client.edb") /\ Took("queries.db")
  BY <1>2, <1>3, <1>4, Names DEF PirClientAt
\* ... the OPRF processes came to write what they read; ...
<1>7. Took("server.db")
  BY <1>2, <1>3, <1>5, Names DEF OprfServerAt, Took
<1>8. Took("client.db") /\ pc["oprfClient"] >= 11
  BY <1>2, <1>3, <1>6, Names DEF OprfClientAt, Took
<1>9. Holds("client.edb", Entries("client.edb"))
  BY <1>2, <1>3, <1>8, Names DEF OprfClientAt
\* ... and so did datagen, of the first file at least.
<1>10. Holds("server.db", NQueries)
  BY <1>2, <1>3, <1>8, Names DEF DatagenAt, Took
<1>11. \A f \in Files: Took(f)
  BY <1>5, <1>6, <1>7, <1>8, Names
<1>12. \A f \in Files: loaded[f].of = trial /\ loaded[f].n \in 0 .. NQueries
  <2>1. ASSUME NEW f \in Files PROVE loaded[f].of = trial /\ loaded[f].n \in 0 .. NQueries
    <3>1. loaded[f] = files[f] /\ files[f] # None
      BY <1>11 DEF Took
    <3>2. files[f] \in Contents /\ files[f].of = trial
      BY <1>2, <3>1 DEF Inv, Typed, FilesTyped, OfThisTrial
    <3> QED
      BY <3>1, <3>2 DEF Contents
  <2> QED
    BY <2>1
<1>13. Short("server.db") => Lost("server.db")
  BY <1>7, <1>10 DEF Holds, Took
<1>14. Short("client.db") => Lost("client.db") \/ status["datagen"] = "aborted"
  <2>1. SUFFICES ASSUME Short("client.db"), status["datagen"] # "aborted" PROVE Lost("client.db")
    OBVIOUS
  <2>2. status["datagen"] = "exited"
    BY <1>1, <2>1 DEF Inv, Phased, Ended
  <2>3. Holds("client.db", NQueries)
    BY <1>2, <2>2 DEF DatagenAt
  <2> QED
    BY <1>8, <2>1, <2>3 DEF Holds, Took
<1>15. \A f \in {"client.edb", "queries.db"}:
          Entries(f) = IF single THEN loaded["client.db"].n ELSE NQueries
  BY DEF Entries, Datasets
<1>16. Short("client.edb") => Lost("client.edb") \/ (single /\ Short("client.db"))
  <2>1. loaded["client.edb"].n = Entries("client.edb") \/ loaded["client.edb"].lost
    BY <1>6, <1>9 DEF Holds, Took
  <2> QED
    BY <1>15, <2>1
<1>17. NAsked = loaded["queries.db"].n /\ NAsked \in 0 .. NQueries
  BY <1>12, Names DEF NAsked
<1>18. Short("queries.db") => /\ single /\ (NAsked = 0 \/ status["pirServer"] = "aborted")
                              /\ \/ Lost("queries.db") \/ Short("client.db")
                                 \/ status["oprfClient"] = "aborted"
  <2>1. SUFFICES ASSUME Short("queries.db")
                 PROVE  /\ single /\ (NAsked = 0 \/ status["pirServer"] = "aborted")
                        /\ \/ Lost("queries.db") \/ Short("client.db")
                           \/ status["oprfClient"] = "aborted"
    OBVIOUS
  <2>2. single /\ (NAsked = 0 \/ status["pirServer"] = "aborted")
    BY <1>4, <1>17, <2>1
  <2>3. ASSUME status["oprfClient"] # "aborted"
        PROVE  Lost("queries.db") \/ Short("client.db")
    <3>1. status["oprfClient"] = "exited"
      BY <1>1, <2>3 DEF Inv, Phased, Oprf, Ended
    <3>2. Holds("queries.db", Entries("queries.db"))
      BY <1>2, <3>1 DEF OprfClientAt
    <3>3. loaded["queries.db"].n = Entries("queries.db") \/ loaded["queries.db"].lost
      BY <1>6, <3>2 DEF Holds, Took
    <3> QED
      BY <1>15, <2>1, <2>2, <3>3
  <2> QED
    BY <2>2, <2>3
<1>19. expected > 0 => \A f \in Files \ {"client.edb"}: ~Short(f)
  <2>1. SUFFICES ASSUME expected > 0, NEW f \in Files \ {"client.edb"} PROVE ~Short(f)
    OBVIOUS
  <2>2. NAsked = NQueries /\ \A g \in Datasets: loaded[g].n = NQueries
    BY <1>1, <1>2, <2>1 DEF PirClientAt
  <2>3. loaded[f].n = NQueries
    BY <1>5, <1>17, <2>2, Names DEF Datasets
  <2> QED
    BY <2>3
<1>20. ~Short("server.edb")
  BY <1>5
<1> QED
  BY <1>4, <1>12, <1>13, <1>14, <1>16, <1>18, <1>19, <1>20

\* For every number of trials, queries, dials, kills and failing writes: a
\* SUCCESS is about files of this trial, and what of them or of the server's
\* answers was missing has one of the causes named (benchmark.py:127-145,
\* utils.h:87-106, client.go:17-24, 67-76).
THEOREM SuccessMeansThisTrial == Spec => []SuccessIsReal
PROOF
  BY TrialInvariant, SuccessFollows, PTL

\* Every trial of the log is in a piece.
LEMMA PiecesCover ==
  ASSUME Logs, driver = "done"
  PROVE  UNION Pieces = DOMAIN log
PROOF
<1>1. log \in Seq(Outputs) /\ DOMAIN log = 1 .. Len(log) /\ Len(log) \in Nat
  BY DEF Logs
<1>2. Successes \subseteq DOMAIN log
  BY DEF Successes
<1>3. ASSUME NEW t \in DOMAIN log
      PROVE  t \in UNION Pieces
  <2>1. CASE \E s \in Successes: t <= s
    <3>1. PICK r \in Successes: t <= r /\ \A q \in Successes: q < r => q < t
      BY <2>1 DEF Logs
    <3>2. t \in {u \in 1 .. r: \A q \in Successes: q < r => q < u}
      BY <1>1, <1>2, <3>1
    <3> QED
      BY <3>1, <3>2 DEF Pieces
  <2>2. CASE \A s \in Successes: ~(t <= s)
    <3>1. t \in {u \in DOMAIN log: \A r \in Successes: r < u}
      BY <1>1, <1>2, <2>2
    <3> QED
      BY <3>1 DEF Pieces
  <2> QED
    BY <2>1, <2>2
<1>4. ASSUME NEW piece \in Pieces
      PROVE  piece \subseteq DOMAIN log
  BY <1>1, <1>2 DEF Pieces
<1> QED
  BY <1>3, <1>4

\* What the logs add up to, of the trials that have a verdict.
LEMMA LogsFollow ==
  ASSUME Inv
  PROVE  LogsAgree
PROOF
<1>1. SUFFICES ASSUME driver = "done", NEW p \in Processes
               PROVE  /\ UNION FromLogs[p] = UNION results[p]
                      /\ FromLogs[p] # results[p] =>
                            \E t \in 1 .. Trials - 1: log[t].verdict = "none" /\ p \in log[t].printed
  BY DEF LogsAgree
<1>2. /\ log \in Seq(Outputs) /\ Len(log) = Trials /\ DOMAIN log = 1 .. Trials /\ Trials \in Nat \ {0}
      /\ \A t \in DOMAIN log: log[t].verdict # "FAILURE"
  BY <1>1, TrialAssumption DEF Inv, Logs
<1> DEFINE Printed == {t \in DOMAIN log: p \in log[t].printed}
           Of(piece) == {t \in piece: p \in log[t].printed}
<1>3. results[p] = {{t}: t \in Printed}
  BY <1>1 DEF Inv, Logs
<1>4. FromLogs[p] = {Of(piece): piece \in Pieces} \ {{}}
  BY DEF FromLogs
<1>5. UNION Pieces = DOMAIN log
  BY <1>1, PiecesCover DEF Inv
<1>6. UNION FromLogs[p] = Printed
  <2>1. UNION FromLogs[p] \subseteq Printed
    BY <1>4, <1>5
  <2>2. ASSUME NEW t \in Printed PROVE t \in UNION FromLogs[p]
    <3>1. PICK piece \in Pieces: t \in piece
      BY <1>5
    <3>2. t \in Of(piece) /\ Of(piece) # {}
      BY <3>1
    <3> QED
      BY <1>4, <3>2
  <2> QED
    BY <2>1, <2>2
<1>7. UNION results[p] = Printed
  BY <1>3
<1>8. ASSUME \A t \in 1 .. Trials - 1: ~(log[t].verdict = "none" /\ p \in log[t].printed)
      PROVE  FromLogs[p] = results[p]
  <2>1. \A t \in 1 .. Trials - 1: t \in Printed => t \in Successes
    <3>1. ASSUME NEW t \in 1 .. Trials - 1, t \in Printed PROVE t \in Successes
      <4>1. t \in DOMAIN log /\ log[t] \in Outputs
        BY <1>2
      <4>2. log[t].verdict \in Verdicts
        BY <4>1 DEF Outputs
      <4> QED
        BY <1>2, <1>8, <3>1, <4>1, <4>2 DEF Verdicts, Successes
    <3> QED
      BY <3>1
  <2>2. Successes \subseteq 1 .. Trials /\ Printed \subseteq 1 .. Trials
    BY <1>2 DEF Successes
  <2>3. ASSUME NEW piece \in Pieces, NEW t \in Of(piece), NEW u \in Of(piece)
        PROVE  t = u
    <3>1. /\ t \in 1 .. Trials /\ u \in 1 .. Trials /\ t \in Printed /\ u \in Printed
      BY <1>2, <1>5
    <3>2. CASE \E s \in Successes: piece = {v \in 1 .. s: \A r \in Successes: r < s => r < v}
      <4>1. PICK s \in Successes: piece = {v \in 1 .. s: \A r \in Successes: r < s => r < v}
        BY <3>2
      <4>2. ASSUME NEW v \in piece, v \in Printed, v \in 1 .. Trials
            PROVE  v = s
        <5>1. v \in 1 .. s /\ s \in 1 .. Trials /\ \A r \in Successes: r < s => r < v
          BY <2>2, <4>1
        <5>2. CASE v < s
          <6>1. v \in Successes
            BY <1>2, <2>1, <4>2, <5>1, <5>2
          <6> QED
            BY <5>1, <5>2, <6>1
        <5> QED
          BY <5>1, <5>2
      <4> QED
        BY <3>1, <4>2
    <3>3. CASE piece = {v \in DOMAIN log: \A r \in Successes: r < v}
      <4>1. t = Trials
        BY <1>2, <2>1, <2>2, <3>1, <3>3
      <4>2. u = Trials
        BY <1>2, <2>1, <2>2, <3>1, <3>3
      <4> QED
        BY <4>1, <4>2
    <3> QED
      BY <3>2, <3>3 DEF Pieces
  <2>4. FromLogs[p] \subseteq results[p]
    <3>1. ASSUME NEW x \in FromLogs[p] PROVE x \in results[p]
      <4>1. PICK piece \in Pieces: x = Of(piece) /\ x # {}
        BY <1>4
      <4>2. PICK t \in Of(piece): TRUE
        BY <4>1
      <4>3. x = {t}
        BY <2>3, <4>1, <4>2
      <4>4. t \in Printed
        BY <1>5, <4>2
      <4> QED
        BY <1>3, <4>3, <4>4
    <3> QED
      BY <3>1
  <2>5. results[p] \subseteq FromLogs[p]
    <3>1. ASSUME NEW t \in Printed PROVE {t} \in FromLogs[p]
      <4>1. PICK piece \in Pieces: t \in piece
        BY <1>5
      <4>2. t \in Of(piece)
        BY <4>1
      <4>3. Of(piece) = {t}
        BY <2>3, <4>1, <4>2
      <4> QED
        BY <1>4, <4>1, <4>3
    <3> QED
      BY <1>3, <3>1
  <2> QED
    BY <2>4, <2>5
<1> QED
  BY <1>6, <1>7, <1>8

\* For every number of trials: the logs count every measurement that the live
\* run counted, and differ only by a trial that printed metrics and no verdict
\* (benchmark.py:43-52, 109-124).
THEOREM LogsTellTheSame == Spec => []LogsAgree
PROOF
  BY TrialInvariant, LogsFollow, PTL
=============================================================================
