------------------------------- MODULE Trial -------------------------------
(***************************************************************************)
(* The trials of an experiment (src/benchmark.py run_protocol): out/ is    *)
(* emptied, datagen makes the datasets, the two OPRF processes             *)
(* (src/src/oprf.cc) read them and leave their results in files, and after *)
(* both have ended the two PIR processes (src/go/main.go) read these.      *)
(*                                                                         *)
(* A process runs a script.  What the parties say in the steps "tell" and  *)
(* "hear" is one message here: the OPRF exchange is Psi's, the PIR         *)
(* connection PirSession's.  A file is named by the trial that wrote it,   *)
(* the number of entries it holds, and whether a write of it has failed,   *)
(* which nobody sees and only the properties speak of.                     *)
(***************************************************************************)
EXTENDS Integers, Sequences

CONSTANTS Trials,    \* trials of the experiment
          NQueries,  \* entries of a whole file, and queries of a client
          Retries,   \* CONNECTION_RETRIES
          MaxFaults  \* bound on processes killed and writes that fail

ASSUME TrialAssumption == /\ {Trials, NQueries, Retries} \subseteq Nat \ {0}
                          /\ MaxFaults \in Nat

Oprf == {"oprfServer", "oprfClient"}
Pir  == {"pirServer", "pirClient"}
Processes == {"datagen"} \cup Oprf \cup Pir

Peer(p) == [datagen |-> "datagen",
            oprfServer |-> "oprfClient", oprfClient |-> "oprfServer",
            pirServer |-> "pirClient", pirClient |-> "pirServer"][p]

\* The files a process reads.
Inputs == [oprfServer |-> {"server.db"}, oprfClient |-> {"client.db"},
           pirServer |-> {"server.edb"}, pirClient |-> {"client.edb", "queries.db"}]
Datasets == {"server.db", "client.db"}
Results  == {"server.edb", "client.edb", "queries.db"}
Files    == Datasets \cup Results

\* Mutant: the server waits for the client before it sends the hints.
ServerHearsFirst == <<"dial", "load", "hear", "tell", "tell", "print">>

PirServerScript == <<"dial", "load", "tell", "hear", "tell", "print">>

\* The step after "create" has the name of the file, and closes it.
Script ==
  [datagen |-> <<"create", "server.db", "create", "client.db">>,
   oprfServer |-> <<"load", "meet", "tell", "hear", "tell", "print", "create", "server.edb">>,
   oprfClient |-> <<"load", "meet", "hear", "tell", "hear", "insert", "print",
                    "create", "client.edb", "create", "queries.db">>,
   pirServer |-> PirServerScript,
   pirClient |-> <<"listen", "accept", "load", "hear", "tell", "hear", "print", "report">>]

VARIABLES driver,   \* "clean", "datagen", "oprf", "pir", "done" or "raised"
          trial,    \* number of the trial
          single,   \* cuckoo_size = 1
          expected, \* the overlap of the datasets
          files,    \* out/: name -> None or [of, n, lost]
          loaded,   \* what has been read of it
          status,   \* process -> "idle", "up", "exited" or "aborted"
          pc,       \* process -> place in its script
          told,     \* process -> messages sent
          heard,    \* process -> messages received
          tries,    \* dials that were refused
          output,   \* the processes that have printed their metrics, and the
                    \* PIR client's verdict: "none", "SUCCESS" or "FAILURE"
          log,      \* the log file: the outputs of the trials
          results,  \* process -> its measurements, each the set of the trials
                    \* whose values were added up to it
          faults    \* processes killed and writes that failed

record == <<trial, single, expected, log, results>>
talk   == <<told, heard>>
vars == <<driver, record, files, loaded, status, pc, talk, tries, output, faults>>

\* Where there is no file; no trial has the number 0.
None == [of |-> 0, n |-> 0, lost |-> FALSE]
Silence == [printed |-> {}, verdict |-> "none"]

Init ==
  /\ driver = "clean" /\ trial = 1
  /\ single \in BOOLEAN /\ expected \in {0, 1}
  /\ files = [f \in Files |-> None] /\ loaded = [f \in Files |-> None]
  /\ status = [p \in Processes |-> "idle"]
  /\ pc = [p \in Processes |-> 1]
  /\ told = [p \in Processes |-> 0] /\ heard = [p \in Processes |-> 0]
  /\ tries = 0 /\ output = Silence /\ faults = 0
  /\ log = <<>> /\ results = [p \in Processes |-> {}]

-----------------------------------------------------------------------------
\* Mutant: out/ is not emptied.
KeptFiles == files

\* rm -r out/*.
Cleaned == [f \in Files |-> None]

\* run_protocol up to datagen.
StartDatagen ==
  /\ driver = "clean" /\ driver' = "datagen"
  /\ files' = Cleaned
  /\ loaded' = [f \in Files |-> None]
  /\ status' = [p \in Processes |-> IF p = "datagen" THEN "up" ELSE "idle"]
  /\ pc' = [p \in Processes |-> 1]
  /\ told' = [p \in Processes |-> 0] /\ heard' = [p \in Processes |-> 0]
  /\ tries' = 0 /\ output' = Silence
  /\ UNCHANGED <<record, faults>>

Ended(p) == status[p] \in {"exited", "aborted"}

\* Nobody looks at how datagen ended.
StartOprf ==
  /\ driver = "datagen" /\ Ended("datagen")
  /\ driver' = "oprf"
  /\ status' = [p \in Processes |-> IF p \in Oprf THEN "up" ELSE status[p]]
  /\ UNCHANGED <<record, files, loaded, pc, talk, tries, output, faults>>

\* communicate() with both processes.  The check that follows looks at their
\* standard errors, which are not piped and hence None.
StartPir ==
  /\ driver = "oprf" /\ \A p \in Oprf: Ended(p)
  /\ driver' = "pir"
  /\ status' = [p \in Processes |-> IF p \in Pir THEN "up" ELSE status[p]]
  /\ UNCHANGED <<record, files, loaded, pc, talk, tries, output, faults>>

\* Mutant: the log is opened anew for every trial.
LastOnly == <<output>>

\* Written and synced before it is looked at.
Logged == Append(log, output)

\* parse_output raises where a line says FAILURE, and nowhere else; the values
\* of a metric it adds up.
ParseOutput ==
  /\ driver = "pir" /\ \A p \in Pir: Ended(p)
  /\ log' = Logged
  /\ IF output.verdict = "FAILURE" THEN driver' = "raised" /\ UNCHANGED <<trial, results>>
     ELSE /\ results' = [p \in Processes |->
                          results[p] \cup {{trial}: q \in {p} \cap output.printed}]
          /\ IF trial = Trials THEN driver' = "done" /\ UNCHANGED trial
             ELSE driver' = "clean" /\ trial' = trial + 1
  /\ UNCHANGED <<single, expected, files, loaded, status, pc, talk, tries, output, faults>>

\* --from-logs: the file is split at each SUCCESS, and each piece parsed.
Successes == {t \in DOMAIN log: log[t].verdict = "SUCCESS"}
Pieces == {{t \in 1 .. s: \A r \in Successes: r < s => r < t}: s \in Successes}
            \cup {{t \in DOMAIN log: \A r \in Successes: r < t}}
FromLogs == [p \in Processes |->
               {{t \in piece: p \in log[t].printed}: piece \in Pieces} \ {{}}]

-----------------------------------------------------------------------------
At(p, step) == status[p] = "up" /\ pc[p] <= Len(Script[p]) /\ Script[p][pc[p]] = step
Advance(p) == pc' = [pc EXCEPT ![p] = @ + 1]

\* The process ends with an exception, a panic or a signal; of what it has
\* sent, what its peer has not yet read may be lost.
Abort(p) ==
  /\ status' = [status EXCEPT ![p] = "aborted"]
  /\ \E n \in {told[p]} \cup (heard[Peer(p)] .. told[p]): told' = [told EXCEPT ![p] = n]
  /\ UNCHANGED <<driver, record, files, loaded, pc, heard, output>>

\* waitForConnection: either side waits for the other, without a deadline.
Meet ==
  /\ \A p \in Oprf: At(p, "meet")
  /\ pc' = [p \in Processes |-> IF p \in Oprf THEN pc[p] + 1 ELSE pc[p]]
  /\ UNCHANGED <<driver, record, files, loaded, status, talk, tries, output, faults>>

Listen ==
  /\ At("pirClient", "listen") /\ Advance("pirClient")
  /\ UNCHANGED <<driver, record, files, loaded, status, talk, tries, output, faults>>

Listening == status["pirClient"] = "up" /\ pc["pirClient"] > 1

Dial ==
  /\ At("pirServer", "dial") /\ Listening /\ Advance("pirServer")
  /\ UNCHANGED <<driver, record, files, loaded, status, talk, tries, output, faults>>

\* A dial is refused; the last one makes the server panic.
Refused ==
  /\ At("pirServer", "dial") /\ ~Listening
  /\ tries' = tries + 1
  /\ IF tries' = Retries THEN Abort("pirServer")
     ELSE UNCHANGED <<driver, record, files, loaded, status, pc, talk, output>>
  /\ UNCHANGED faults

\* Accept, without a deadline; a connection whose server is gone is accepted.
Accept ==
  /\ At("pirClient", "accept") /\ pc["pirServer"] > 1 /\ Advance("pirClient")
  /\ UNCHANGED <<driver, record, files, loaded, status, talk, tries, output, faults>>

\* read_dataset throws and ReadDatabase panics on a missing file; of a short
\* one the last entry may be cut, which is read past the vector or a panic, but
\* for client.edb, read byte by byte.  The PIR server panics on a size it does
\* not expect and on empty hashtables, with several bins on one.
Load(p) ==
  /\ At(p, "load")
  /\ \/ /\ \A f \in Inputs[p]: files[f] # None
        /\ p = "pirServer" => files["server.edb"].n = NQueries
        /\ loaded' = [f \in Files |-> IF f \in Inputs[p] THEN files[f] ELSE loaded[f]]
        /\ Advance(p)
        /\ UNCHANGED <<driver, record, files, status, talk, output>>
     \/ /\ \/ \E f \in Inputs[p]: files[f] # None => f # "client.edb" /\ files[f].n < NQueries
           \/ p = "pirServer" /\ ~single
        /\ Abort(p)
  /\ UNCHANGED <<tries, faults>>

\* The queries the client has read: it sends so many requests with one bin,
\* and panics on too few with several.
NAsked == loaded["queries.db"].n

Tell(p) ==
  /\ At(p, "tell")
  /\ \/ /\ p = "pirClient" => single \/ NAsked = NQueries
        /\ told' = [told EXCEPT ![p] = @ + 1] /\ Advance(p)
        /\ UNCHANGED <<driver, record, files, loaded, status, heard, output>>
     \/ /\ Ended(Peer(p)) \/ (p = "pirClient" /\ ~single /\ NAsked < NQueries)
        /\ Abort(p)
  /\ UNCHANGED <<tries, faults>>

\* The server reads a request for every query it was started for; a client
\* without queries reads no response.
Arrived(p) ==
  CASE p = "pirServer" -> told["pirClient"] > heard[p] /\ NAsked = NQueries
    [] p = "pirClient" -> told["pirServer"] > heard[p] \/ (heard[p] = 1 /\ NAsked = 0)
    [] OTHER -> told[Peer(p)] > heard[p]

\* A query without an entry in client.edb slices the array behind its end: a
\* panic, or zeros where room was reserved.
Hear(p) ==
  /\ At(p, "hear") /\ Arrived(p)
  /\ \/ /\ heard' = [heard EXCEPT ![p] = @ + 1] /\ Advance(p)
        /\ UNCHANGED <<driver, record, files, loaded, status, told, output>>
     \/ /\ p = "pirClient" /\ heard[p] = 1 /\ loaded["client.edb"].n < NAsked
        /\ Abort(p)
  /\ UNCHANGED <<tries, faults>>

\* The peer is gone: recv throws; a PIR process panics on what it cannot
\* decode, or goes on.  Below CHUNK_SIZE the error of Read is not looked at, and
\* zeros are decoded for what is missing; the answers of blanks are skipped.
HearEnd(p) ==
  /\ At(p, "hear") /\ ~Arrived(p) /\ Ended(Peer(p))
  /\ \/ Abort(p)
     \/ /\ p = "pirServer" \/ (p = "pirClient" /\ heard[p] = 1)
        /\ Advance(p)
        /\ UNCHANGED <<driver, record, files, loaded, status, talk, output>>
  /\ UNCHANGED <<tries, faults>>

\* CuckooVector::insert may give up, with several bins.
InsertAll ==
  /\ At("oprfClient", "insert")
  /\ \/ Advance("oprfClient")
        /\ UNCHANGED <<driver, record, files, loaded, status, talk, output>>
     \/ ~single /\ Abort("oprfClient")
  /\ UNCHANGED <<tries, faults>>

\* The entries of a whole file: with several bins the client asks each of them
\* once however many items it has; of no items an empty hashtable is made.
Entries(f) ==
  CASE f \in Datasets -> NQueries
    [] f = "server.edb" -> IF loaded["server.db"].n = 0 THEN 0 ELSE NQueries
    [] OTHER -> IF single THEN loaded["client.db"].n ELSE NQueries

\* Opening a file makes it; until it is closed any part may be on disk.
Create(p, f) ==
  /\ At(p, "create") /\ Script[p][pc[p] + 1] = f /\ Advance(p)
  /\ \E n \in 0 .. Entries(f): files' = [files EXCEPT ![f] = [of |-> trial, n |-> n, lost |-> FALSE]]
  /\ UNCHANGED <<driver, record, loaded, status, talk, tries, output, faults>>

\* The rest is written, or a write fails and the rest is lost: only the opening
\* is looked at.
Close(p, f) ==
  /\ At(p, f) /\ Advance(p)
  /\ \/ /\ files' = [files EXCEPT ![f] = [of |-> trial, n |-> Entries(f), lost |-> FALSE]]
        /\ UNCHANGED faults
     \/ /\ files[f].n < Entries(f) /\ faults < MaxFaults
        /\ files' = [files EXCEPT ![f] = [of |-> trial, n |-> files[f].n, lost |-> TRUE]]
        /\ faults' = faults + 1
  /\ UNCHANGED <<driver, record, loaded, status, talk, tries, output>>

\* Entries match only under the same key, drawn anew by every OPRF.  The
\* shared elements are the last of either dataset.
Matching == /\ NAsked = NQueries
            /\ \A f, g \in Results: loaded[f].of = loaded[g].of
            /\ \A f \in Datasets: loaded[f].n = NQueries

\* What the client may count: it may miss what is in a response or an entry
\* that it does not have.
Found ==
  {n \in {0, expected}:
     IF Matching THEN heard["pirClient"] = 2 /\ loaded["client.edb"].n = NQueries => n = expected
                 ELSE n = 0}

Report ==
  /\ At("pirClient", "report") /\ Advance("pirClient")
  /\ \E found \in Found:
       output' = [output EXCEPT !.verdict = IF found = expected THEN "SUCCESS" ELSE "FAILURE"]
  /\ UNCHANGED <<driver, record, files, loaded, status, talk, tries, faults>>

\* The timers are stopped, which prints them; output is not held back.
PrintMetrics(p) ==
  /\ At(p, "print") /\ Advance(p)
  /\ output' = [output EXCEPT !.printed = @ \cup {p}]
  /\ UNCHANGED <<driver, record, files, loaded, status, talk, tries, faults>>

Exit(p) ==
  /\ status[p] = "up" /\ pc[p] > Len(Script[p])
  /\ status' = [status EXCEPT ![p] = "exited"]
  /\ UNCHANGED <<driver, record, files, loaded, pc, talk, tries, output, faults>>

Kill(p) ==
  /\ status[p] = "up" /\ faults < MaxFaults
  /\ Abort(p)
  /\ faults' = faults + 1 /\ UNCHANGED tries

Writing(p)  == \E f \in Files: Create(p, f) \/ Close(p, f)
Step(p)     == Load(p) \/ Tell(p) \/ Hear(p) \/ HearEnd(p) \/ PrintMetrics(p) \/ Exit(p)
Datagen    == Writing("datagen") \/ Exit("datagen")
OprfServer == Step("oprfServer") \/ Writing("oprfServer")
OprfClient == Step("oprfClient") \/ Writing("oprfClient") \/ InsertAll
PirServer  == Step("pirServer") \/ Dial \/ Refused
PirClient  == Step("pirClient") \/ Listen \/ Accept \/ Report
Driver     == StartDatagen \/ StartOprf \/ StartPir \/ ParseOutput

\* The three ways to wait for ever: for a peer that ended before it came, and
\* for the requests of queries that are not in the file.
Waiting ==
  \/ \E p \in Oprf: At(p, "meet") /\ Ended(Peer(p))
  \/ At("pirClient", "accept") /\ Ended("pirServer") /\ pc["pirServer"] = 1
  \/ At("pirServer", "hear") /\ At("pirClient", "hear") /\ heard["pirClient"] = 1 /\ NAsked < NQueries

Terminated == (driver \in {"done", "raised"} \/ Waiting) /\ UNCHANGED vars

Next == \/ Datagen \/ Meet \/ OprfServer \/ OprfClient \/ PirServer \/ PirClient
        \/ Driver \/ (\E p \in Processes: Kill(p)) \/ Terminated

\* Every process runs on; dials may be refused as long as the client has not
\* come to listen.
Spec == /\ Init /\ [][Next]_vars
        /\ WF_vars(Datagen) /\ WF_vars(Meet) /\ WF_vars(OprfServer) /\ WF_vars(OprfClient)
        /\ WF_vars(PirServer) /\ WF_vars(PirClient) /\ WF_vars(Driver)

-----------------------------------------------------------------------------
\* SUCCESS is about this trial: its processes have read files that it has
\* written to the end, and the server has answered.  The exceptions, where
\* nobody looks at how a process, a write or a read has ended
\* (benchmark.py:127-145, utils.h:87-106, more_utils.go:97-101):
\*  - the answers of a killed server or the last entries of client.edb may be
\*    missing where the count comes out without them;
\*  - where nothing should be found, either dataset may have lost entries, and
\*    that of the client be a part that a killed datagen left; and with one bin
\*    a part of the queries may have been asked of a killed server, or none.
SuccessIsReal ==
  LET Short(f) == loaded[f].n < NQueries
      Lost(f)  == Short(f) /\ loaded[f].lost
  IN driver = "pir" /\ output.verdict = "SUCCESS" =>
       /\ \A f \in Files: loaded[f].of = trial
       /\ ~Short("server.edb")
       /\ Short("server.db") => Lost("server.db")
       /\ Short("client.db") => Lost("client.db") \/ status["datagen"] = "aborted"
       /\ Short("client.edb") => Lost("client.edb") \/ (single /\ Short("client.db"))
       /\ Short("queries.db") => /\ single /\ (NAsked = 0 \/ status["pirServer"] = "aborted")
                                 /\ \/ Lost("queries.db") \/ Short("client.db")
                                    \/ status["oprfClient"] = "aborted"
       /\ expected > 0 => \A f \in Files \ {"client.edb"}: ~Short(f)
       /\ heard["pirClient"] = 2 \/ status["pirServer"] = "aborted"

\* The statistics reported from the logs count every measurement that those of
\* the live run counted; they differ only where a trial has printed
\* metrics but no verdict, since they are added to those of the trial after
\* it (benchmark.py:43-52, 109-124).
LogsAgree ==
  driver = "done" =>
     \A p \in Processes:
        /\ UNION FromLogs[p] = UNION results[p]
        /\ FromLogs[p] # results[p] =>
              \E t \in 1 .. Trials - 1: log[t].verdict = "none" /\ p \in log[t].printed

\* An experiment ends, whoever is killed or throws, but for the three waits
\* without a deadline (oprf.cc:28, 59, main.go:71, server.go:110-113).
TrialEnds == <>[](driver \in {"done", "raised"} \/ Waiting)
=============================================================================
