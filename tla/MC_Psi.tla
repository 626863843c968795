------------------------------- MODULE MC_Psi -------------------------------
(***************************************************************************)
(* Psi for TLC: with the constants of the configuration, and without       *)
(* cuckoo hashing.  In the second case hashtables are larger, and buckets  *)
(* stacked two to a column of the PIR database.                            *)
(***************************************************************************)
EXTENDS Psi

VARIABLE single   \* params.cuckoo_size == 1

One == INSTANCE Psi WITH NBins <- 1, NHashes <- 1, NBuckets <- 4, BucketsPerCol <- 2

mcVars == <<vars, single>>

MCInit == \/ single = FALSE /\ Init
          \/ single = TRUE /\ One!Init

MCNext == /\ UNCHANGED single
          /\ \/ ~single /\ Next
             \/ single /\ One!Next

MCSpec == MCInit /\ [][MCNext]_mcVars /\ WF_mcVars(MCNext)

-----------------------------------------------------------------------------
\* CountsShared, with cuckoo hashing and without (client.go:68-74).
CountsSharedBoth == IF single THEN One!CountsShared ELSE CountsShared

\* FailsForAReason in both cases: without cuckoo hashing a run fails for none
\* of the vector's reasons (database.go:230-234).
FailsForAReasonBoth == IF single THEN One!FailsForAReason ELSE FailsForAReason
=============================================================================
