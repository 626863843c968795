------------------------------ MODULE ItemStore ------------------------------
(***************************************************************************)
(* What a caller of CuckooVector::insert may rely on, with no bins, no     *)
(* hashes and no evictions in sight: each call either adds its item to the *)
(* items stored so far, none of which is lost, or fails for good (the      *)
(* exception is caught nowhere in the program).                            *)
(***************************************************************************)
CONSTANT Items

VARIABLES stored, failed

Init == stored = {} /\ failed = FALSE

Accept == \E i \in Items \ stored:
             /\ ~failed
             /\ stored' = stored \cup {i}
             /\ UNCHANGED failed

Refuse == /\ ~failed
          /\ stored # Items
          /\ failed' = TRUE
          /\ UNCHANGED stored

Next == Accept \/ Refuse

Spec == Init /\ [][Next]_<<stored, failed>>
=============================================================================
