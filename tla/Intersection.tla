---------------------------- MODULE Intersection ----------------------------
(***************************************************************************)
(* What the two parties promise together: the client is told how often an  *)
(* entry of its dataset equals one of the server's, or the run fails;      *)
(* never another count.  Where no dataset has an element twice, this is    *)
(* the size of the intersection.                                           *)
(***************************************************************************)
EXTENDS Naturals, FiniteSets

CONSTANT Element

VARIABLES client, server,   \* the datasets: place -> element
          outcome           \* <<>>, then <<"count", n>> or <<"failed">>

vars == <<client, server, outcome>>

Shared == {m \in (DOMAIN client) \X (DOMAIN server): client[m[1]] = server[m[2]]}

Init == /\ \A i \in DOMAIN client: client[i] \in Element
        /\ \A e \in DOMAIN server: server[e] \in Element
        /\ outcome = <<>>

Report == /\ outcome = <<>>
          /\ outcome' = <<"count", Cardinality(Shared)>>
          /\ UNCHANGED <<client, server>>

Fail == /\ outcome = <<>>
        /\ outcome' = <<"failed">>
        /\ UNCHANGED <<client, server>>

Next == Report \/ Fail

Spec == Init /\ [][Next]_vars /\ WF_vars(Next)
=============================================================================
