---------------------------- MODULE CuckooVector ----------------------------
(***************************************************************************)
(* The client's cuckoo vector (src/src/cuckoo.cc, CuckooVector) and the    *)
(* loop of Client::online that fills it: the OPRF results are inserted in  *)
(* order, each by a walk that places the item in hand in the first empty   *)
(* bin among its hashes or swaps it with the occupant of one of them,      *)
(* until a bin is free or MAX_INSERT is exceeded and the call throws.      *)
(*                                                                         *)
(* An item is the (result, query) tuple of one element of the client's     *)
(* dataset; two elements with the same result are two items with the same  *)
(* hashes.  cuckoo_hash is a pseudo-random function of the item, so every  *)
(* function from items and hash numbers to bins is a possible one.         *)
(***************************************************************************)
EXTENDS Naturals, FiniteSets

CONSTANTS NItems,     \* results the client inserts
          NBins,      \* params.cuckoo_size
          NHashes,    \* params.cuckoo_hashes
          MaxInsert   \* MAX_INSERT

ASSUME ConstantsAssumption ==
          /\ NItems \in Nat
          /\ NBins \in Nat \ {0}
          /\ NHashes \in Nat \ {0}
          /\ MaxInsert \in Nat

Items      == 1 .. NItems
Bins       == 0 .. NBins - 1
HashNumber == 0 .. NHashes - 1

\* std::nullopt in a bin, and the blank pair that split() puts in its place
\* (a BLANK_QUERY is the largest u64, which no bucket index reaches).
Empty == 0

VARIABLES hashOf,    \* cuckoo_hash: item -> hash number -> bin
          table,     \* CuckooVector::table: bin -> item or Empty
          next,      \* how many calls of insert the loop has started
          hand,      \* to_insert
          attemps,   \* evictions of this call
          queried,   \* bin -> item or Empty: what split() returned
          phase      \* "insert", "split" (done filling), "done" or "thrown"

vars == <<hashOf, table, next, hand, attemps, queried, phase>>

-----------------------------------------------------------------------------
\* Mutant: the walk hashes the entry of the call, not the one in hand.
BinOfCall(i, h) == hashOf[next][h]

Bin(i, h) == hashOf[i][h]

\* Mutant: the bin is not asked whether it is free.
AlwaysFree(i, h) == TRUE

Free(i, h) == table[Bin(i, h)] = Empty

\* Mutant: the bound is tested one eviction late.
GoesOnLate == attemps <= MaxInsert + 1

\* The test at the top of the loop.
GoesOn == attemps <= MaxInsert

\* Items that sit in some bin.
Contents == {table[b] : b \in Bins} \ {Empty}

\* The loop of Client::online moves to its next result, or ends.
Proceed ==
  IF next < NItems
    THEN next' = next + 1 /\ hand' = next + 1 /\ attemps' = 0 /\ UNCHANGED phase
    ELSE phase' = "split" /\ UNCHANGED <<next, hand, attemps>>

Init ==
  /\ hashOf \in [Items -> [HashNumber -> Bins]]
  /\ table = [b \in Bins |-> Empty]
  /\ queried = [b \in Bins |-> Empty]
  /\ attemps = 0
  /\ IF NItems = 0 THEN next = 0 /\ hand = Empty /\ phase = "split"
                   ELSE next = 1 /\ hand = 1 /\ phase = "insert"

\* The hash numbers are tried in order and the first free bin takes the item.
Place(h) ==
  /\ phase = "insert" /\ GoesOn
  /\ Free(hand, h)
  /\ \A g \in HashNumber: g < h => ~Free(hand, g)
  /\ table' = [table EXCEPT ![Bin(hand, h)] = hand]
  /\ Proceed
  /\ UNCHANGED <<hashOf, queried>>

Swapped(h) == [table EXCEPT ![Bin(hand, h)] = hand]

\* Mutant: evictions are not counted.
Uncounted == attemps

Counted == attemps + 1

\* Every bin of the item in hand is taken: a random hash number names the bin
\* whose occupant is swapped with it.
Evict(h) ==
  /\ phase = "insert" /\ GoesOn
  /\ \A g \in HashNumber: ~Free(hand, g)
  /\ table' = Swapped(h)
  /\ hand' = table[Bin(hand, h)]
  /\ attemps' = Counted
  /\ UNCHANGED <<hashOf, next, queried, phase>>

\* Mutant: the client gives up on the item in hand and goes on to the next.
SkipInsteadOfThrow ==
  /\ phase = "insert" /\ ~GoesOn
  /\ Proceed
  /\ UNCHANGED <<hashOf, table, queried>>

\* Tested at the top of the loop, before another bin is looked at.  Nothing
\* catches the exception: the item in hand is lost and the program ends.
Throw ==
  /\ phase = "insert" /\ ~GoesOn
  /\ phase' = "thrown"
  /\ UNCHANGED <<hashOf, table, next, hand, attemps, queried>>

\* split() walks the bins in order, a blank pair for every empty one.
Split ==
  /\ phase = "split"
  /\ queried' = table
  /\ phase' = "done"
  /\ UNCHANGED <<hashOf, table, next, hand, attemps>>

Terminated == phase \in {"done", "thrown"} /\ UNCHANGED vars

Next == \/ \E h \in HashNumber: Place(h) \/ Evict(h)
        \/ Throw
        \/ Split
        \/ Terminated

\* One thread runs the loop: as long as it has a step to take it takes it.
Spec == Init /\ [][Next]_vars /\ WF_vars(Next)

-----------------------------------------------------------------------------
\* Types: a bin holds one item or nothing; a walk makes at most MaxInsert + 1
\* evictions, since the counter is tested before it is incremented.
TypeOK ==
  /\ hashOf \in [Items -> [HashNumber -> Bins]]
  /\ table \in [Bins -> Items \cup {Empty}]
  /\ queried \in [Bins -> Items \cup {Empty}]
  /\ next \in 0 .. NItems
  /\ attemps \in 0 .. MaxInsert + 1
  /\ phase \in {"insert", "split", "done", "thrown"}
  /\ hand \in Items \cup {Empty}
  /\ phase \in {"insert", "thrown"} => hand \in Items /\ next \in Items

\* The client asks bin b of the server about table[b] only: an item anywhere
\* but in a bin of its own hashes would never be found, however the walks of
\* later items moved it (cuckoo.cc:66-85).
PlacedAtOwnHash ==
  \A b \in Bins: table[b] # Empty => \E h \in HashNumber: b = hashOf[table[b]][h]

\* A walk neither loses nor doubles an item: the bins and the hand hold every
\* item inserted so far exactly once, also in the middle of a chain of
\* evictions and also when insert throws (cuckoo.cc:80-83).
Conserved ==
  /\ \A b, c \in Bins: table[b] = table[c] /\ table[b] # Empty => b = c
  /\ phase \in {"insert", "thrown"} =>
        Contents \cup {hand} = 1 .. next /\ hand \notin Contents
  /\ phase \in {"split", "done"} => Contents = Items
  /\ phase = "done" => queried = table

\* test_cuckoo.cc:147-170 (Overfill): more items than bins, or any set of
\* items whose hashes reach fewer bins than it has items, cannot be filled in:
\* the loop of insertions then ends with the exception and never with a split.
CrowdedThrows ==
  phase \in {"split", "done"} =>
     \A S \in SUBSET Items:
        Cardinality(S) <= Cardinality({hashOf[i][h] : i \in S, h \in HashNumber})

\* A bin that is occupied stays occupied: an eviction replaces the occupant
\* in the same step, so blank queries can only become fewer (cuckoo.cc:81-82).
BinsStayFull == [][\A b \in Bins: table[b] # Empty => table'[b] # Empty]_vars

\* Client::online returns: every walk ends, by a free bin or by the exception
\* (cuckoo.cc:61-64), so the fill loop does too.
FillEnds == <>(phase \in {"done", "thrown"})

\* The items a caller knows to be stored: those in the vector or in the hand
\* of the walk, except the one whose call has not returned.
ReturnedItems ==
  IF phase \in {"insert", "thrown"} THEN (Contents \cup {hand}) \ {next} ELSE Contents

Store == INSTANCE ItemStore WITH stored <- ReturnedItems, failed <- phase = "thrown"

\* CuckooVector::insert keeps the promise of ItemStore (cuckoo.cc:55-87): the
\* walk is invisible to the caller, for whom each step of it stores one item,
\* fails for good, or changes nothing.
StoresItems == Store!Spec
=============================================================================
