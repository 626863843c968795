------------------------- MODULE CuckooVectorProofs -------------------------
(***************************************************************************)
(* Theorems about the client's cuckoo vector, for every number of items,   *)
(* bins and hashes, every cuckoo hash and every bound on the walk.         *)
(***************************************************************************)
EXTENDS CuckooVector, FiniteSetTheorems, TLAPS

\* The inductive invariant: placement speaks of bins only, so an eviction
\* keeps it only because the item in hand is one of the items, and the bins
\* and the hand together hold each item once.
Inv == TypeOK /\ PlacedAtOwnHash /\ Conserved

\* Every bin an item hashes to is a bin of the table.
LEMMA BinInTable ==
  ASSUME TypeOK, NEW i \in Items, NEW h \in HashNumber
  PROVE  Bin(i, h) \in Bins
BY DEF TypeOK, Bin

\* An item is not the empty bin.
LEMMA ItemNotEmpty == Empty \notin Items
BY DEF Empty, Items

\* The loop starts with an empty table and the first result in hand.
LEMMA InitInv == Init => Inv
<1> SUFFICES ASSUME Init PROVE Inv
  OBVIOUS
<1>1. Contents = {}
  BY DEF Init, Contents
<1>2. TypeOK
  BY ConstantsAssumption DEF Init, TypeOK, Items, Empty
<1>3. PlacedAtOwnHash
  BY DEF Init, PlacedAtOwnHash
<1>4. Conserved
  <2>1. NItems = 0 => Items = {}
    BY DEF Items
  <2> QED
    BY <1>1, <2>1 DEF Init, Conserved, Empty
<1> QED
  BY <1>2, <1>3, <1>4 DEF Inv

\* A placement adds the item in hand to the bins.
LEMMA PlaceContents ==
  ASSUME Inv, NEW h \in HashNumber, Place(h)
  PROVE  /\ hand \in Items /\ hand \notin Contents
         /\ Contents' = Contents \cup {hand}
<1> DEFINE b == Bin(hand, h)
<1>1. hand \in Items /\ hand \notin Contents
  BY DEF Inv, TypeOK, Conserved, Place
<1>2. b \in Bins /\ table[b] = Empty /\ table' = [table EXCEPT ![b] = hand]
  BY <1>1, BinInTable DEF Inv, Place, Free
<1>3. table \in [Bins -> Items \cup {Empty}]
  BY DEF Inv, TypeOK
<1> HIDE DEF b
<1>4. hand # Empty
  BY <1>1, ItemNotEmpty
<1> QED
  BY <1>1, <1>2, <1>3, <1>4 DEF Contents

\* A placement preserves the invariant.
LEMMA PlaceInv ==
  ASSUME Inv, NEW h \in HashNumber, Place(h)
  PROVE  Inv'
<1> DEFINE b == Bin(hand, h)
<1>1. /\ phase = "insert"
      /\ b \in Bins /\ table[b] = Empty
      /\ table' = [table EXCEPT ![b] = hand]
      /\ UNCHANGED <<hashOf, queried>>
      /\ hand \in Items /\ next \in Items
  BY BinInTable DEF Inv, TypeOK, Place, Free
<1>2. hand \notin Contents /\ Contents' = Contents \cup {hand}
  BY PlaceContents
<1>3. table \in [Bins -> Items \cup {Empty}] /\ table' \in [Bins -> Items \cup {Empty}]
  BY <1>1 DEF Inv, TypeOK
<1>4. Contents' = 1 .. next
  BY <1>1, <1>2 DEF Inv, Conserved
<1>5. CASE next < NItems
  <2>1. next' = next + 1 /\ hand' = next + 1 /\ attemps' = 0 /\ phase' = phase
    BY <1>5 DEF Place, Proceed
  <2>2. TypeOK'
    BY <1>1, <1>3, <1>5, <2>1, ConstantsAssumption DEF Inv, TypeOK, Items
  <2>3. Contents' \cup {hand'} = 1 .. next' /\ hand' \notin Contents'
    BY <1>1, <1>4, <1>5, <2>1 DEF Items
  <2>4. phase' \notin {"split", "done"}
    BY <1>1, <2>1
  <2>5. PlacedAtOwnHash' /\ (\A c, d \in Bins: table'[c] = table'[d] /\ table'[c] # Empty => c = d)
    BY <1>1, <1>2, <1>3 DEF Inv, PlacedAtOwnHash, Conserved, Contents, Bin
  <2> QED
    BY <2>2, <2>3, <2>4, <2>5 DEF Inv, Conserved
<1>6. CASE ~(next < NItems)
  <2>1. phase' = "split" /\ UNCHANGED <<next, hand, attemps>>
    BY <1>6 DEF Place, Proceed
  <2>2. TypeOK'
    BY <1>1, <1>3, <2>1 DEF Inv, TypeOK
  <2>3. Contents' = Items
    BY <1>1, <1>4, <1>6, ConstantsAssumption DEF Items
  <2>5. PlacedAtOwnHash' /\ (\A c, d \in Bins: table'[c] = table'[d] /\ table'[c] # Empty => c = d)
    BY <1>1, <1>2, <1>3 DEF Inv, PlacedAtOwnHash, Conserved, Contents, Bin
  <2> QED
    BY <2>1, <2>2, <2>3, <2>5 DEF Inv, Conserved
<1> QED
  BY <1>5, <1>6

\* What an eviction does to the bins: the item in hand goes in, the occupant
\* of its bin comes out and is the new item in hand.
LEMMA EvictContents ==
  ASSUME Inv, NEW h \in HashNumber, Evict(h)
  PROVE  /\ hand \in Items /\ hand \notin Contents
         /\ hand' \in Contents /\ hand' = table[Bin(hand, h)]
         /\ Contents' = (Contents \ {hand'}) \cup {hand}
<1> DEFINE b == Bin(hand, h)
<1>1. hand \in Items /\ hand \notin Contents
  BY DEF Inv, TypeOK, Conserved, Evict
<1>2. /\ b \in Bins /\ table[b] # Empty
      /\ table' = [table EXCEPT ![b] = hand] /\ hand' = table[b]
  BY <1>1, BinInTable DEF Inv, Evict, Free, Swapped
<1>3. table \in [Bins -> Items \cup {Empty}]
  BY DEF Inv, TypeOK
<1>4. \A c, d \in Bins: table[c] = table[d] /\ table[c] # Empty => c = d
  BY DEF Inv, Conserved
<1> HIDE DEF b
<1>5. hand # Empty
  BY <1>1, ItemNotEmpty
<1>6. hand' \in Contents
  BY <1>2 DEF Contents
<1>7. \A x: x \in Contents' => x \in (Contents \ {hand'}) \cup {hand}
  BY <1>2, <1>3, <1>4 DEF Contents
<1>8. \A x: x \in (Contents \ {hand'}) \cup {hand} => x \in Contents'
  BY <1>1, <1>2, <1>3, <1>5 DEF Contents
<1>9. hand' = table[Bin(hand, h)]
  BY <1>2 DEF b
<1> QED
  BY <1>1, <1>6, <1>7, <1>8, <1>9

\* An eviction preserves the invariant.
LEMMA EvictInv ==
  ASSUME Inv, NEW h \in HashNumber, Evict(h)
  PROVE  Inv'
<1> DEFINE b == Bin(hand, h)
<1>1. /\ phase = "insert" /\ attemps <= MaxInsert
      /\ b \in Bins
      /\ table' = [table EXCEPT ![b] = hand]
      /\ attemps' = attemps + 1
      /\ UNCHANGED <<hashOf, next, queried, phase>>
      /\ hand \in Items /\ next \in Items
  BY BinInTable DEF Inv, TypeOK, Evict, GoesOn, Swapped, Counted
<1>2. /\ hand \notin Contents /\ hand' \in Contents
      /\ hand' = table[b]
      /\ Contents' = (Contents \ {hand'}) \cup {hand}
  BY EvictContents
<1>3. /\ table \in [Bins -> Items \cup {Empty}]
      /\ table' \in [Bins -> Items \cup {Empty}]
      /\ Contents \subseteq Items
  BY <1>1 DEF Inv, TypeOK, Contents
<1>4. TypeOK'
  BY <1>1, <1>2, <1>3, ConstantsAssumption DEF Inv, TypeOK
<1>5. PlacedAtOwnHash' /\ (\A c, d \in Bins: table'[c] = table'[d] /\ table'[c] # Empty => c = d)
  BY <1>1, <1>2, <1>3 DEF Inv, PlacedAtOwnHash, Conserved, Contents, Bin
<1>6. Contents' \cup {hand'} = 1 .. next' /\ hand' \notin Contents'
  BY <1>1, <1>2 DEF Inv, Conserved
<1> QED
  BY <1>1, <1>4, <1>5, <1>6 DEF Inv, Conserved

\* Every step preserves the invariant.
LEMMA NextInv == Inv /\ [Next]_vars => Inv'
<1> SUFFICES ASSUME Inv, [Next]_vars PROVE Inv'
  OBVIOUS
<1>1. ASSUME NEW h \in HashNumber, Place(h) PROVE Inv'
  BY <1>1, PlaceInv
<1>2. ASSUME NEW h \in HashNumber, Evict(h) PROVE Inv'
  BY <1>2, EvictInv
<1>3. CASE Throw
  BY <1>3 DEF Throw, Inv, TypeOK, PlacedAtOwnHash, Conserved, Contents, Bin
<1>4. CASE Split
  BY <1>4 DEF Split, Inv, TypeOK, PlacedAtOwnHash, Conserved, Contents, Bin
<1>5. CASE UNCHANGED vars
  BY <1>5 DEF vars, Inv, TypeOK, PlacedAtOwnHash, Conserved, Contents, Bin
<1> QED
  BY <1>1, <1>2, <1>3, <1>4, <1>5 DEF Next, Terminated

\* The invariant holds throughout: types, placement and conservation.
THEOREM VectorInvariant == Spec => []Inv
<1> QED
  BY InitInv, NextInv, PTL DEF Spec

\* Types of the cuckoo vector; the walk makes at most MaxInsert + 1 evictions.
THEOREM VectorTypes == Spec => []TypeOK
<1>1. Inv => TypeOK
  BY DEF Inv
<1> QED
  BY <1>1, VectorInvariant, PTL

\* An item only ever sits in a bin of one of its own hashes.
THEOREM VectorPlacement == Spec => []PlacedAtOwnHash
<1>1. Inv => PlacedAtOwnHash
  BY DEF Inv
<1> QED
  BY <1>1, VectorInvariant, PTL

\* No walk, finished, running or given up, loses or doubles an item.
THEOREM VectorConserves == Spec => []Conserved
<1>1. Inv => Conserved
  BY DEF Inv
<1> QED
  BY <1>1, VectorInvariant, PTL

\* A filled vector gives every set of items as many bins as it has items.
LEMMA FilledIsMatching == Inv => CrowdedThrows
<1> SUFFICES ASSUME Inv, phase \in {"split", "done"}, NEW S \in SUBSET Items
             PROVE  Cardinality(S) <= Cardinality({hashOf[i][h] : i \in S, h \in HashNumber})
  BY DEF CrowdedThrows
<1> DEFINE R == {hashOf[i][h] : i \in S, h \in HashNumber}
           T == {b \in Bins : table[b] \in S}
           f == [b \in T |-> table[b]]
<1>1. IsFiniteSet(Bins)
  BY FS_Interval, ConstantsAssumption DEF Bins
<1>2. R \in SUBSET Bins
  BY BinInTable DEF Inv, Bin
<1>3. T \in SUBSET R
  BY ItemNotEmpty DEF Inv, PlacedAtOwnHash
<1>4. f \in Surjection(T, S)
  <2>1. f \in [T -> S]
    OBVIOUS
  <2>2. Contents = Items
    BY DEF Inv, Conserved
  <2>3. \A s \in S: \E b \in T: f[b] = s
    BY <2>2 DEF Contents
  <2> QED
    BY <2>1, <2>3 DEF Surjection
<1>5. IsFiniteSet(R)
  BY <1>1, <1>2, FS_Subset
<1>6. IsFiniteSet(T) /\ Cardinality(T) <= Cardinality(R)
  BY <1>3, <1>5, FS_Subset
<1>7. IsFiniteSet(S) /\ Cardinality(S) <= Cardinality(T)
  BY <1>4, <1>6, FS_Surjection
<1>8. Cardinality(R) \in Nat /\ Cardinality(T) \in Nat /\ Cardinality(S) \in Nat
  BY <1>5, <1>6, <1>7, FS_CardinalityType
<1> QED
  BY <1>6, <1>7, <1>8

\* Too many items for the bins they hash to end in the exception, whatever
\* the random choices of the walks.
THEOREM VectorCrowdedThrows == Spec => []CrowdedThrows
<1> QED
  BY FilledIsMatching, VectorInvariant, PTL

\* No walk empties a bin.
THEOREM VectorBinsStayFull == Spec => BinsStayFull
<1>1. ASSUME Inv, [Next]_vars, NEW b \in Bins, table[b] # Empty
      PROVE  table'[b] # Empty
  <2>1. ASSUME NEW h \in HashNumber, Place(h) PROVE table'[b] # Empty
    BY <1>1, <2>1, ItemNotEmpty DEF Place, Inv, TypeOK
  <2>2. ASSUME NEW h \in HashNumber, Evict(h) PROVE table'[b] # Empty
    BY <1>1, <2>2, ItemNotEmpty DEF Evict, Inv, TypeOK, Swapped
  <2>3. CASE Throw \/ Split \/ UNCHANGED vars
    BY <1>1, <2>3 DEF Throw, Split, vars
  <2> QED
    BY <1>1, <2>1, <2>2, <2>3 DEF Next, Terminated
<1>2. Inv /\ [Next]_vars => [\A b \in Bins: table[b] # Empty => table'[b] # Empty]_vars
  BY <1>1
<1> QED
  BY <1>2, VectorInvariant, PTL DEF Spec, BinsStayFull

\* Seen from outside a placement stores exactly the item of the call.
LEMMA PlaceAccepts ==
  ASSUME Inv, NEW h \in HashNumber, Place(h)
  PROVE  Store!Accept
<1>1. /\ phase = "insert" /\ next \in Items /\ Contents \cup {hand} = 1 .. next
      /\ ReturnedItems = (Contents \cup {hand}) \ {next}
  BY DEF Inv, TypeOK, Conserved, Place, ReturnedItems
<1>2. Contents' = Contents \cup {hand}
  BY PlaceContents
<1>3. next \in Items \ ReturnedItems
  BY <1>1
<1>4. ReturnedItems' = ReturnedItems \cup {next}
  <2>1. CASE next < NItems
    <3>1. phase' = "insert" /\ next' = next + 1 /\ hand' = next + 1
      BY <1>1, <2>1 DEF Place, Proceed
    <3>2. ReturnedItems' = (Contents' \cup {hand'}) \ {next'}
      BY <3>1 DEF ReturnedItems
    <3> QED
      BY <1>1, <1>2, <3>1, <3>2 DEF Items
  <2>2. CASE ~(next < NItems)
    <3>1. phase' = "split"
      BY <2>2 DEF Place, Proceed
    <3>2. ReturnedItems' = Contents'
      BY <3>1 DEF ReturnedItems
    <3> QED
      BY <1>1, <1>2, <3>2 DEF Items
  <2> QED
    BY <2>1, <2>2
<1>5. (phase = "thrown") = FALSE /\ (phase' = "thrown") = FALSE
  BY <1>1 DEF Place, Proceed
<1> QED
  BY <1>3, <1>4, <1>5 DEF Store!Accept

\* Seen from outside an eviction changes nothing.
LEMMA EvictStutters ==
  ASSUME Inv, NEW h \in HashNumber, Evict(h)
  PROVE  UNCHANGED <<ReturnedItems, phase = "thrown">>
<1>1. /\ phase = "insert" /\ phase' = phase /\ next' = next
  BY DEF Evict
<1>2. Contents' \cup {hand'} = Contents \cup {hand}
  BY EvictContents
<1> QED
  BY <1>1, <1>2 DEF ReturnedItems

\* The cuckoo vector implements the store of items.
THEOREM VectorStoresItems == Spec => StoresItems
<1>1. Init => Store!Init
  <2> SUFFICES ASSUME Init PROVE Store!Init
    OBVIOUS
  <2>1. Contents = {}
    BY DEF Init, Contents
  <2>2. ReturnedItems = {} /\ (phase = "thrown") = FALSE
    BY <2>1 DEF Init, ReturnedItems
  <2> QED
    BY <2>2 DEF Store!Init
<1>2. Inv /\ [Next]_vars => [Store!Next]_<<ReturnedItems, phase = "thrown">>
  <2> SUFFICES ASSUME Inv, [Next]_vars
               PROVE  [Store!Next]_<<ReturnedItems, phase = "thrown">>
    OBVIOUS
  <2>1. ASSUME NEW h \in HashNumber, Place(h) PROVE Store!Next
    BY <2>1, PlaceAccepts DEF Store!Next
  <2>2. ASSUME NEW h \in HashNumber, Evict(h)
        PROVE  UNCHANGED <<ReturnedItems, phase = "thrown">>
    BY <2>2, EvictStutters
  <2>3. CASE Throw
    <3>1. /\ phase = "insert" /\ phase' = "thrown"
          /\ UNCHANGED <<table, next, hand>> /\ next \in Items
      BY <2>3 DEF Throw, Inv, TypeOK
    <3>2. ReturnedItems' = ReturnedItems
      BY <3>1 DEF ReturnedItems, Contents
    <3>3. next \notin ReturnedItems
      BY <3>1 DEF ReturnedItems
    <3>4. (phase = "thrown") = FALSE /\ (phase' = "thrown") = TRUE
      BY <3>1
    <3> QED
      BY <3>1, <3>2, <3>3, <3>4 DEF Store!Next, Store!Refuse
  <2>4. CASE Split
    BY <2>4 DEF Split, ReturnedItems, Contents
  <2>5. CASE UNCHANGED vars
    BY <2>5 DEF vars, ReturnedItems, Contents
  <2> QED
    BY <2>1, <2>2, <2>3, <2>4, <2>5 DEF Next, Terminated
<1> QED
  BY <1>1, <1>2, VectorInvariant, PTL DEF Spec, StoresItems, Store!Spec
=============================================================================
