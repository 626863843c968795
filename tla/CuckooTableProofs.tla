------------------------- MODULE CuckooTableProofs -------------------------
(***************************************************************************)
(* Theorems about the server's tables, for every number of entries, bins,  *)
(* hashes and buckets, and every choice of hash functions.                 *)
(***************************************************************************)
EXTENDS CuckooTable, TLAPS

\* The rows fit in the widths, which count entries; padding is only found in
\* padded bins.
RowsFit ==
  /\ \A b \in TableBins: width[b] <= inserted
  /\ \A b \in TableBins: \A k \in Buckets: Len(Row(b, k)) <= width[b]

\* No bin is padded before the last entry is in.
PadsLast == padded > 0 => inserted = NEntries

\* Every entry that a row shows is inserted, hashes there and is there once.
RowsHonest ==
  \A b \in TableBins: \A k \in Buckets: \A j \in 1 .. Len(Row(b, k)):
     Row(b, k)[j] # Pad =>
        /\ Row(b, k)[j] <= inserted
        /\ b \in Candidates(Row(b, k)[j])
        /\ k = bucketOf[Row(b, k)[j]]
        /\ \A i \in 1 .. Len(Row(b, k)): Row(b, k)[i] = Row(b, k)[j] => i = j

\* Every inserted entry is in each of its bins.
RowsComplete ==
  \A e \in 1 .. inserted: \A b \in Candidates(e): \A k \in Buckets:
     k = bucketOf[e] => \E j \in 1 .. Len(Row(b, k)): Row(b, k)[j] = e

Inv == TypeOK /\ RowsFit /\ PadsLast /\ RowsHonest /\ RowsComplete

\* The bins an entry is put in are the bins it hashes to, and bins of the table.
LEMMA CandidateBins ==
  ASSUME TypeOK, NEW e \in Entries
  PROVE  BinsOf(e) = Candidates(e) /\ Candidates(e) \subseteq TableBins
BY TableAssumption DEF TypeOK, BinsOf, Candidates, TableBins

\* An entry's number is not the padding.
LEMMA EntryNotPad == Pad \notin Entries
BY DEF Pad, Entries

\* What a prepended entry does to a sequence.
LEMMA PrependFacts ==
  ASSUME NEW S, NEW s \in Seq(S), NEW e \in S
  PROVE  /\ <<e>> \o s \in Seq(S) /\ Len(<<e>> \o s) = Len(s) + 1
         /\ (<<e>> \o s)[1] = e
         /\ \A j \in 1 .. Len(s): (<<e>> \o s)[j + 1] = s[j]
         /\ \A j \in 1 .. Len(<<e>> \o s): j # 1 =>
               j - 1 \in 1 .. Len(s) /\ (<<e>> \o s)[j] = s[j - 1]
OBVIOUS

\* A resized row that is wide enough keeps its entries in their places.
LEMMA ResizeFacts ==
  ASSUME NEW s \in Seq(Entries \cup {Pad}), NEW w \in Nat, Len(s) <= w
  PROVE  /\ Resize(s, w) \in Seq(Entries \cup {Pad}) /\ Len(Resize(s, w)) = w
         /\ \A j \in 1 .. Len(s): Resize(s, w)[j] = s[j]
         /\ \A j \in 1 .. w: Resize(s, w)[j] # Pad =>
               j \in 1 .. Len(s) /\ Resize(s, w)[j] = s[j]
<1>1. \A j \in 1 .. w: (IF j <= Len(s) THEN s[j] ELSE Pad) \in Entries \cup {Pad}
  OBVIOUS
<1>2. Resize(s, w) \in [1 .. w -> Entries \cup {Pad}]
  BY <1>1 DEF Resize
<1>3. Resize(s, w) \in Seq(Entries \cup {Pad}) /\ Len(Resize(s, w)) = w
  BY <1>2
<1> QED
  BY <1>3 DEF Resize

\* The tables start empty.
LEMMA InitInv == Init => Inv
<1> SUFFICES ASSUME Init PROVE Inv
  OBVIOUS
<1>1. \A b \in TableBins: width[b] = 0 /\ \A k \in Buckets: rows[b][k] = <<>>
  BY DEF Init
<1>2. TypeOK
  BY TableAssumption DEF Init, TypeOK
<1>3. RowsFit /\ RowsHonest
  BY <1>1 DEF Init, RowsFit, RowsHonest, Row
<1>4. PadsLast /\ RowsComplete
  BY DEF Init, PadsLast, RowsComplete
<1> QED
  BY <1>2, <1>3, <1>4 DEF Inv

\* What Insert does to the row of bin b and bucket k.
LEMMA InsertRow ==
  ASSUME Inv, Insert, NEW b \in TableBins, NEW k \in Buckets
  PROVE  /\ Row(b, k)' = IF b \in Candidates(inserted + 1) /\ k = bucketOf[inserted + 1]
                           THEN <<inserted + 1>> \o Row(b, k) ELSE Row(b, k)
         /\ width'[b] \in Nat /\ width'[b] <= inserted + 1
         /\ Len(Row(b, k)') <= width'[b]
<1> DEFINE e == inserted + 1
<1>1. e \in Entries /\ inserted \in Nat
  BY TableAssumption DEF Insert, Inv, TypeOK, Entries
<1>2. BinsOf(e) = Candidates(e)
  BY <1>1, CandidateBins DEF Inv
<1>3. Row(b, k)' = IF b \in Candidates(e) /\ k = bucketOf[e]
                     THEN <<e>> \o Row(b, k) ELSE Row(b, k)
  BY <1>2 DEF Insert, Row, Headed
<1>4. width'[b] = IF b \in Candidates(e) THEN WidthWith(b, e) ELSE width[b]
  BY <1>2 DEF Insert
<1>5. /\ Row(b, k) \in Seq(Entries \cup {Pad}) /\ Len(Row(b, k)) <= width[b]
      /\ width[b] \in Nat /\ width[b] <= inserted
  BY TableAssumption DEF Inv, TypeOK, RowsFit, Row
<1>6. bucketOf[e] \in Buckets
  BY <1>1 DEF Inv, TypeOK
<1>7. Row(b, bucketOf[e]) \in Seq(Entries \cup {Pad}) /\ Len(Row(b, bucketOf[e])) <= width[b]
  BY <1>6 DEF Inv, TypeOK, RowsFit, Row
<1>8. WidthWith(b, e) = IF Len(Row(b, bucketOf[e])) + 1 > width[b]
                          THEN Len(Row(b, bucketOf[e])) + 1 ELSE width[b]
  BY <1>1, <1>7 DEF WidthWith, Headed, Row
<1> HIDE DEF e
<1>9. width'[b] \in Nat /\ width'[b] <= inserted + 1
  BY <1>1, <1>4, <1>5, <1>7, <1>8
<1>10. Len(<<e>> \o Row(b, k)) = Len(Row(b, k)) + 1
  BY <1>1, <1>5, PrependFacts
<1>11. Len(Row(b, k)') <= width'[b]
  BY <1>3, <1>4, <1>5, <1>7, <1>8, <1>10
<1> QED
  BY <1>3, <1>9, <1>11 DEF e

\* Inserting the next entry preserves the invariant.
LEMMA InsertInv ==
  ASSUME Inv, Insert
  PROVE  Inv'
<1> DEFINE e == inserted + 1
<1>1. /\ e \in Entries /\ inserted \in Nat /\ inserted' = e
      /\ inserted < NEntries
      /\ UNCHANGED <<binOf, bucketOf, padded>>
  BY TableAssumption DEF Insert, Inv, TypeOK, Entries
<1>2. \A b \in TableBins, k \in Buckets:
        Row(b, k)' = IF b \in Candidates(e) /\ k = bucketOf[e]
                       THEN <<e>> \o Row(b, k) ELSE Row(b, k)
  BY InsertRow
<1>3. \A b \in TableBins, k \in Buckets:
        width'[b] \in Nat /\ width'[b] <= inserted + 1 /\ Len(Row(b, k)') <= width'[b]
  BY InsertRow
<1>4. \A x: Candidates(x)' = Candidates(x)
  BY <1>1 DEF Candidates
<1>5. \A b \in TableBins, k \in Buckets: Row(b, k) \in Seq(Entries \cup {Pad})
  BY DEF Inv, TypeOK, Row
<1>6. \A b \in TableBins, k \in Buckets: Row(b, k)' \in Seq(Entries \cup {Pad})
  <2> TAKE b \in TableBins, k \in Buckets
  <2> DEFINE s == Row(b, k)
             S == Entries \cup {Pad}
  <2>1. s \in Seq(S) /\ e \in S /\ (Row(b, k)' = s \/ Row(b, k)' = <<e>> \o s)
    BY <1>1, <1>2, <1>5
  <2> SUFFICES Row(b, k)' \in Seq(S)
    OBVIOUS
  <2> HIDE DEF e, s, S
  <2>2. <<e>> \o s \in Seq(S)
    BY <2>1, PrependFacts
  <2> QED
    BY <2>1, <2>2
<1>7. 0 \in Buckets
  BY TableAssumption DEF Buckets
<1>8. TypeOK'
  <2>1. rows' \in [TableBins -> [Buckets -> Seq(Entries \cup {Pad})]]
    BY <1>6 DEF Insert, Row
  <2>2. width' \in [TableBins -> 0 .. NEntries]
    BY <1>1, <1>3, <1>7, TableAssumption DEF Insert
  <2> QED
    BY <1>1, <2>1, <2>2, TableAssumption DEF Inv, TypeOK, Entries
<1>9. RowsFit'
  BY <1>1, <1>3, <1>7 DEF RowsFit
<1>10. PadsLast'
  BY <1>1 DEF Inv, PadsLast
<1>11. RowsHonest'
  <2> SUFFICES ASSUME NEW b \in TableBins, NEW k \in Buckets,
                      NEW j \in 1 .. Len(Row(b, k)'), Row(b, k)'[j] # Pad
               PROVE  /\ Row(b, k)'[j] <= inserted'
                      /\ b \in Candidates(Row(b, k)'[j])
                      /\ k = bucketOf[Row(b, k)'[j]]
                      /\ \A i \in 1 .. Len(Row(b, k)'): Row(b, k)'[i] = Row(b, k)'[j] => i = j
    BY <1>1, <1>4 DEF RowsHonest
  <2> DEFINE s == Row(b, k)
  <2>1. s \in Seq(Entries \cup {Pad})
    BY <1>5
  <2>2. \A i \in 1 .. Len(s): s[i] # Pad =>
          /\ s[i] <= inserted /\ b \in Candidates(s[i]) /\ k = bucketOf[s[i]]
          /\ \A l \in 1 .. Len(s): s[l] = s[i] => l = i
    BY DEF Inv, RowsHonest
  <2>3. CASE ~(b \in Candidates(e) /\ k = bucketOf[e])
    <3>1. Row(b, k)' = s
      BY <1>2, <2>3
    <3>2. s[j] \in Nat
      BY <2>1, <3>1 DEF Entries, Pad
    <3> QED
      BY <1>1, <2>2, <3>1, <3>2
  <2>4. CASE b \in Candidates(e) /\ k = bucketOf[e]
    <3>1. Row(b, k)' = <<e>> \o s
      BY <1>2, <2>4
    <3> HIDE DEF e, s
    <3>2. /\ Len(<<e>> \o s) = Len(s) + 1 /\ (<<e>> \o s)[1] = e
          /\ \A i \in 1 .. Len(<<e>> \o s): i # 1 =>
                i - 1 \in 1 .. Len(s) /\ (<<e>> \o s)[i] = s[i - 1]
      BY <1>1, <2>1, PrependFacts
    <3>3. \A i \in 1 .. Len(s): s[i] \in Nat /\ s[i] <= inserted
      BY <1>1, <2>1, <2>2 DEF Entries, Pad
    <3>4. \A i \in 1 .. Len(s): s[i] # e
      BY <1>1, <3>3 DEF e
    <3>5. CASE j = 1
      <4>1. Row(b, k)'[j] = e
        BY <3>1, <3>2, <3>5
      <4>2. \A i \in 1 .. Len(Row(b, k)'): Row(b, k)'[i] = e => i = 1
        BY <3>1, <3>2, <3>4
      <4> QED
        BY <1>1, <2>4, <3>5, <4>1, <4>2 DEF Entries
    <3>6. CASE j # 1
      <4>1. j - 1 \in 1 .. Len(s) /\ Row(b, k)'[j] = s[j - 1] /\ s[j - 1] # Pad
        BY <3>1, <3>2, <3>6
      <4>2. /\ s[j - 1] <= inserted /\ s[j - 1] \in Nat
            /\ b \in Candidates(s[j - 1]) /\ k = bucketOf[s[j - 1]]
            /\ \A l \in 1 .. Len(s): s[l] = s[j - 1] => l = j - 1
        BY <2>2, <3>3, <4>1
      <4>3. ASSUME NEW i \in 1 .. Len(Row(b, k)'), Row(b, k)'[i] = s[j - 1] PROVE i = j
        <5>1. i # 1
          BY <3>1, <3>2, <3>4, <4>1, <4>3
        <5>2. i - 1 \in 1 .. Len(s) /\ s[i - 1] = s[j - 1]
          BY <3>1, <3>2, <4>3, <5>1
        <5>3. i - 1 = j - 1 /\ i \in Int /\ j \in Int
          BY <4>2, <5>2
        <5> QED
          BY <5>3
      <4>4. s[j - 1] <= inserted'
        BY <1>1, <4>2 DEF e
      <4> QED
        BY <4>1, <4>2, <4>3, <4>4
    <3> QED
      BY <3>5, <3>6
  <2> QED
    BY <2>3, <2>4
<1>12. RowsComplete'
  <2> SUFFICES ASSUME NEW x \in 1 .. e, NEW b \in Candidates(x),
                      NEW k \in Buckets, k = bucketOf[x]
               PROVE  \E j \in 1 .. Len(Row(b, k)'): Row(b, k)'[j] = x
    BY <1>1, <1>4 DEF RowsComplete
  <2>0. x \in Entries
    BY <1>1, TableAssumption DEF Entries
  <2>1. x \in Entries /\ b \in TableBins
    BY <2>0, CandidateBins DEF Inv
  <2> DEFINE s == Row(b, k)
  <2>2. s \in Seq(Entries \cup {Pad})
    BY <1>5, <2>1
  <2>3. CASE x = e
    <3>1. Row(b, k)' = <<e>> \o s
      BY <1>2, <2>1, <2>3
    <3> HIDE DEF s
    <3>2. Len(<<e>> \o s) = Len(s) + 1 /\ (<<e>> \o s)[1] = e /\ Len(s) \in Nat
      BY <1>1, <2>2, PrependFacts
    <3> QED
      BY <2>3, <3>1, <3>2
  <2>4. CASE x # e
    <3>1. x \in 1 .. inserted
      BY <1>1, <2>4
    <3>2. PICK j \in 1 .. Len(s): s[j] = x
      BY <3>1 DEF Inv, RowsComplete
    <3>3. CASE ~(b \in Candidates(e) /\ k = bucketOf[e])
      <4>1. Row(b, k)' = s
        BY <1>2, <2>1, <3>3
      <4> QED
        BY <3>2, <4>1
    <3>4. CASE b \in Candidates(e) /\ k = bucketOf[e]
      <4>1. Row(b, k)' = <<e>> \o s
        BY <1>2, <2>1, <3>4
      <4> HIDE DEF s
      <4>2. (<<e>> \o s)[j + 1] = s[j] /\ Len(<<e>> \o s) = Len(s) + 1
        BY <1>1, <2>2, PrependFacts
      <4>3. j + 1 \in 1 .. Len(<<e>> \o s)
        BY <2>2, <4>2
      <4> QED
        BY <3>2, <4>1, <4>2, <4>3
    <3> QED
      BY <3>3, <3>4
  <2> QED
    BY <2>3, <2>4
<1> QED
  BY <1>8, <1>9, <1>10, <1>11, <1>12 DEF Inv

\* What PadBin does to the row of bin b and bucket k.
LEMMA PadRow ==
  ASSUME Inv, PadBin, NEW b \in TableBins, NEW k \in Buckets
  PROVE  /\ Row(b, k)' \in Seq(Entries \cup {Pad})
         /\ Len(Row(b, k)) <= Len(Row(b, k)') /\ Len(Row(b, k)') <= width[b]
         /\ \A j \in 1 .. Len(Row(b, k)): Row(b, k)'[j] = Row(b, k)[j]
         /\ \A j \in 1 .. Len(Row(b, k)'): Row(b, k)'[j] # Pad =>
               j \in 1 .. Len(Row(b, k)) /\ Row(b, k)'[j] = Row(b, k)[j]
<1>1. /\ Row(b, k) \in Seq(Entries \cup {Pad}) /\ Len(Row(b, k)) <= width[b]
      /\ width[b] \in Nat /\ rows \in [TableBins -> [Buckets -> Seq(Entries \cup {Pad})]]
  BY TableAssumption DEF Inv, TypeOK, RowsFit, Row
<1>2. Row(b, k)' = IF b = padded THEN Resize(Row(b, k), width[b]) ELSE Row(b, k)
  BY <1>1 DEF PadBin, Row
<1> DEFINE s == Row(b, k)
           w == width[b]
<1>3. CASE b = padded
  <2>1. s \in Seq(Entries \cup {Pad}) /\ w \in Nat /\ Len(s) <= w /\ Row(b, k)' = Resize(s, w)
    BY <1>1, <1>2, <1>3
  <2> SUFFICES /\ Resize(s, w) \in Seq(Entries \cup {Pad})
               /\ Len(s) <= Len(Resize(s, w)) /\ Len(Resize(s, w)) <= w
               /\ \A j \in 1 .. Len(s): Resize(s, w)[j] = s[j]
               /\ \A j \in 1 .. Len(Resize(s, w)): Resize(s, w)[j] # Pad =>
                     j \in 1 .. Len(s) /\ Resize(s, w)[j] = s[j]
    BY <2>1
  <2> HIDE DEF s, w
  <2> QED
    BY <2>1, ResizeFacts
<1>4. CASE b # padded
  BY <1>1, <1>2, <1>4
<1> QED
  BY <1>3, <1>4

\* Padding a bin preserves the invariant.
LEMMA PadInv ==
  ASSUME Inv, PadBin
  PROVE  Inv'
<1>1. /\ UNCHANGED <<binOf, bucketOf, width, inserted>>
      /\ inserted = NEntries /\ padded' = padded + 1 /\ padded < NBins
  BY DEF PadBin, ToPad
<1>2. \A b \in TableBins, k \in Buckets:
        /\ Row(b, k)' \in Seq(Entries \cup {Pad})
        /\ Len(Row(b, k)) <= Len(Row(b, k)') /\ Len(Row(b, k)') <= width[b]
        /\ Len(Row(b, k)) \in Nat /\ Len(Row(b, k)') \in Nat
  BY PadRow DEF Inv, TypeOK, Row
<1>3. \A b \in TableBins, k \in Buckets: \A j \in 1 .. Len(Row(b, k)):
        Row(b, k)'[j] = Row(b, k)[j]
  BY PadRow
<1>4. \A b \in TableBins, k \in Buckets: \A j \in 1 .. Len(Row(b, k)'):
        Row(b, k)'[j] # Pad => j \in 1 .. Len(Row(b, k)) /\ Row(b, k)'[j] = Row(b, k)[j]
  BY PadRow
<1>5. \A x: Candidates(x)' = Candidates(x)
  BY <1>1 DEF Candidates
<1>6. TypeOK'
  <2>1. rows' \in [TableBins -> [Buckets -> Seq(Entries \cup {Pad})]]
    BY <1>2 DEF PadBin, Row, Inv, TypeOK
  <2> QED
    BY <1>1, <2>1, TableAssumption DEF Inv, TypeOK
<1>7. RowsFit'
  BY <1>1, <1>2 DEF Inv, RowsFit
<1>8. PadsLast'
  BY <1>1 DEF PadsLast
<1>9. RowsHonest'
  <2> SUFFICES ASSUME NEW b \in TableBins, NEW k \in Buckets,
                      NEW j \in 1 .. Len(Row(b, k)'), Row(b, k)'[j] # Pad
               PROVE  /\ Row(b, k)'[j] <= inserted
                      /\ b \in Candidates(Row(b, k)'[j])
                      /\ k = bucketOf[Row(b, k)'[j]]
                      /\ \A i \in 1 .. Len(Row(b, k)'): Row(b, k)'[i] = Row(b, k)'[j] => i = j
    BY <1>1, <1>5 DEF RowsHonest
  <2>1. j \in 1 .. Len(Row(b, k)) /\ Row(b, k)'[j] = Row(b, k)[j]
    BY <1>4
  <2>2. \A i \in 1 .. Len(Row(b, k)'): Row(b, k)'[i] = Row(b, k)'[j] =>
          i \in 1 .. Len(Row(b, k)) /\ Row(b, k)[i] = Row(b, k)[j]
    BY <1>4, <2>1
  <2> QED
    BY <2>1, <2>2 DEF Inv, RowsHonest
<1>10. RowsComplete'
  <2> SUFFICES ASSUME NEW e \in 1 .. inserted, NEW b \in Candidates(e),
                      NEW k \in Buckets, k = bucketOf[e]
               PROVE  \E j \in 1 .. Len(Row(b, k)'): Row(b, k)'[j] = e
    BY <1>1, <1>5 DEF RowsComplete
  <2>1. e \in Entries /\ b \in TableBins
    BY <1>1, CandidateBins DEF Inv, TypeOK, Entries
  <2>2. PICK j \in 1 .. Len(Row(b, k)): Row(b, k)[j] = e
    BY DEF Inv, RowsComplete
  <2>3. j \in 1 .. Len(Row(b, k)') /\ Row(b, k)'[j] = e
    BY <1>2, <1>3, <2>1, <2>2
  <2> QED
    BY <2>3
<1> QED
  BY <1>6, <1>7, <1>8, <1>9, <1>10 DEF Inv

\* Every step preserves the invariant.
LEMMA NextInv == Inv /\ [Next]_vars => Inv'
<1>1. ASSUME Inv, UNCHANGED vars PROVE Inv'
  BY <1>1 DEF vars, Inv, TypeOK, RowsFit, PadsLast, RowsHonest, RowsComplete, Row, Candidates
<1> QED
  BY <1>1, InsertInv, PadInv DEF Next, Terminated

\* The invariant holds throughout.
THEOREM TableInvariant == Spec => []Inv
<1> QED
  BY InitInv, NextInv, PTL DEF Spec

\* Types of the tables; no width exceeds the number of entries.
THEOREM TableTypes == Spec => []TypeOK
<1>1. Inv => TypeOK
  BY DEF Inv
<1> QED
  BY <1>1, TableInvariant, PTL

\* What the rows hold, said of one entry: it is once in each bin of its hashes.
LEMMA InvOncePerBin == Inv => OncePerBin
<1>1. ASSUME Inv, NEW e \in 1 .. inserted PROVE bucketOf[e] \in Buckets
  BY <1>1, TableAssumption DEF Inv, TypeOK, Entries
<1> QED
  BY <1>1 DEF Inv, RowsHonest, RowsComplete, OncePerBin

\* Each inserted entry is once in each of its bins, in its bucket, and
\* nowhere else, during the insertions and after the padding.
THEOREM TableOncePerBin == Spec => []OncePerBin
<1> QED
  BY InvOncePerBin, TableInvariant, PTL

\* A padded row is as wide as its table, and its padding is at its end.
RowsPadded ==
  \A b \in TableBins: \A k \in Buckets:
     /\ b < padded => Len(Row(b, k)) = width[b]
     /\ \A i \in 1 .. Len(Row(b, k)): Row(b, k)[i] = Pad =>
          b < padded /\ \A j \in i .. Len(Row(b, k)): Row(b, k)[j] = Pad

\* A width that is not zero is that of a bucket full of entries.
RowsTight ==
  \A b \in TableBins: width[b] > 0 =>
     \E k \in Buckets: Len(Row(b, k)) = width[b] /\ Row(b, k)[width[b]] # Pad

InvR == Inv /\ RowsPadded /\ RowsTight

\* An insertion pads nothing, and the width follows the longest row.
LEMMA InsertRectangular ==
  ASSUME InvR, Insert
  PROVE  RowsPadded' /\ RowsTight'
<1> DEFINE e == inserted + 1
<1>1. e \in Entries /\ padded = 0 /\ UNCHANGED <<binOf, bucketOf, padded>> /\ bucketOf[e] \in Buckets
  BY TableAssumption DEF Insert, InvR, Inv, TypeOK, PadsLast, Entries
<1>2. \A b \in TableBins, k \in Buckets:
        /\ Row(b, k)' = IF b \in Candidates(e) /\ k = bucketOf[e] THEN <<e>> \o Row(b, k) ELSE Row(b, k)
        /\ Row(b, k) \in Seq(Entries \cup {Pad}) /\ Len(Row(b, k)) <= width[b]
        /\ width[b] \in Nat
  <2> SUFFICES ASSUME NEW b \in TableBins, NEW k \in Buckets
               PROVE  /\ Row(b, k)' = IF b \in Candidates(e) /\ k = bucketOf[e]
                                         THEN <<e>> \o Row(b, k) ELSE Row(b, k)
                      /\ Row(b, k) \in Seq(Entries \cup {Pad}) /\ Len(Row(b, k)) <= width[b]
                      /\ width[b] \in Nat
    OBVIOUS
  <2>1. Row(b, k)' = IF b \in Candidates(e) /\ k = bucketOf[e]
                       THEN <<e>> \o Row(b, k) ELSE Row(b, k)
    BY InsertRow DEF InvR
  <2>2. Row(b, k) \in Seq(Entries \cup {Pad})
    BY DEF InvR, Inv, TypeOK, Row
  <2>3. Len(Row(b, k)) <= width[b]
    BY DEF InvR, Inv, RowsFit
  <2>4. width[b] \in Nat
    BY TableAssumption DEF InvR, Inv, TypeOK
  <2> QED
    BY <2>1, <2>2, <2>3, <2>4
<1>3. \A b \in TableBins: ~(b < padded) /\ b \in Nat
  BY <1>1, TableAssumption DEF TableBins
<1>4. ASSUME NEW b \in TableBins, NEW k \in Buckets
      PROVE  /\ \A i \in 1 .. Len(Row(b, k)'): Row(b, k)'[i] # Pad
             /\ Len(Row(b, k)') = IF b \in Candidates(e) /\ k = bucketOf[e]
                                    THEN Len(Row(b, k)) + 1 ELSE Len(Row(b, k))
  <2>1. PICK s: s = Row(b, k)
    OBVIOUS
  <2>2. s \in Seq(Entries \cup {Pad}) /\ \A i \in 1 .. Len(s): s[i] # Pad
    BY <1>2, <1>3, <2>1 DEF InvR, RowsPadded
  <2>3. CASE ~(b \in Candidates(e) /\ k = bucketOf[e])
    BY <1>2, <2>1, <2>2, <2>3
  <2>4. CASE b \in Candidates(e) /\ k = bucketOf[e]
    <3>1. Row(b, k)' = <<e>> \o s
      BY <1>2, <2>1, <2>4
    <3> HIDE DEF e
    <3>2. /\ Len(<<e>> \o s) = Len(s) + 1 /\ (<<e>> \o s)[1] = e
          /\ \A i \in 1 .. Len(<<e>> \o s): i # 1 =>
                i - 1 \in 1 .. Len(s) /\ (<<e>> \o s)[i] = s[i - 1]
      BY <1>1, <2>2, PrependFacts
    <3>3. e # Pad
      BY <1>1, EntryNotPad
    <3> QED
      BY <2>1, <2>2, <2>4, <3>1, <3>2, <3>3
  <2> QED
    BY <2>3, <2>4
<1>5. RowsPadded'
  BY <1>1, <1>3, <1>4 DEF RowsPadded
<1>6. ASSUME NEW b \in TableBins, width'[b] > 0
      PROVE  \E k \in Buckets: Len(Row(b, k)') = width'[b]
  <2>1. width'[b] = IF b \in Candidates(e) THEN WidthWith(b, e) ELSE width[b]
    BY <1>1, CandidateBins DEF Insert, InvR, Inv
  <2>2. WidthWith(b, e) = IF Len(Row(b, bucketOf[e])) + 1 > width[b]
                            THEN Len(Row(b, bucketOf[e])) + 1 ELSE width[b]
    <3>1. PICK s: s = Row(b, bucketOf[e])
      OBVIOUS
    <3>2. s \in Seq(Entries \cup {Pad})
      BY <1>1, <1>2, <3>1
    <3> HIDE DEF e
    <3>3. Len(<<e>> \o s) = Len(s) + 1
      BY <1>1, <3>2, PrependFacts
    <3> QED
      BY <3>1, <3>3 DEF WidthWith, Headed, Row
  <2> HIDE DEF e
  <2>3. Len(Row(b, bucketOf[e])) \in Nat /\ width[b] \in Nat
    BY <1>1, <1>2
  <2>4. CASE b \in Candidates(e) /\ Len(Row(b, bucketOf[e])) + 1 > width[b]
    BY <1>1, <1>4, <2>1, <2>2, <2>3, <2>4
  <2>5. CASE ~(b \in Candidates(e) /\ Len(Row(b, bucketOf[e])) + 1 > width[b])
    <3>1. width'[b] = width[b]
      BY <2>1, <2>2, <2>5
    <3>2. PICK k \in Buckets: Len(Row(b, k)) = width[b]
      BY <1>6, <3>1 DEF InvR, RowsTight
    <3>3. ~(b \in Candidates(e) /\ k = bucketOf[e])
      BY <2>3, <2>5, <3>2
    <3> QED
      BY <1>4, <3>1, <3>2, <3>3
  <2> QED
    BY <2>4, <2>5
<1>7. RowsTight'
  <2> SUFFICES ASSUME NEW b \in TableBins, width'[b] > 0
               PROVE  \E k \in Buckets: Len(Row(b, k)') = width'[b] /\ Row(b, k)'[width'[b]] # Pad
    BY DEF RowsTight
  <2>1. PICK k \in Buckets: Len(Row(b, k)') = width'[b]
    BY <1>6
  <2>2. width'[b] \in Nat
    BY InsertRow DEF InvR
  <2>3. width'[b] \in 1 .. Len(Row(b, k)')
    BY <2>1, <2>2
  <2> QED
    BY <1>4, <2>1, <2>3
<1> QED
  BY <1>5, <1>7

\* Padding a bin makes its rows as long as its width, and touches no other bin.
LEMMA PadRectangular ==
  ASSUME InvR, PadBin
  PROVE  RowsPadded' /\ RowsTight'
<1>1. padded \in Nat /\ padded' = padded + 1 /\ UNCHANGED width /\ \A b \in TableBins: b \in Nat
  BY TableAssumption DEF PadBin, InvR, Inv, TypeOK, TableBins
<1>2. \A b \in TableBins, k \in Buckets:
        /\ Row(b, k)' = IF b = padded THEN Resize(Row(b, k), width[b]) ELSE Row(b, k)
        /\ Row(b, k) \in Seq(Entries \cup {Pad}) /\ Len(Row(b, k)) <= width[b] /\ width[b] \in Nat
  BY TableAssumption DEF PadBin, InvR, Inv, TypeOK, RowsFit, Row
<1>3. ASSUME NEW b \in TableBins, NEW k \in Buckets, b = padded
      PROVE  /\ Len(Row(b, k)') = width[b]
             /\ \A i \in 1 .. Len(Row(b, k)): Row(b, k)[i] # Pad /\ Row(b, k)'[i] = Row(b, k)[i]
             /\ \A i \in 1 .. width[b]: ~(i <= Len(Row(b, k))) => Row(b, k)'[i] = Pad
  <2>1. PICK s, w: s = Row(b, k) /\ w = width[b]
    OBVIOUS
  <2>2. s \in Seq(Entries \cup {Pad}) /\ Len(s) <= w /\ w \in Nat /\ Row(b, k)' = Resize(s, w)
    BY <1>2, <1>3, <2>1
  <2>3. \A i \in 1 .. Len(s): s[i] # Pad
    BY <1>1, <1>3, <2>1 DEF InvR, RowsPadded
  <2>4. Len(Resize(s, w)) = w /\ \A i \in 1 .. Len(s): Resize(s, w)[i] = s[i]
    BY <2>2, ResizeFacts
  <2>5. \A i \in 1 .. w: ~(i <= Len(s)) => Resize(s, w)[i] = Pad
    BY <2>2 DEF Resize
  <2> QED
    BY <2>1, <2>2, <2>3, <2>4, <2>5
<1>4. ASSUME NEW b \in TableBins, NEW k \in Buckets
      PROVE  /\ b < padded' => Len(Row(b, k)') = width'[b]
             /\ \A i \in 1 .. Len(Row(b, k)'): Row(b, k)'[i] = Pad =>
                  b < padded' /\ \A j \in i .. Len(Row(b, k)'): Row(b, k)'[j] = Pad
  <2>1. CASE b = padded
    <3>1. b < padded' /\ Len(Row(b, k)') = width'[b] /\ Len(Row(b, k)) \in Nat /\ width[b] \in Nat
      BY <1>1, <1>2, <1>3, <2>1
    <3>2. ASSUME NEW i \in 1 .. Len(Row(b, k)'), Row(b, k)'[i] = Pad, NEW j \in i .. Len(Row(b, k)')
          PROVE  Row(b, k)'[j] = Pad
      <4>1. ~(i <= Len(Row(b, k)))
        BY <1>3, <2>1, <3>1, <3>2
      <4>2. j \in 1 .. width[b] /\ ~(j <= Len(Row(b, k)))
        BY <1>1, <3>1, <4>1
      <4> QED
        BY <1>3, <2>1, <4>2
    <3> QED
      BY <3>1, <3>2
  <2>2. CASE b # padded
    <3>1. Row(b, k)' = Row(b, k) /\ (b < padded' <=> b < padded)
      BY <1>1, <1>2, <2>2
    <3> QED
      BY <1>1, <3>1 DEF InvR, RowsPadded
  <2> QED
    BY <2>1, <2>2
<1>5. RowsPadded'
  BY <1>4 DEF RowsPadded
<1>6. ASSUME NEW b \in TableBins, width'[b] > 0
      PROVE  \E k \in Buckets: Len(Row(b, k)') = width'[b] /\ Row(b, k)'[width'[b]] # Pad
  <2>1. PICK k \in Buckets: Len(Row(b, k)) = width[b] /\ Row(b, k)[width[b]] # Pad
    BY <1>1, <1>6 DEF InvR, RowsTight
  <2>2. width[b] \in 1 .. Len(Row(b, k)) /\ width'[b] = width[b]
    BY <1>1, <1>2, <1>6, <2>1
  <2>3. CASE b = padded
    BY <1>3, <2>1, <2>2, <2>3
  <2>4. CASE b # padded
    BY <1>2, <2>1, <2>2, <2>4
  <2> QED
    BY <2>3, <2>4
<1>7. RowsTight'
  BY <1>6 DEF RowsTight
<1> QED
  BY <1>5, <1>7

\* There is no padding, and no width, before the first entry.
LEMMA InitRectangular == Init => InvR
<1> SUFFICES ASSUME Init PROVE RowsPadded /\ RowsTight
  BY InitInv DEF InvR
<1>1. /\ padded = 0 /\ \A b \in TableBins: b \in Nat
      /\ \A b \in TableBins: width[b] = 0 /\ \A k \in Buckets: Row(b, k) = <<>>
  BY TableAssumption DEF Init, TableBins, Row
<1> QED
  BY <1>1 DEF RowsPadded, RowsTight

\* Insertions and padding keep the rectangles.
LEMMA NextRectangular == InvR /\ [Next]_vars => InvR'
<1>1. ASSUME InvR, UNCHANGED vars PROVE RowsPadded' /\ RowsTight'
  BY <1>1 DEF vars, InvR, RowsPadded, RowsTight, Row
<1> QED
  BY <1>1, NextInv, InsertRectangular, PadRectangular DEF InvR, Next, Terminated

\* Rows of one width, padded, are a rectangle.
LEMMA InvRectangular == InvR => Rectangular
BY DEF InvR, Inv, RowsFit, RowsPadded, RowsTight, Rectangular

\* A padded hashtable is a rectangle as wide as its fullest bucket and no
\* wider, with the padding behind the entries (hashtable.cc:19-30).
THEOREM TableRectangular == Spec => []Rectangular
<1> QED
  BY InitRectangular, NextRectangular, InvRectangular, PTL DEF Spec

\* The width is never smaller than a bucket, so padding cuts nothing off.
THEOREM TablePadKeepsEntries == Spec => PadKeepsEntries
<1>1. ASSUME Inv, [Next]_vars, NEW b \in TableBins, NEW k \in Buckets, inserted = NEntries
      PROVE  /\ Len(rows'[b][k]) >= Len(rows[b][k])
             /\ \A j \in 1 .. Len(rows[b][k]): rows'[b][k][j] = rows[b][k][j]
  <2>1. rows[b][k] \in Seq(Entries \cup {Pad})
    BY <1>1 DEF Inv, TypeOK
  <2>2. CASE PadBin
    BY <1>1, <2>1, <2>2, PadRow DEF Row
  <2>3. CASE UNCHANGED vars
    BY <2>1, <2>3 DEF vars
  <2>4. ~Insert
    BY <1>1, TableAssumption DEF Insert
  <2> QED
    BY <1>1, <2>2, <2>3, <2>4 DEF Next, Terminated
<1>2. Inv /\ [Next]_vars =>
        [\A b \in TableBins: \A k \in Buckets:
           inserted = NEntries =>
              /\ Len(rows'[b][k]) >= Len(rows[b][k])
              /\ \A j \in 1 .. Len(rows[b][k]): rows'[b][k][j] = rows[b][k][j]]_vars
  BY <1>1
<1> QED
  BY <1>2, TableInvariant, PTL DEF Spec, PadKeepsEntries
=============================================================================
