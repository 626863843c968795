---------------------------- MODULE CuckooTable ----------------------------
(***************************************************************************)
(* The server's tables: CuckooTable (src/src/cuckoo.cc) with a Hashtable   *)
(* (src/src/hashtable.cc) in each bin, filled with the encrypted dataset   *)
(* by Server::offline (src/src/server.cc:40-54) and then padded.  With a   *)
(* cuckoo size of one there is one hashtable and no cuckoo hash is asked.  *)
(*                                                                         *)
(* An entry is HASH_3_SIZE bytes and stays whole, so a bucket is a         *)
(* sequence of entries and a width counts entries; Pad stands for the      *)
(* zero bytes of one entry.  Entries are numbered in the order they are    *)
(* inserted, and every choice of hash functions is an initial state.       *)
(***************************************************************************)
EXTENDS Integers, Sequences, FiniteSets

CONSTANTS NEntries,   \* encrypted elements
          NBins,      \* params.cuckoo_size
          NHashes,    \* params.cuckoo_hashes
          NBuckets    \* params.hashtable_size

ASSUME TableAssumption == /\ NEntries \in Nat
                          /\ NBins \in Nat \ {0}
                          /\ NHashes \in Nat \ {0}
                          /\ NBuckets \in Nat \ {0}

Entries     == 1 .. NEntries
TableBins   == 0 .. NBins - 1
HashNumbers == 0 .. NHashes - 1
Buckets     == 0 .. NBuckets - 1

Pad == 0

VARIABLES binOf,      \* cuckoo_hash: entry -> hash number -> bin
          bucketOf,   \* Hashtable::hash: entry -> bucket
          rows,       \* bin -> bucket -> sequence of entries
          width,      \* bin -> entries in its fullest bucket
          inserted,   \* entries inserted so far
          padded      \* bins padded so far

vars == <<binOf, bucketOf, rows, width, inserted, padded>>

-----------------------------------------------------------------------------
\* Mutant: only the first hash is used.
FirstBinOf(e) == IF NBins = 1 THEN {0} ELSE {binOf[e][0]}

\* The bins that take entry e.  Two hashes may give the same bin, which then
\* takes the entry once.
BinsOf(e) == IF NBins = 1 THEN {0} ELSE {binOf[e][h] : h \in HashNumbers}

Init ==
  /\ binOf \in [Entries -> [HashNumbers -> TableBins]]
  /\ bucketOf \in [Entries -> Buckets]
  /\ rows = [b \in TableBins |-> [k \in Buckets |-> <<>>]]
  /\ width = [b \in TableBins |-> 0]
  /\ inserted = 0
  /\ padded = 0

\* Mutant: a bin is not asked whether it already has the entry.
HeadedPerHash(b, e) ==
  [j \in 1 .. Cardinality({h \in HashNumbers: binOf[e][h] = b}) |-> e] \o rows[b][bucketOf[e]]

\* The bucket of entry e in bin b, with e put at its head.
Headed(b, e) == <<e>> \o rows[b][bucketOf[e]]

\* Mutant: the width is that of the bucket written last.
WidthOfLast(b, e) == Len(Headed(b, e))

WidthWith(b, e) == IF Len(Headed(b, e)) > width[b] THEN Len(Headed(b, e)) ELSE width[b]

\* CuckooTable::insert: each bin of the entry puts it at the head of its bucket.
Insert ==
  /\ inserted < NEntries
  /\ LET e == inserted + 1
     IN  /\ rows' = [b \in TableBins |-> [k \in Buckets |->
                       IF b \in BinsOf(e) /\ k = bucketOf[e]
                         THEN Headed(b, e) ELSE rows[b][k]]]
         /\ width' = [b \in TableBins |->
                       IF b \in BinsOf(e) THEN WidthWith(b, e) ELSE width[b]]
  /\ inserted' = inserted + 1
  /\ UNCHANGED <<binOf, bucketOf, padded>>

\* vector::resize: cut to the width, or fill up with zeros.
Resize(row, w) == [j \in 1 .. w |-> IF j <= Len(row) THEN row[j] ELSE Pad]

ToPad == padded < NBins

\* CuckooTable::pad, one hashtable at a time.
PadBin ==
  /\ inserted = NEntries
  /\ ToPad
  /\ rows' = [rows EXCEPT ![padded] = [k \in Buckets |-> Resize(@[k], width[padded])]]
  /\ padded' = padded + 1
  /\ UNCHANGED <<binOf, bucketOf, width, inserted>>

Finished == padded = NBins

Terminated == Finished /\ UNCHANGED vars

Next == Insert \/ PadBin \/ Terminated

Spec == Init /\ [][Next]_vars /\ WF_vars(Next)

-----------------------------------------------------------------------------
\* Types.
TypeOK ==
  /\ binOf \in [Entries -> [HashNumbers -> TableBins]]
  /\ bucketOf \in [Entries -> Buckets]
  /\ rows \in [TableBins -> [Buckets -> Seq(Entries \cup {Pad})]]
  /\ width \in [TableBins -> 0 .. NEntries]
  /\ inserted \in 0 .. NEntries
  /\ padded \in 0 .. NBins

\* The bins entry e hashes to.
Candidates(e) == IF NBins = 1 THEN {0} ELSE {binOf[e][h] : h \in HashNumbers}

Row(b, k) == rows[b][k]

\* Each inserted entry is in every bin it hashes to, once and in its own
\* bucket, and in no other bin: missing it would lose a match of the client,
\* having it twice would count the match twice (cuckoo.cc:22-35,
\* client.go:203-208).
OncePerBin ==
  /\ \A e \in 1 .. inserted: \A b \in Candidates(e):
        \E j \in 1 .. Len(Row(b, bucketOf[e])): Row(b, bucketOf[e])[j] = e
  /\ \A b \in TableBins: \A k \in Buckets: \A j \in 1 .. Len(Row(b, k)):
        LET e == Row(b, k)[j]
        IN  e # Pad =>
              /\ e <= inserted /\ b \in Candidates(e) /\ k = bucketOf[e]
              /\ \A i \in 1 .. Len(Row(b, k)): Row(b, k)[i] = e => i = j

\* A padded hashtable is a rectangle as wide as its fullest bucket and no
\* wider; padding follows the entries, and there is none before pad().
Rectangular ==
  \A b \in TableBins:
     /\ \A k \in Buckets:
          /\ Len(Row(b, k)) <= width[b]
          /\ b < padded => Len(Row(b, k)) = width[b]
          /\ \A i \in 1 .. Len(Row(b, k)): Row(b, k)[i] = Pad =>
                b < padded /\ \A j \in i .. Len(Row(b, k)): Row(b, k)[j] = Pad
     /\ width[b] > 0 =>
          \E k \in Buckets: Len(Row(b, k)) = width[b] /\ Row(b, k)[width[b]] # Pad

\* Padding never cuts an entry off: resize() would, were the width ever
\* smaller than a bucket.
PadKeepsEntries ==
  [][\A b \in TableBins: \A k \in Buckets:
        inserted = NEntries =>
           /\ Len(rows'[b][k]) >= Len(rows[b][k])
           /\ \A j \in 1 .. Len(rows[b][k]): rows'[b][k][j] = rows[b][k][j]]_vars
=============================================================================
