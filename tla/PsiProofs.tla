----------------------------- MODULE PsiProofs -----------------------------
(***************************************************************************)
(* Theorems about the whole protocol, for every dataset, every number of   *)
(* bins, hashes and buckets and every cuckoo hash: the count is right      *)
(* after every response, a run fails only for a reason known before the    *)
(* first query, and every step is one of the ideal intersection or shows   *)
(* nothing.  What the tables and the vector keep is taken from the         *)
(* theorems about them.                                                    *)
(***************************************************************************)
EXTENDS Psi, FiniteSetTheorems, TLAPS

Table == INSTANCE CuckooTableProofs
           WITH NEntries <- NServer,
                binOf <- [e \in 1 .. NServer |-> hashes[serverOf[e]]],
                bucketOf <- [e \in 1 .. NServer |-> bucket[serverOf[e]]]

Vector == INSTANCE CuckooVectorProofs
            WITH NItems <- NClient, table <- slots, phase <- filling,
                 hashOf <- [i \in 1 .. NClient |-> hashes[results[i].of]]

-----------------------------------------------------------------------------
\* Facts of arithmetic and of counting.

\* Quotient and remainder.
LEMMA Divided ==
  ASSUME NEW a \in Nat, NEW w \in Nat \ {0}
  PROVE  /\ a \div w \in Nat /\ a % w \in 0 .. w - 1
         /\ a = w * (a \div w) + (a % w)
OBVIOUS

\* Multiples of w are w apart.
LEMMA Apart ==
  ASSUME NEW w \in Nat \ {0}, NEW p \in Nat, NEW q \in Nat, p < q
  PROVE  w * p + w <= w * q
<1>1. PICK d \in Nat \ {0}: q = p + d
  <2>1. q - p \in Nat \ {0} /\ q = p + (q - p)
    OBVIOUS
  <2> QED
    BY <2>1
<1>2. w * q = w * p + w * d
  BY <1>1
<1>3. w <= w * d
  OBVIOUS
<1> QED
  BY <1>2, <1>3

\* The quotient and the remainder are the only ones.
LEMMA Quotient ==
  ASSUME NEW w \in Nat \ {0}, NEW q \in Nat, NEW r \in 0 .. w - 1
  PROVE  (w * q + r) \div w = q /\ (w * q + r) % w = r
<1>1. PICK p \in Nat, s \in 0 .. w - 1:
        p = (w * q + r) \div w /\ s = (w * q + r) % w /\ w * q + r = w * p + s
  <2>1. w * q + r \in Nat
    OBVIOUS
  <2> QED
    BY <2>1, Divided
<1>2. ~(p < q)
  <2>1. p < q => w * p + w <= w * q
    BY Apart
  <2> QED
    BY <1>1, <2>1
<1>3. ~(q < p)
  <2>1. q < p => w * q + w <= w * p
    BY Apart
  <2> QED
    BY <1>1, <2>1
<1> QED
  BY <1>1, <1>2, <1>3

\* A function that pairs the members of two sets off shows them equally large.
LEMMA PairedOff ==
  ASSUME NEW S, NEW T, IsFiniteSet(S), NEW f \in [S -> T],
         \A a, b \in S: f[a] = f[b] => a = b,
         \A t \in T: \E s \in S: f[s] = t
  PROVE  IsFiniteSet(T) /\ Cardinality(T) = Cardinality(S)
<1>1. f \in Bijection(S, T)
  BY DEF Bijection, Injection, Surjection, IsInjective
<1> QED
  BY <1>1, FS_Bijection DEF ExistsBijection

-----------------------------------------------------------------------------
\* Columns that hold all buckets hold the same number of them.
LEMMA ColumnsDivide ==
  ASSUME NEW w \in Nat \ {0}, NEW n \in Nat \ {0}, NEW size \in Nat
  PROVE  /\ ((size * w) \div (n * w)) * (n * w) >= size * w <=> size % n = 0
         /\ size % n = 0 => \A k \in 0 .. size - 1: \A m \in 0 .. n - 1: (k \div n) * n + m \in 0 .. size - 1
<1>1. PICK q \in Nat, s \in 0 .. n - 1: q = size \div n /\ s = size % n /\ size = n * q + s
  BY Divided
<1>2. n * w \in Nat \ {0}
  OBVIOUS
<1>3. size * w = (n * w) * q + s * w /\ s * w \in 0 .. n * w - 1
  <2>1. size * w = (n * q) * w + s * w /\ (n * q) * w = (n * w) * q
    BY <1>1
  <2>2. w * s + w <= w * n
    BY Apart
  <2>3. w * s \in Nat /\ w * s = s * w /\ w * n = n * w
    OBVIOUS
  <2> QED
    BY <2>1, <2>2, <2>3
<1>4. PICK v \in Nat \ {0}: v = n * w
  BY <1>2
<1>5. PICK t \in 0 .. v - 1: t = s * w
  BY <1>3, <1>4
<1>6. (v * q + t) \div v = q
  BY Quotient
<1>7. t = 0 <=> s = 0
  BY <1>5
<1>8. ((size * w) \div (n * w)) * (n * w) >= size * w <=> size % n = 0
  <2>1. q * v = v * q /\ v * q \in Nat
    OBVIOUS
  <2>2. size * w = v * q + t
    BY <1>3, <1>4, <1>5
  <2>3. ((size * w) \div (n * w)) * (n * w) = v * q
    BY <1>4, <1>6, <2>1, <2>2
  <2> QED
    BY <1>1, <1>7, <2>1, <2>2, <2>3
<1>9. ASSUME s = 0, NEW k \in 0 .. size - 1, NEW m \in 0 .. n - 1
      PROVE  (k \div n) * n + m \in 0 .. size - 1
  <2>1. PICK c \in Nat, d \in 0 .. n - 1: c = k \div n /\ d = k % n /\ k = n * c + d
    BY Divided
  <2>2. c < q
    <3>1. q < c => n * q + n <= n * c
      BY Apart
    <3> QED
      BY <1>1, <1>9, <2>1, <3>1
  <2>3. n * c + n <= n * q
    BY <2>2, Apart
  <2>4. c * n = n * c /\ n * c \in Nat
    OBVIOUS
  <2> QED
    BY <1>1, <1>9, <2>1, <2>3, <2>4
<1> QED
  BY <1>1, <1>8, <1>9

\* Where entry r of column c is in its table, for columns of h entries.
Position(h, c, r) == c * h + r - 1

\* Columns of h entries hold n buckets of w entries, and column c holds bucket k.
Stacked(w, n, h, k, c) == h = n * w /\ c = k \div n

\* With buckets of w entries stacked n to a column, all of the column that
\* holds bucket k is in the table.
LEMMA ColumnEntry ==
  ASSUME NEW w \in Nat \ {0}, NEW n \in Nat \ {0}, NEW h \in Nat, h = n * w,
         NEW size \in Nat, size % n = 0, NEW k \in 0 .. size - 1,
         NEW c \in Nat, c = k \div n, NEW r \in 1 .. h
  PROVE  /\ Position(h, c, r) \in Nat
         /\ Position(h, c, r) \div w \in 0 .. size - 1
         /\ Position(h, c, r) % w \in 0 .. w - 1
<1>1. PICK q \in Nat, s \in 0 .. w - 1: q = (r - 1) \div w /\ s = (r - 1) % w /\ r - 1 = w * q + s
  <2>1. r - 1 \in Nat
    OBVIOUS
  <2> QED
    BY <2>1, Divided
<1>2. Position(h, c, r) = w * (c * n + q) + s /\ c * n + q \in Nat
  <2>1. c * h = w * (c * n) /\ c * n \in Nat /\ c * h \in Nat
    OBVIOUS
  <2>2. w * (c * n + q) = w * (c * n) + w * q /\ w * q \in Nat
    BY <2>1
  <2> QED
    BY <1>1, <2>1, <2>2 DEF Position
<1>3. q \in 0 .. n - 1
  <2>1. n <= q => w * n <= w * q
    BY Apart
  <2>2. w * n = h /\ w * q \in Nat
    OBVIOUS
  <2> QED
    BY <1>1, <2>1, <2>2
<1>4. PICK m \in Nat: m = c * n + q
  BY <1>2
<1>5. (w * m + s) \div w = m /\ w * m + s \in Nat /\ (w * m + s) % w = s
  BY Quotient
<1>6. m \in 0 .. size - 1
  BY <1>3, <1>4, ColumnsDivide
<1> QED
  BY <1>2, <1>4, <1>5, <1>6

\* Entry j of bucket k is in column k \div n.
LEMMA BucketEntry ==
  ASSUME NEW w \in Nat \ {0}, NEW n \in Nat \ {0}, NEW h \in Nat,
         NEW k \in Nat, NEW c \in Nat, Stacked(w, n, h, k, c), NEW j \in 1 .. w
  PROVE  \E r \in 1 .. h: Position(h, c, r) \div w = k /\ Position(h, c, r) % w = j - 1
<1>1. PICK s \in 0 .. n - 1: k = n * c + s /\ h = n * w
  BY Divided, ZenonT(40) DEF Stacked
<1> DEFINE r == w * s + j
<1>2. Position(h, c, r) = w * k + (j - 1) /\ j - 1 \in 0 .. w - 1
  <2>1. c * h = w * (n * c) /\ n * c \in Nat /\ w * (n * c) \in Nat
    BY <1>1
  <2>2. w * (n * c + s) = w * (n * c) + w * s /\ w * s \in Nat
    BY <2>1
  <2>3. w * k = c * h + w * s
    BY <1>1, <2>1, <2>2
  <2> QED
    BY <2>1, <2>2, <2>3 DEF Position
<1>3. r \in 1 .. h
  <2>1. w * s + w <= w * n
    BY Apart
  <2>2. w * s \in Nat /\ w * n = h
    BY <1>1
  <2> QED
    BY <2>1, <2>2
<1> HIDE DEF r
<1>4. (w * k + (j - 1)) \div w = k /\ (w * k + (j - 1)) % w = j - 1
  BY <1>2, Quotient
<1> QED
  BY <1>2, <1>3, <1>4

-----------------------------------------------------------------------------
\* The inductive invariant.  The count alone is not one: it is right only as
\* long as the tables hold every entry once in its place, the vector every
\* item once in a bin of its own, and what was exchanged is where the stages
\* of the two processes say it is.

Typed ==
  /\ clientOf \in Datasets(NClient) /\ serverOf \in Datasets(NServer)
  /\ hashes \in [Element -> [0 .. NHashes - 1 -> Bins]]
  /\ bucket \in [Element -> 0 .. NBuckets - 1]

\* The client's points, in the order of its items, under the keys given.
PointsUnder(keys) == [i \in 1 .. NClient |-> [of |-> clientOf[i], under |-> keys]]

AfterOprf == {"vector", "pir", "done", "failed"}

\* What is on the channel is what the stages of the two say.
Exchanged ==
  /\ stage \in {"offline", "ready", "oprf"} \cup AfterOprf
  /\ serverStage = "offline" \/ (serverStage \in {"online", "written"} /\ padded = NBins)
  /\ stage \in {"offline", "ready"} =>
        /\ serverStage # "written" /\ toServer = <<>>
        /\ toClient = IF serverStage = "offline" THEN <<>> ELSE <<Ready>>
  /\ stage = "ready" => encrypted = PointsUnder({"client"})
  /\ stage = "oprf" =>
        \/ /\ serverStage = "online"
           /\ toServer = <<PointsUnder({"client"})>> /\ toClient = <<>>
        \/ /\ serverStage = "written"
           /\ toServer = <<>> /\ toClient = <<PointsUnder({"client", "server"})>>
  /\ stage \in AfterOprf => serverStage = "written" /\ results = PointsUnder({"server"})

\* The vector is untouched up to its turn, and split when PIR begins.
Walked ==
  NBins > 1 =>
    /\ stage \in {"offline", "ready", "oprf"} =>
         /\ slots = [b \in Bins |-> Client!Empty] /\ queried = [b \in Bins |-> Client!Empty]
         /\ attemps = 0
         /\ IF NClient = 0 THEN next = 0 /\ hand = Client!Empty /\ filling = "split"
                           ELSE next = 1 /\ hand = 1 /\ filling = "insert"
    /\ stage = "vector" => Vector!Inv /\ filling \in {"insert", "split"}
    /\ stage \in {"pir", "done"} => Vector!Inv /\ filling = "done"

\* The places of a set of items and of the entries that equal them.
Pairs(A) == {m \in A \X (1 .. NServer): clientOf[m[1]] = serverOf[m[2]]}

Tally ==
  /\ answered \in 0 .. NQueries
  /\ stage \notin {"pir", "done"} => answered = 0
  /\ stage = "done" => answered = NQueries
  /\ found = Cardinality(Pairs(AskedAbout(answered)))

Inv == Typed /\ Table!InvR /\ Exchanged /\ Walked /\ Tally /\ FailsForAReason

-----------------------------------------------------------------------------
\* The assumptions of the two components.
LEMMA Components == Table!TableAssumption /\ Vector!ConstantsAssumption
BY PsiAssumption DEF Table!TableAssumption, Vector!ConstantsAssumption

\* A step of the server's tables is one of CuckooTable, and Finished is that
\* all bins are padded.
LEMMA TableStep ==
  ASSUME Table!InvR, UNCHANGED inputs, Server!Insert \/ Server!PadBin
  PROVE  Table!InvR' /\ (Server!Finished' <=> padded' = NBins)
<1>1. Server!Insert => Table!Insert
  BY DEF Server!Insert, Table!Insert, Server!BinsOf, Table!BinsOf, Server!Headed, Table!Headed,
         Server!WidthWith, Table!WidthWith, Server!TableBins, Table!TableBins,
         Server!Buckets, Table!Buckets, Server!HashNumbers, Table!HashNumbers
<1>2. Server!PadBin => Table!PadBin
  BY DEF Server!PadBin, Table!PadBin, Server!ToPad, Table!ToPad, Server!Resize, Table!Resize,
         Server!Pad, Table!Pad, Server!Buckets, Table!Buckets
<1>3. Table!InvR'
  BY <1>1, <1>2, Components, Table!NextRectangular DEF Table!Next
<1> QED
  BY <1>3 DEF Server!Finished

\* Whatever leaves the datasets, the hashes and the tables alone keeps them.
LEMMA TableRests ==
  ASSUME Table!InvR, UNCHANGED <<inputs, tableVars>>
  PROVE  Table!InvR'
<1>1. UNCHANGED Table!vars
  BY DEF Table!vars, inputs, tableVars
<1> QED
  BY <1>1, Components, Table!NextRectangular

\* The walk of the client is one of CuckooVector.
LEMMA VectorStep ==
  ASSUME Vector!Inv, UNCHANGED inputs, UNCHANGED results,
         \/ \E h \in 0 .. NHashes - 1: Client!Place(h) \/ Client!Evict(h)
         \/ Client!Throw \/ Client!Split
  PROVE  Vector!Inv'
<1>1. \A h \in 0 .. NHashes - 1: Client!Place(h) => Vector!Place(h)
  BY DEF Client!Place, Vector!Place, Client!GoesOn, Vector!GoesOn, Client!Free, Vector!Free,
         Client!Bin, Vector!Bin, Client!Empty, Vector!Empty, Client!HashNumber, Vector!HashNumber,
         Client!Proceed, Vector!Proceed
<1>2. \A h \in 0 .. NHashes - 1: Client!Evict(h) => Vector!Evict(h)
  BY DEF Client!Evict, Vector!Evict, Client!GoesOn, Vector!GoesOn, Client!Free, Vector!Free,
         Client!Bin, Vector!Bin, Client!Empty, Vector!Empty, Client!HashNumber, Vector!HashNumber,
         Client!Swapped, Vector!Swapped, Client!Counted, Vector!Counted
<1>3. Client!Throw \/ Client!Split => Vector!Throw \/ Vector!Split
  BY DEF Client!Throw, Vector!Throw, Client!Split, Vector!Split, Client!GoesOn, Vector!GoesOn
<1>4. Vector!Next
  BY <1>1, <1>2, <1>3 DEF Vector!Next, Vector!HashNumber
<1> QED
  BY <1>4, Components, Vector!NextInv

\* A step that leaves the vector alone keeps its invariant.
LEMMA VectorRests ==
  ASSUME Vector!Inv, UNCHANGED <<inputs, vectorVars, results>>
  PROVE  Vector!Inv'
<1>1. UNCHANGED Vector!vars
  BY DEF Vector!vars, inputs, vectorVars
<1> QED
  BY <1>1, Components, Vector!NextInv

-----------------------------------------------------------------------------
\* What PIR finds in the tables.

\* What a sequence over S holds is in S.
LEMMA EntryOf ==
  ASSUME NEW S, NEW s \in Seq(S), NEW j \in 1 .. Len(s)
  PROVE  s[j] \in S
OBVIOUS

\* The written tables: rows as wide as their table, each entry once in each
\* bin it hashes to and only in its own bucket.
LEMMA TablesWritten ==
  ASSUME Typed, Table!InvR, padded = NBins
  PROVE  /\ inserted = NServer
         /\ \A b \in Bins: width[b] \in Nat
         /\ \A b \in Bins, k \in 0 .. NBuckets - 1:
              rows[b][k] \in Seq(0 .. NServer) /\ Len(rows[b][k]) = width[b]
         /\ \A b \in Bins, e \in 1 .. NServer: b \in Server!Candidates(e) =>
              \E j \in 1 .. width[b]: rows[b][bucket[serverOf[e]]][j] = e
         /\ \A b \in Bins, k \in 0 .. NBuckets - 1: \A j \in 1 .. width[b]:
              rows[b][k][j] # 0 =>
                /\ rows[b][k][j] \in 1 .. NServer
                /\ k = bucket[serverOf[rows[b][k][j]]]
                /\ \A i \in 1 .. width[b]: rows[b][k][i] = rows[b][k][j] => i = j
<1>1. inserted = NServer
  BY PsiAssumption DEF Table!InvR, Table!Inv, Table!PadsLast
<1>2. \A b \in Bins: width[b] \in Nat /\ b < padded
  BY PsiAssumption DEF Table!InvR, Table!Inv, Table!TypeOK, Table!TableBins, Bins
<1>3. \A b \in Bins, k \in 0 .. NBuckets - 1: rows[b][k] \in Seq(0 .. NServer)
  <2>1. Table!Entries \cup {Table!Pad} = 0 .. NServer
    BY PsiAssumption DEF Table!Entries, Table!Pad
  <2>2. rows \in [Bins -> [0 .. NBuckets - 1 -> Seq(Table!Entries \cup {Table!Pad})]]
    BY DEF Table!InvR, Table!Inv, Table!TypeOK, Table!TableBins, Table!Buckets, Bins
  <2> QED
    BY <2>1, <2>2
<1>4. \A b \in Bins, k \in 0 .. NBuckets - 1: Len(rows[b][k]) = width[b]
  BY <1>2 DEF Table!InvR, Table!RowsPadded, Table!Row, Table!TableBins, Table!Buckets, Bins
<1>5. Table!OncePerBin
  BY Components, Table!InvOncePerBin DEF Table!InvR
<1>6. ASSUME NEW e \in 1 .. NServer
      PROVE  bucket[serverOf[e]] \in 0 .. NBuckets - 1 /\ Table!Candidates(e) = Server!Candidates(e)
  BY <1>6 DEF Typed, Datasets, Table!Candidates, Server!Candidates,
              Table!HashNumbers, Server!HashNumbers
<1>7. \A b \in Bins, e \in 1 .. NServer: b \in Server!Candidates(e) =>
        \E j \in 1 .. width[b]: rows[b][bucket[serverOf[e]]][j] = e
  BY <1>1, <1>4, <1>5, <1>6 DEF Table!OncePerBin, Table!Row
<1>8. ASSUME NEW b \in Bins, NEW k \in 0 .. NBuckets - 1, NEW j \in 1 .. width[b], rows[b][k][j] # 0
      PROVE  /\ rows[b][k][j] \in 1 .. NServer
             /\ k = bucket[serverOf[rows[b][k][j]]]
             /\ \A i \in 1 .. width[b]: rows[b][k][i] = rows[b][k][j] => i = j
  <2>1. PICK e: e = rows[b][k][j]
    OBVIOUS
  <2>2. e \in 1 .. NServer
    <3>1. PICK s \in Seq(0 .. NServer): s = rows[b][k] /\ Len(s) = width[b]
      BY <1>3, <1>4
    <3>2. s[j] \in 0 .. NServer
      BY <3>1, EntryOf
    <3>3. e \in 0 .. NServer /\ e # 0
      BY <1>8, <2>1, <3>1, <3>2
    <3> QED
      BY ONLY <3>3, PsiAssumption
  <2>3. /\ k = bucket[serverOf[e]]
        /\ \A i \in 1 .. Len(Table!Row(b, k)): Table!Row(b, k)[i] = e => i = j
    <3>1. b \in Table!TableBins /\ k \in Table!Buckets /\ j \in 1 .. Len(Table!Row(b, k))
          /\ Table!Row(b, k)[j] = e /\ e # Table!Pad
      BY <1>4, <1>8, <2>1 DEF Table!Row, Table!TableBins, Table!Buckets, Table!Pad, Bins
    <3>2. /\ k = [d \in 1 .. NServer |-> bucket[serverOf[d]]][e]
          /\ \A i \in 1 .. Len(Table!Row(b, k)): Table!Row(b, k)[i] = e => i = j
      BY <1>5, <3>1 DEF Table!OncePerBin
    <3> QED
      BY <2>2, <3>2
  <2> QED
    BY <1>4, <2>1, <2>2, <2>3 DEF Table!Row
<1> QED
  BY <1>1, <1>2, <1>3, <1>4, <1>7, <1>8

\* Queries are to bins; every item is asked about by one query, which goes to
\* a bin of the item.
LEMMA AskedItems ==
  ASSUME Typed, Exchanged, Walked, stage \in {"pir", "done"}
  PROVE  /\ NQueries \in Nat
         /\ \A i \in 0 .. NQueries - 1: BinAsked(i) \in Bins
         /\ \A i \in 0 .. NQueries - 1: ~Blank(i) =>
              /\ ItemAsked(i) \in 1 .. NClient
              /\ NBins > 1 => \E h \in 0 .. NHashes - 1: BinAsked(i) = hashes[clientOf[ItemAsked(i)]][h]
              /\ \A j \in 0 .. NQueries - 1: ~Blank(j) /\ ItemAsked(j) = ItemAsked(i) => j = i
         /\ \A x \in 1 .. NClient: \E i \in 0 .. NQueries - 1: ~Blank(i) /\ ItemAsked(i) = x
<1>1. CASE NBins = 1
  <2>1. /\ NQueries = NClient /\ 0 \in Bins
        /\ \A i \in 0 .. NClient - 1: BinAsked(i) = 0 /\ ItemAsked(i) = i + 1 /\ ~Blank(i)
    BY <1>1 DEF NQueries, BinAsked, ItemAsked, Blank, Bins
  <2>2. \A x \in 1 .. NClient: x - 1 \in 0 .. NClient - 1 /\ (x - 1) + 1 = x
    BY PsiAssumption
  <2> QED
    BY <1>1, <2>1, <2>2, PsiAssumption
<1>2. ASSUME NBins > 1
      PROVE  /\ NQueries = NBins /\ 0 .. NQueries - 1 = Bins
             /\ \A i \in Bins: BinAsked(i) = i
             /\ \A i \in Bins: ~Blank(i) =>
                  /\ ItemAsked(i) \in 1 .. NClient
                  /\ \E h \in 0 .. NHashes - 1: i = hashes[clientOf[ItemAsked(i)]][h]
                  /\ \A j \in Bins: ~Blank(j) /\ ItemAsked(j) = ItemAsked(i) => j = i
             /\ \A x \in 1 .. NClient: \E i \in Bins: ~Blank(i) /\ ItemAsked(i) = x
  <2>1. /\ NQueries = NBins /\ 0 .. NQueries - 1 = Bins
        /\ \A i \in Bins: BinAsked(i) = i /\ ItemAsked(i) = queried[i]
        /\ \A i \in Bins: Blank(i) <=> queried[i] = 0
    BY <1>2 DEF NQueries, BinAsked, ItemAsked, Blank, Bins, Client!Empty
  <2>2. Vector!Inv /\ filling = "done" /\ results = PointsUnder({"server"})
    BY <1>2 DEF Walked, Exchanged, AfterOprf
  <2>3. /\ queried = slots /\ queried \in [Bins -> (1 .. NClient) \cup {0}]
        /\ {queried[b]: b \in Bins} \ {0} = 1 .. NClient
        /\ \A b, c \in Bins: queried[b] = queried[c] /\ queried[b] # 0 => b = c
    BY <2>2 DEF Vector!Inv, Vector!TypeOK, Vector!Conserved, Vector!Contents, Vector!Items,
                Vector!Empty, Vector!Bins, Bins
  <2>4. ASSUME NEW i \in Bins, queried[i] # 0
        PROVE  queried[i] \in 1 .. NClient
               /\ \E h \in 0 .. NHashes - 1: i = hashes[clientOf[queried[i]]][h]
    <3>1. PICK x \in 1 .. NClient: x = queried[i] /\ x = slots[i]
      BY <2>3, <2>4
    <3>2. PICK h \in 0 .. NHashes - 1: i = [y \in 1 .. NClient |-> hashes[results[y].of]][x][h]
      BY <2>2, <2>4, <3>1 DEF Vector!Inv, Vector!PlacedAtOwnHash, Vector!Empty, Vector!HashNumber,
                              Vector!Bins, Bins
    <3>3. results[x].of = clientOf[x]
      BY <2>2 DEF PointsUnder
    <3> QED
      BY <3>1, <3>2, <3>3
  <2>5. \A x \in 1 .. NClient: \E i \in Bins: queried[i] # 0 /\ queried[i] = x
    BY <2>3
  <2> QED
    BY <2>1, <2>3, <2>4, <2>5
<1>3. NBins = 1 \/ (NBins > 1 /\ NBins \in Nat)
  BY PsiAssumption
<1> QED
  BY <1>1, <1>2, <1>3

\* The server's entries that equal element x.
EqualTo(x) == {e \in 1 .. NServer: serverOf[e] = x}

\* A query that is not blank finds the entries that equal its item, each once.
LEMMA Lookup ==
  ASSUME Typed, Table!InvR, Exchanged, Walked, stage = "pir",
         \A b \in Bins: DimsFit(b), NEW i \in 0 .. NQueries - 1, ~Blank(i)
  PROVE  /\ IsFiniteSet(Matches(i))
         /\ Cardinality(Matches(i)) = Cardinality(EqualTo(clientOf[ItemAsked(i)]))
<1>1. PICK b \in Bins, item \in 1 .. NClient, x \in Element:
        /\ b = BinAsked(i) /\ item = ItemAsked(i) /\ x = clientOf[item]
        /\ NBins > 1 => \E h \in 0 .. NHashes - 1: b = hashes[x][h]
  BY AskedItems DEF Typed, Datasets
<1>2. padded = NBins /\ results[item] = [of |-> x, under |-> {"server"}]
  BY <1>1 DEF Exchanged, AfterOprf, PointsUnder
<1>3. PICK k \in 0 .. NBuckets - 1: k = bucket[x]
  BY DEF Typed
<1>4. PICK w \in Nat \ {0}: w = width[b]
  BY <1>2, TablesWritten DEF DimsFit
<1>5. PICK n \in Nat \ {0}: n = BucketsPerCol
  BY PsiAssumption
<1>6. PICK c \in Nat, h \in Nat: c = k \div n /\ h = n * w
  <2>1. k \in Nat
    BY PsiAssumption
  <2>2. n * w \in Nat
    OBVIOUS
  <2> QED
    BY <2>1, <2>2, Divided
<1>7. NBuckets % n = 0 /\ NBuckets \in Nat
  BY <1>4, <1>5, ColumnsDivide, PsiAssumption DEF DimsFit, NColumns, Height
<1> DEFINE place(r) == Position(h, c, r)
           entry(r) == rows[b][place(r) \div w][(place(r) % w) + 1]
<1>0. Recovered(i) = [r \in 1 .. h |-> entry(r)]
  <2>1. Recovered(i) = Column(b, c)
    BY <1>1, <1>2, <1>3, <1>5, <1>6 DEF Recovered, Translated
  <2>2. Height(b) = h
    BY <1>4, <1>5, <1>6 DEF Height
  <2>3. \A r \in 1 .. h: FileEntry(b, c * h + r - 1) = entry(r)
    BY <1>4 DEF FileEntry, Position
  <2> QED
    BY <2>1, <2>2, <2>3 DEF Column
<1>8. \A r \in 1 .. h: /\ place(r) \in Nat
                       /\ place(r) \div w \in 0 .. NBuckets - 1
                       /\ (place(r) % w) + 1 \in 1 .. w
  <2> SUFFICES ASSUME NEW r \in 1 .. h
               PROVE  /\ place(r) \in Nat
                      /\ place(r) \div w \in 0 .. NBuckets - 1
                      /\ (place(r) % w) + 1 \in 1 .. w
    OBVIOUS
  <2>1. PICK d \in 0 .. w - 1: /\ place(r) \in Nat /\ d = place(r) % w
                              /\ place(r) \div w \in 0 .. NBuckets - 1
    BY <1>6, <1>7, ColumnEntry, ZenonT(40)
  <2>2. d + 1 \in 1 .. w
    OBVIOUS
  <2> QED
    BY <2>1, <2>2
<1>9. \A r \in 1 .. h: entry(r) # 0 =>
        /\ entry(r) \in 1 .. NServer
        /\ place(r) \div w = bucket[serverOf[entry(r)]]
        /\ \A j \in 1 .. w: rows[b][place(r) \div w][j] = entry(r) => j = (place(r) % w) + 1
  <2> SUFFICES ASSUME NEW r \in 1 .. h, entry(r) # 0
               PROVE  /\ entry(r) \in 1 .. NServer
                      /\ place(r) \div w = bucket[serverOf[entry(r)]]
                      /\ \A j \in 1 .. w: rows[b][place(r) \div w][j] = entry(r) =>
                            j = (place(r) % w) + 1
    OBVIOUS
  <2>1. PICK q \in 0 .. NBuckets - 1, j \in 1 .. w: q = place(r) \div w /\ j = (place(r) % w) + 1
    <3>1. place(r) \div w \in 0 .. NBuckets - 1 /\ (place(r) % w) + 1 \in 1 .. w
      BY <1>8
    <3> QED
      BY <3>1
  <2>2. rows[b][q][j] # 0 =>
          /\ rows[b][q][j] \in 1 .. NServer
          /\ q = bucket[serverOf[rows[b][q][j]]]
          /\ \A a \in 1 .. w: rows[b][q][a] = rows[b][q][j] => a = j
    <3>1. \A m \in 1 .. width[b]: rows[b][q][m] # 0 =>
            /\ rows[b][q][m] \in 1 .. NServer
            /\ q = bucket[serverOf[rows[b][q][m]]]
            /\ \A a \in 1 .. width[b]: rows[b][q][a] = rows[b][q][m] => a = m
      BY <1>2, TablesWritten
    <3> QED
      BY <1>4, <3>1
  <2> QED
    BY <2>1, <2>2
<1>10. Matches(i) = {r \in 1 .. h: entry(r) # 0 /\ serverOf[entry(r)] = x}
  <2>1. \A e: ServerResult(e) = [of |-> serverOf[e], under |-> {"server"}]
    BY SMTT(30) DEF ServerResult, Encrypted, Point
  <2>2. \A e: ServerResult(e) = results[item] <=> serverOf[e] = x
    BY <1>2, <2>1
  <2> HIDE DEF entry
  <2>3. Matches(i) = {r \in 1 .. h: entry(r) # 0 /\ ServerResult(entry(r)) = results[item]}
    BY <1>0, <1>1 DEF Matches, Server!Pad
  <2> QED
    BY <2>2, <2>3
<1> DEFINE f == [r \in Matches(i) |-> entry(r)]
<1>11. f \in [Matches(i) -> EqualTo(x)]
  BY <1>9, <1>10 DEF EqualTo
<1>12. ASSUME NEW r \in Matches(i), NEW s \in Matches(i), f[r] = f[s]
       PROVE  r = s
  <2>1. PICK e \in 1 .. NServer: e = entry(r) /\ e = entry(s) /\ e # 0
    BY <1>9, <1>10, <1>12
  <2>2. place(r) \div w = place(s) \div w
    BY <1>9, <1>10, <2>1
  <2>3. (place(r) % w) + 1 = (place(s) % w) + 1
    BY <1>8, <1>9, <1>10, <2>1, <2>2
  <2>4. PICK p \in Nat, q \in Nat: p = place(r) /\ q = place(s)
    BY <1>8, <1>10
  <2>5. p % w \in Nat /\ q % w \in Nat /\ p = w * (p \div w) + (p % w) /\ q = w * (q \div w) + (q % w)
    BY Divided
  <2>6. p % w = q % w
    <3>1. (p % w) + 1 = (q % w) + 1
      BY <2>3, <2>4
    <3> QED
      BY <2>5, <3>1
  <2>7. p = q
    BY <2>2, <2>4, <2>5, <2>6
  <2>8. c * h \in Nat /\ r \in Nat /\ s \in Nat
    BY <1>10
  <2> QED
    BY <2>4, <2>7, <2>8 DEF Position
<1>13. ASSUME NEW e \in EqualTo(x)
       PROVE  \E r \in Matches(i): f[r] = e
  <2>1. e \in 1 .. NServer /\ serverOf[e] = x
    BY DEF EqualTo
  <2>2. b \in Server!Candidates(e)
    BY <1>1, <2>1, PsiAssumption DEF Server!Candidates, Server!HashNumbers, Bins
  <2>3. PICK j \in 1 .. w: rows[b][k][j] = e
    <3>1. \E j \in 1 .. width[b]: rows[b][bucket[serverOf[e]]][j] = e
      BY <1>2, <2>1, <2>2, TablesWritten
    <3> QED
      BY <1>3, <1>4, <2>1, <3>1
  <2>4. PICK r \in 1 .. h: place(r) \div w = k /\ place(r) % w = j - 1
    <3>1. k \in Nat
      BY PsiAssumption
    <3>2. Stacked(w, n, h, k, c)
      BY <1>6 DEF Stacked
    <3> QED
      BY <3>1, <3>2, BucketEntry
  <2>5. entry(r) = e /\ e # 0
    BY <2>1, <2>3, <2>4
  <2> QED
    BY <1>10, <2>1, <2>4, <2>5
<1>14. IsFiniteSet(Matches(i))
  <2>1. IsFiniteSet(1 .. h)
    BY FS_Interval
  <2> QED
    BY <1>10, <2>1, FS_Subset
<1> HIDE DEF f
<1> QED
  BY <1>1, <1>11, <1>12, <1>13, <1>14, PairedOff

-----------------------------------------------------------------------------
\* The count.

\* One query more asks about one item more, unless it is a blank.
LEMMA AskedNext ==
  ASSUME Typed, Exchanged, Walked, stage = "pir", NEW n \in 0 .. NQueries - 1
  PROVE  /\ AskedAbout(n) \subseteq 1 .. NClient
         /\ AskedAbout(n + 1) = IF Blank(n) THEN AskedAbout(n) ELSE AskedAbout(n) \cup {ItemAsked(n)}
         /\ ~Blank(n) => ItemAsked(n) \in 1 .. NClient /\ ItemAsked(n) \notin AskedAbout(n)
<1>1. NQueries \in Nat /\ n \in Nat /\ 0 .. n - 1 \subseteq 0 .. NQueries - 1
      /\ 0 .. (n + 1) - 1 = (0 .. n - 1) \cup {n} /\ n \notin 0 .. n - 1
  BY AskedItems
<1>2. {j \in 0 .. (n + 1) - 1: ~Blank(j)} =
        {j \in 0 .. n - 1: ~Blank(j)} \cup (IF Blank(n) THEN {} ELSE {n})
  BY <1>1
<1>3. AskedAbout(n + 1) = IF Blank(n) THEN AskedAbout(n) ELSE AskedAbout(n) \cup {ItemAsked(n)}
  BY <1>2 DEF AskedAbout
<1>4. AskedAbout(n) \subseteq 1 .. NClient
  BY <1>1, AskedItems DEF AskedAbout
<1>5. ~Blank(n) => ItemAsked(n) \in 1 .. NClient /\ ItemAsked(n) \notin AskedAbout(n)
  BY <1>1, AskedItems DEF AskedAbout
<1> QED
  BY <1>3, <1>4, <1>5

\* The pairs that match are finitely many.
LEMMA PairsFinite ==
  ASSUME NEW A, A \subseteq 1 .. NClient
  PROVE  IsFiniteSet(A) /\ IsFiniteSet(Pairs(A)) /\ Cardinality(Pairs(A)) \in Nat
<1>1. IsFiniteSet(1 .. NClient) /\ IsFiniteSet(1 .. NServer)
  <2>1. 1 \in Int /\ NClient \in Int /\ NServer \in Int
    BY PsiAssumption
  <2> QED
    BY <2>1, FS_Interval
<1>2. IsFiniteSet(A)
  BY <1>1, FS_Subset
<1>3. IsFiniteSet(A \X (1 .. NServer))
  BY <1>1, <1>2, FS_Product
<1>4. Pairs(A) \in SUBSET (A \X (1 .. NServer))
  BY DEF Pairs
<1> QED
  BY <1>2, <1>3, <1>4, FS_Subset, FS_CardinalityType

\* One more item adds the entries that equal it.
LEMMA PairsAdd ==
  ASSUME NEW A, A \subseteq 1 .. NClient, NEW x \in 1 .. NClient, x \notin A
  PROVE  Cardinality(Pairs(A \cup {x})) = Cardinality(Pairs(A)) + Cardinality(EqualTo(clientOf[x]))
<1>1. Pairs(A \cup {x}) = Pairs(A) \cup Pairs({x}) /\ Pairs(A) \cap Pairs({x}) = {}
  BY DEF Pairs
<1>2. /\ IsFiniteSet(Pairs(A)) /\ IsFiniteSet(Pairs({x}))
      /\ Cardinality(Pairs(A)) \in Nat /\ Cardinality(Pairs({x})) \in Nat
  BY PairsFinite
<1>3. Cardinality(Pairs({x})) = Cardinality(EqualTo(clientOf[x]))
  <2> DEFINE f == [m \in Pairs({x}) |-> m[2]]
  <2>1. f \in [Pairs({x}) -> EqualTo(clientOf[x])]
    BY DEF Pairs, EqualTo
  <2>2. \A l, m \in Pairs({x}): f[l] = f[m] => l = m
    BY DEF Pairs
  <2>3. ASSUME NEW e \in EqualTo(clientOf[x]) PROVE \E m \in Pairs({x}): f[m] = e
    <3>1. <<x, e>> \in Pairs({x})
      BY DEF Pairs, EqualTo
    <3> QED
      BY <3>1
  <2> HIDE DEF f
  <2> QED
    BY <1>2, <2>1, <2>2, <2>3, PairedOff
<1>4. Cardinality(Pairs(A) \cap Pairs({x})) = 0
  BY <1>1, FS_EmptySet
<1>5. Cardinality(Pairs(A) \cup Pairs({x})) =
        Cardinality(Pairs(A)) + Cardinality(Pairs({x})) - Cardinality(Pairs(A) \cap Pairs({x}))
  BY <1>2, FS_Union
<1>6. Cardinality(Pairs(A \cup {x})) = Cardinality(Pairs(A) \cup Pairs({x}))
  BY <1>1
<1> QED
  BY <1>2, <1>3, <1>4, <1>5, <1>6

\* Before the first query no pair is counted.
LEMMA NothingAsked == AskedAbout(0) = {} /\ Cardinality(Pairs(AskedAbout(0))) = 0
<1>1. AskedAbout(0) = {}
  BY DEF AskedAbout
<1>2. Pairs({}) = {}
  BY DEF Pairs
<1> QED
  BY <1>1, <1>2, FS_EmptySet

-----------------------------------------------------------------------------
\* The invariant holds at first, and every step keeps it.

\* Nothing has been exchanged: the invariant holds.
LEMMA InitInv == Init => Inv
<1> SUFFICES ASSUME Init PROVE Inv
  OBVIOUS
<1>1. Typed
  BY DEF Init, Typed, Bins
<1>2. Table!InvR
  <2>1. Table!Init
    BY DEF Init, Datasets, Table!Init, Table!Entries, Table!HashNumbers, Table!TableBins,
           Table!Buckets, Bins
  <2> QED
    BY <2>1, Components, Table!InitRectangular
<1>3. Exchanged
  BY DEF Init, Exchanged, AfterOprf
<1>4. Walked
  BY DEF Init, Walked
<1>5. NQueries \in Nat
  BY PsiAssumption DEF NQueries
<1>6. Tally
  BY <1>5, NothingAsked DEF Init, Tally
<1> QED
  BY <1>1, <1>2, <1>3, <1>4, <1>6 DEF Inv, Init, FailsForAReason

\* Before PIR nothing is counted.
LEMMA TallyRests ==
  ASSUME Tally, stage \notin {"pir", "done"}, stage' # "done", UNCHANGED countVars
  PROVE  Tally'
<1>1. NQueries' = NQueries /\ NQueries \in Nat
  BY PsiAssumption DEF NQueries
<1>2. answered = 0 /\ found = 0 /\ answered' = 0 /\ found' = 0
  BY NothingAsked DEF Tally, countVars
<1>3. (Cardinality(Pairs(AskedAbout(0))) = 0)'
  BY NothingAsked, PTL
<1>4. Cardinality(Pairs(AskedAbout(answered)))' = 0
  BY <1>2, <1>3 DEF Pairs, AskedAbout
<1> QED
  BY <1>1, <1>2, <1>4 DEF Tally

\* The types of the inputs are kept where the inputs are.
LEMMA TypedRests ==
  ASSUME Typed, UNCHANGED inputs
  PROVE  Typed'
BY DEF Typed, inputs, Datasets

\* Server::offline: one entry or one bin at a time; the last one tells the client.
LEMMA FillTablesInv == ASSUME Inv, FillTables PROVE Inv'
<1>1. /\ serverStage = "offline" /\ stage \in {"offline", "ready"} /\ toClient = <<>>
      /\ stage' = stage /\ toServer' = toServer /\ encrypted' = encrypted /\ filling' = filling
      /\ UNCHANGED inputs /\ UNCHANGED countVars /\ UNCHANGED vectorVars
  BY DEF Inv, Exchanged, AfterOprf, FillTables, vectorVars
<1>2. Table!InvR' /\ (Server!Finished' <=> padded' = NBins)
  BY <1>1, TableStep DEF Inv, FillTables
<1>3. Exchanged'
  <2>1. CASE Server!Finished'
    <3>1. serverStage' = "online" /\ toClient' = <<Ready>>
      BY <1>1, <2>1 DEF FillTables
    <3> QED
      BY <1>1, <1>2, <2>1, <3>1 DEF Inv, Exchanged, AfterOprf, PointsUnder, inputs
  <2>2. CASE ~Server!Finished'
    <3>1. serverStage' = serverStage /\ toClient' = toClient
      BY <1>1, <2>2 DEF FillTables
    <3> QED
      BY <1>1, <3>1 DEF Inv, Exchanged, AfterOprf, PointsUnder, inputs
  <2> QED
    BY <2>1, <2>2
<1>4. Walked'
  BY <1>1 DEF Inv, Walked, vectorVars
<1>5. Typed' /\ Tally'
  BY <1>1, TypedRests, TallyRests DEF Inv
<1> QED
  BY <1>1, <1>2, <1>3, <1>4, <1>5 DEF Inv, FailsForAReason

\* Client::offline.
LEMMA EncryptDatasetInv == ASSUME Inv, EncryptDataset PROVE Inv'
<1>1. /\ stage = "offline" /\ stage' = "ready"
      /\ UNCHANGED <<inputs, tableVars, vectorVars, toServer, toClient, serverStage, results, countVars>>
      /\ UNCHANGED <<padded, clientOf, slots, queried, attemps, next, hand, filling>>
  BY DEF EncryptDataset, tableVars, inputs, vectorVars
<1>2. encrypted' = PointsUnder({"client"})
  <2>1. \A e: Encrypted(Point(e), "client") = [of |-> e, under |-> {"client"}]
    BY DEF Encrypted, Point
  <2> QED
    BY <2>1 DEF EncryptDataset, PointsUnder
<1>3. Exchanged'
  BY <1>1, <1>2 DEF Inv, Exchanged, AfterOprf, PointsUnder
<1>4. Walked'
  BY <1>1 DEF Inv, Walked
<1>5. Typed' /\ Tally' /\ Table!InvR'
  BY <1>1, TypedRests, TallyRests, TableRests DEF Inv
<1> QED
  BY <1>1, <1>3, <1>4, <1>5 DEF Inv, FailsForAReason

\* The client has the ready byte.
LEMMA RequestInv == ASSUME Inv, Request PROVE Inv'
<1>1. /\ stage = "ready" /\ stage' = "oprf"
      /\ UNCHANGED <<inputs, tableVars, vectorVars, encrypted, serverStage, results, countVars>>
      /\ UNCHANGED <<padded, clientOf, slots, queried, attemps, next, hand, filling>>
  BY DEF Request, tableVars, inputs, vectorVars
<1>2. /\ serverStage = "online" /\ toServer = <<>> /\ toClient = <<Ready>>
      /\ encrypted = PointsUnder({"client"}) /\ padded = NBins
  BY <1>1 DEF Inv, Exchanged, Request
<1>3. toClient' = <<>> /\ toServer' = <<PointsUnder({"client"})>>
  BY <1>2 DEF Request
<1>4. Exchanged'
  BY <1>1, <1>2, <1>3 DEF Exchanged, AfterOprf, PointsUnder
<1>5. Walked'
  BY <1>1 DEF Inv, Walked
<1>6. Typed' /\ Tally' /\ Table!InvR'
  BY <1>1, TypedRests, TallyRests, TableRests DEF Inv
<1> QED
  BY <1>1, <1>4, <1>5, <1>6 DEF Inv, FailsForAReason

\* Server::online.
LEMMA RespondInv == ASSUME Inv, Respond PROVE Inv'
<1>1. /\ serverStage = "online" /\ serverStage' = "written"
      /\ UNCHANGED <<inputs, tableVars, vectorVars, encrypted, results, stage, countVars>>
      /\ UNCHANGED <<padded, clientOf, slots, queried, attemps, next, hand, filling>>
  BY DEF Respond, tableVars, inputs, vectorVars
<1>2. /\ stage = "oprf" /\ toServer = <<PointsUnder({"client"})>> /\ toClient = <<>>
      /\ padded = NBins
  BY <1>1 DEF Inv, Exchanged, AfterOprf, Respond
<1>3. toServer' = <<>> /\ toClient' = <<PointsUnder({"client", "server"})>>
  <2>1. Head(toServer) = PointsUnder({"client"}) /\ Tail(toServer) = <<>>
    BY <1>2
  <2>2. [i \in DOMAIN PointsUnder({"client"}) |-> Encrypted(PointsUnder({"client"})[i], "server")]
          = PointsUnder({"client", "server"})
    BY DEF PointsUnder, Encrypted
  <2> QED
    BY <1>2, <2>1, <2>2 DEF Respond
<1>4. Exchanged'
  BY <1>1, <1>2, <1>3 DEF Exchanged, AfterOprf, PointsUnder
<1>5. Walked'
  BY <1>1, <1>2 DEF Inv, Walked
<1>6. Typed' /\ Tally' /\ Table!InvR'
  BY <1>1, <1>2, TypedRests, TallyRests, TableRests DEF Inv
<1> QED
  BY <1>1, <1>2, <1>4, <1>5, <1>6 DEF Inv, FailsForAReason

\* Client::online with the response: the vector's turn, if there are bins.
LEMMA DecryptInv == ASSUME Inv, Decrypt PROVE Inv'
<1>1. /\ stage = "oprf" /\ stage' = "vector"
      /\ UNCHANGED <<inputs, tableVars, vectorVars, encrypted, toServer, serverStage, countVars>>
      /\ UNCHANGED <<padded, clientOf, hashes, slots, queried, attemps, next, hand, filling>>
  BY DEF Decrypt, tableVars, inputs, vectorVars
<1>2. /\ serverStage = "written" /\ toClient = <<PointsUnder({"client", "server"})>>
      /\ padded = NBins
  BY <1>1 DEF Inv, Exchanged, Decrypt
<1>3. results' = PointsUnder({"server"})
  <2>1. Head(toClient) = PointsUnder({"client", "server"})
    BY <1>2
  <2>2. [i \in DOMAIN PointsUnder({"client", "server"}) |-> Unblinded(PointsUnder({"client", "server"})[i])]
          = PointsUnder({"server"})
    <3>1. {"client", "server"} \ {"client"} = {"server"}
      OBVIOUS
    <3> QED
      BY <3>1 DEF PointsUnder, Unblinded
  <2> QED
    BY <2>1, <2>2 DEF Decrypt
<1>4. Exchanged'
  BY <1>1, <1>2, <1>3 DEF Exchanged, AfterOprf, PointsUnder
<1>5. Walked'
  <2> SUFFICES ASSUME NBins > 1 PROVE Vector!Inv' /\ filling' \in {"insert", "split"}
    BY <1>1 DEF Walked
  <2>1. [i \in 1 .. NClient |-> hashes[results[i].of]]' \in [1 .. NClient -> [0 .. NHashes - 1 -> Bins]]
    <3>1. \A i \in 1 .. NClient: results'[i].of = clientOf[i] /\ clientOf[i] \in Element
      BY <1>3 DEF PointsUnder, Inv, Typed, Datasets
    <3> QED
      BY <1>1, <3>1 DEF Inv, Typed
  <2>2. Vector!Init'
    BY <1>1, <2>1 DEF Inv, Walked, Vector!Init, Vector!Items, Vector!HashNumber, Vector!Bins,
                      Vector!Empty, Client!Empty, Bins
  <2>3. Vector!Inv'
    BY <2>2, Components, Vector!InitInv, PTL
  <2> QED
    BY <1>1, <2>3 DEF Inv, Walked
<1>6. Typed' /\ Tally' /\ Table!InvR'
  BY <1>1, TypedRests, TallyRests, TableRests DEF Inv
<1> QED
  BY <1>1, <1>4, <1>5, <1>6 DEF Inv, FailsForAReason

\* The rest of Client::online.
LEMMA FillVectorInv == ASSUME Inv, FillVector PROVE Inv'
<1>1. /\ stage = "vector" /\ NBins > 1 /\ stage' \in {"vector", "pir", "failed"}
      /\ stage' = IF filling' = "thrown" THEN "failed" ELSE IF filling' = "done" THEN "pir" ELSE stage
      /\ UNCHANGED <<inputs, tableVars, oprfVars, countVars>>
      /\ UNCHANGED <<padded, clientOf, toServer, toClient, encrypted, serverStage, results>>
  BY DEF FillVector, tableVars, inputs, oprfVars
<1>2. Vector!Inv'
  BY <1>1, VectorStep DEF Inv, Walked, FillVector
<1>3. filling' \in {"insert", "split", "done", "thrown"}
  BY <1>2 DEF Vector!Inv, Vector!TypeOK
<1>4. Walked'
  BY <1>1, <1>2, <1>3 DEF Walked
<1>5. Exchanged'
  BY <1>1 DEF Inv, Exchanged, AfterOprf, PointsUnder
<1>6. Typed' /\ Tally' /\ Table!InvR'
  BY <1>1, TypedRests, TallyRests, TableRests DEF Inv
<1>7. FailsForAReason'
  BY <1>1 DEF FailsForAReason
<1> QED
  BY <1>4, <1>5, <1>6, <1>7 DEF Inv

\* Without cuckoo hashing the vector is skipped.
LEMMA SkipVectorInv == ASSUME Inv, SkipVector PROVE Inv'
<1>1. /\ stage = "vector" /\ NBins = 1 /\ stage' = "pir"
      /\ UNCHANGED <<inputs, tableVars, oprfVars, vectorVars, countVars>>
      /\ UNCHANGED <<padded, clientOf, toServer, toClient, encrypted, serverStage, results>>
  BY DEF SkipVector, tableVars, inputs, oprfVars
<1>2. Walked'
  BY <1>1 DEF Walked
<1>3. Exchanged'
  BY <1>1 DEF Inv, Exchanged, AfterOprf, PointsUnder
<1>4. Typed' /\ Tally' /\ Table!InvR'
  BY <1>1, TypedRests, TallyRests, TableRests DEF Inv
<1> QED
  BY <1>1, <1>2, <1>3, <1>4 DEF Inv, FailsForAReason

\* Dimensions fit wherever some entry hashes to the bin and the columns
\* divide the hashtable.
LEMMA DimsReason ==
  ASSUME Typed, Table!InvR, padded = NBins, NEW b \in Bins, ~DimsFit(b)
  PROVE  NBuckets % BucketsPerCol # 0 \/ \A e \in 1 .. NServer: b \notin Server!Candidates(e)
<1>1. CASE width[b] > 0
  <2>1. PICK w \in Nat \ {0}, n \in Nat \ {0}, size \in Nat:
          w = width[b] /\ n = BucketsPerCol /\ size = NBuckets
    BY <1>1, TablesWritten, PsiAssumption
  <2>2. ~(((size * w) \div (n * w)) * (n * w) >= size * w)
    BY <1>1, <2>1 DEF DimsFit, NColumns, Height
  <2> QED
    BY <2>1, <2>2, ColumnsDivide
<1>2. CASE ~(width[b] > 0)
  <2>1. 1 .. width[b] = {}
    BY <1>2, TablesWritten
  <2> QED
    BY <2>1, TablesWritten
<1> QED
  BY <1>1, <1>2

\* GetDatabaseDims panics.
LEMMA SetupPanicsInv == ASSUME Inv, SetupPanics PROVE Inv'
<1>1. /\ stage = "pir" /\ stage' = "failed" /\ answered = 0
      /\ UNCHANGED <<inputs, tableVars, oprfVars, vectorVars, countVars>>
      /\ UNCHANGED <<padded, clientOf, serverOf, hashes, queried, filling, answered, found,
                     toServer, toClient, encrypted, serverStage, results>>
  BY DEF SetupPanics, tableVars, inputs, oprfVars, vectorVars, countVars
<1>2. padded = NBins
  BY <1>1 DEF Inv, Exchanged, AfterOprf
<1>3. FailsForAReason'
  <2>1. NBuckets % BucketsPerCol # 0
          \/ \E b \in Bins: \A e \in 1 .. NServer: b \notin Server!Candidates(e)
    BY <1>2, DimsReason DEF Inv, SetupPanics
  <2> QED
    BY <1>1, <2>1 DEF FailsForAReason, Server!Candidates
<1>4. Walked'
  BY <1>1 DEF Walked
<1>5. Exchanged'
  BY <1>1 DEF Inv, Exchanged, AfterOprf, PointsUnder
<1>6. Tally'
  BY <1>1, NothingAsked DEF Inv, Tally, AskedAbout, ItemAsked, Blank, Pairs, NQueries
<1>7. Typed' /\ Table!InvR'
  BY <1>1, TypedRests, TableRests DEF Inv
<1> QED
  BY <1>3, <1>4, <1>5, <1>6, <1>7 DEF Inv

\* What the client has asked, and what equals it, changes with nothing but its
\* queries.
LEMMA CountRests ==
  ASSUME UNCHANGED <<clientOf, serverOf, queried>>
  PROVE  \A n: AskedAbout(n)' = AskedAbout(n) /\ Pairs(AskedAbout(n))' = Pairs(AskedAbout(n))
BY DEF AskedAbout, ItemAsked, Blank, Pairs

\* ReadResponse adds what the query has found.
LEMMA ReadResponseInv == ASSUME Inv, ReadResponse PROVE Inv'
<1>1. /\ stage = "pir" /\ stage' = stage /\ \A b \in Bins: DimsFit(b)
      /\ answered < NQueries /\ answered' = answered + 1
      /\ UNCHANGED <<inputs, tableVars, oprfVars, vectorVars>>
      /\ UNCHANGED <<padded, clientOf, serverOf, queried, filling,
                     toServer, toClient, encrypted, serverStage, results>>
  BY DEF ReadResponse, tableVars, inputs, oprfVars, vectorVars
<1>2. Vector!Inv => Vector!Inv'
  BY <1>1, VectorRests
<1>3. Walked'
  BY <1>1, <1>2 DEF Inv, Walked
<1>4. Exchanged'
  BY <1>1 DEF Inv, Exchanged, AfterOprf, PointsUnder
<1>5. Typed' /\ Table!InvR'
  BY <1>1, TypedRests, TableRests DEF Inv
<1>6. Tally'
  <2>1. NQueries \in Nat /\ NQueries' = NQueries
    BY PsiAssumption DEF NQueries
  <2>2. PICK n \in 0 .. NQueries - 1: n = answered
    BY <1>1, <2>1 DEF Inv, Tally
  <2>3. /\ AskedAbout(n) \subseteq 1 .. NClient
        /\ AskedAbout(n + 1) = IF Blank(n) THEN AskedAbout(n) ELSE AskedAbout(n) \cup {ItemAsked(n)}
        /\ ~Blank(n) => ItemAsked(n) \in 1 .. NClient /\ ItemAsked(n) \notin AskedAbout(n)
    BY <1>1, AskedNext DEF Inv
  <2>4. found' = Cardinality(Pairs(AskedAbout(n + 1)))
    <3>1. CASE Blank(n)
      BY <2>2, <2>3, <3>1 DEF Inv, Tally, ReadResponse
    <3>2. CASE ~Blank(n)
      <4>1. found' = found + Cardinality(Matches(n))
        BY <2>2, <3>2 DEF ReadResponse
      <4>2. Cardinality(Matches(n)) = Cardinality(EqualTo(clientOf[ItemAsked(n)]))
        BY <1>1, <3>2, Lookup DEF Inv
      <4>3. Cardinality(Pairs(AskedAbout(n) \cup {ItemAsked(n)})) =
              Cardinality(Pairs(AskedAbout(n))) + Cardinality(EqualTo(clientOf[ItemAsked(n)]))
        BY <2>3, <3>2, PairsAdd
      <4> QED
        BY <2>2, <2>3, <3>2, <4>1, <4>2, <4>3 DEF Inv, Tally
    <3> QED
      BY <3>1, <3>2
  <2>5. Pairs(AskedAbout(n + 1))' = Pairs(AskedAbout(n + 1))
    BY <1>1, CountRests
  <2>6. Pairs(AskedAbout(answered))' = Pairs(AskedAbout(n + 1))'
    BY <1>1, <2>2 DEF AskedAbout, Pairs
  <2> QED
    BY <1>1, <2>1, <2>2, <2>4, <2>5, <2>6 DEF Tally
<1> QED
  BY <1>1, <1>3, <1>4, <1>5, <1>6 DEF Inv, FailsForAReason

\* The client reports the count and ends (client.go, the end of RunClient).
LEMMA ReportFoundInv == ASSUME Inv, ReportFound PROVE Inv'
<1>1. /\ stage = "pir" /\ stage' = "done" /\ answered = NQueries
      /\ UNCHANGED <<inputs, tableVars, oprfVars, vectorVars, countVars>>
      /\ UNCHANGED <<padded, clientOf, serverOf, queried, filling, answered, found,
                     toServer, toClient, encrypted, serverStage, results>>
  BY DEF ReportFound, tableVars, inputs, oprfVars, vectorVars, countVars
<1>2. Vector!Inv => Vector!Inv'
  BY <1>1, VectorRests
<1>3. Walked'
  BY <1>1, <1>2 DEF Inv, Walked
<1>4. Exchanged'
  BY <1>1 DEF Inv, Exchanged, AfterOprf, PointsUnder
<1>5. Typed' /\ Table!InvR'
  BY <1>1, TypedRests, TableRests DEF Inv
<1>6. Tally'
  <2>1. NQueries' = NQueries
    BY DEF NQueries
  <2>2. Pairs(AskedAbout(answered))' = Pairs(AskedAbout(answered))
    BY <1>1 DEF AskedAbout, ItemAsked, Blank, Pairs
  <2> QED
    BY <1>1, <2>1, <2>2 DEF Inv, Tally
<1> QED
  BY <1>1, <1>3, <1>4, <1>5, <1>6 DEF Inv, FailsForAReason

\* A step that changes nothing.
LEMMA RestInv == ASSUME Inv, UNCHANGED vars PROVE Inv'
<1>1. /\ UNCHANGED <<inputs, tableVars, oprfVars, vectorVars, countVars, stage>>
      /\ UNCHANGED <<padded, clientOf, serverOf, hashes, slots, next, hand, attemps, queried, filling,
                     answered, found, toServer, toClient, encrypted, serverStage, results>>
  BY DEF vars, tableVars, inputs, oprfVars, vectorVars, countVars
<1>2. Vector!Inv => Vector!Inv'
  BY <1>1, VectorRests
<1>3. Walked'
  BY <1>1, <1>2 DEF Inv, Walked
<1>4. Exchanged'
  BY <1>1 DEF Inv, Exchanged, AfterOprf, PointsUnder
<1>5. Typed' /\ Table!InvR'
  BY <1>1, TypedRests, TableRests DEF Inv
<1>6. Tally'
  <2>1. NQueries' = NQueries
    BY DEF NQueries
  <2>2. Pairs(AskedAbout(answered))' = Pairs(AskedAbout(answered))
    BY <1>1 DEF AskedAbout, ItemAsked, Blank, Pairs
  <2> QED
    BY <1>1, <2>1, <2>2 DEF Inv, Tally
<1>7. FailsForAReason'
  BY <1>1 DEF Inv, FailsForAReason, Server!Candidates
<1> QED
  BY <1>3, <1>4, <1>5, <1>6, <1>7 DEF Inv

\* Every step keeps the invariant.
LEMMA NextInv == Inv /\ [Next]_vars => Inv'
BY FillTablesInv, EncryptDatasetInv, RequestInv, RespondInv, DecryptInv, FillVectorInv, SkipVectorInv,
   SetupPanicsInv, ReadResponseInv, ReportFoundInv, RestInv DEF Next, Terminated

\* The invariant holds throughout.
THEOREM PsiInvariant == Spec => []Inv
<1> QED
  BY InitInv, NextInv, PTL DEF Spec

\* The count of equal pairs is that of shared elements where no dataset has
\* an element twice.
LEMMA PairsAreElements ==
  ASSUME NEW A, A \subseteq 1 .. NClient, NoDuplicates
  PROVE  Cardinality(Pairs(A)) = Cardinality({clientOf[i]: i \in A} \cap {serverOf[e]: e \in 1 .. NServer})
<1> DEFINE T == {clientOf[i]: i \in A} \cap {serverOf[e]: e \in 1 .. NServer}
           f == [m \in Pairs(A) |-> clientOf[m[1]]]
<1>1. f \in [Pairs(A) -> T]
  BY DEF Pairs
<1>2. ASSUME NEW l \in Pairs(A), NEW m \in Pairs(A), f[l] = f[m] PROVE l = m
  <2>1. /\ l \in A \X (1 .. NServer) /\ clientOf[l[1]] = serverOf[l[2]]
        /\ m \in A \X (1 .. NServer) /\ clientOf[m[1]] = serverOf[m[2]]
        /\ clientOf[l[1]] = clientOf[m[1]]
    BY <1>2 DEF Pairs
  <2>2. l[1] = m[1] /\ l[2] = m[2]
    BY <2>1 DEF NoDuplicates
  <2> QED
    BY <2>1, <2>2
<1>3. ASSUME NEW x \in T PROVE \E m \in Pairs(A): f[m] = x
  <2>1. PICK i \in A, e \in 1 .. NServer: x = clientOf[i] /\ x = serverOf[e]
    OBVIOUS
  <2>2. <<i, e>> \in Pairs(A) /\ <<i, e>>[1] = i
    BY <2>1 DEF Pairs
  <2> QED
    BY <2>1, <2>2
<1>4. IsFiniteSet(Pairs(A))
  BY PairsFinite
<1> HIDE DEF f, T
<1>5. Cardinality(T) = Cardinality(Pairs(A))
  BY <1>1, <1>2, <1>3, <1>4, PairedOff
<1> QED
  BY <1>5 DEF T

\* After every response the count is that of the server's entries that equal
\* an item asked for, and without duplicates that of the shared elements,
\* whatever the evictions did and however the buckets fill.
THEOREM CountIsShared == Spec => []CountsShared
<1>1. ASSUME Inv PROVE AskedAbout(answered) \subseteq 1 .. NClient
  <2>1. CASE answered = 0
    BY <2>1, NothingAsked
  <2>2. CASE answered # 0
    <3>1. stage \in {"pir", "done"} /\ answered \in 0 .. NQueries
      BY <1>1, <2>2 DEF Inv, Tally
    <3>2. NQueries \in Nat
      BY PsiAssumption DEF NQueries
    <3>3. 0 .. answered - 1 \subseteq 0 .. NQueries - 1
      BY <3>1, <3>2
    <3> QED
      BY <1>1, <3>1, <3>3, AskedItems DEF Inv, AskedAbout
  <2> QED
    BY <2>1, <2>2
<1>2. Inv => CountsShared
  BY <1>1, PairsAreElements DEF Inv, Tally, CountsShared, Pairs
<1> QED
  BY <1>2, PsiInvariant, PTL

\* A run fails only where the vector cannot be filled, a bin has no entries or
\* the columns do not divide the hashtable, all known before the first query.
THEOREM FailuresHaveReasons == Spec => []FailsForAReason
<1>1. Inv => FailsForAReason
  BY DEF Inv
<1> QED
  BY <1>1, PsiInvariant, PTL

\* Every step of the protocol is the report of the ideal intersection, or its
\* failure, or one that the ideal does not see: the count reported is never
\* another one.  That the run ends is checked by TLC.
THEOREM PsiImplementsIntersection == Spec => Ideal!Init /\ [][Ideal!Next]_(Ideal!vars)
<1>1. Init => Ideal!Init
  BY DEF Init, Datasets, Ideal!Init
<1>2. ASSUME Inv, [Next]_vars PROVE [Ideal!Next]_(Ideal!vars)
  <2>1. clientOf' = clientOf /\ serverOf' = serverOf
    BY <1>2 DEF Next, Terminated, vars, inputs, FillTables, EncryptDataset, Request, Respond, Decrypt,
                FillVector, SkipVector, SetupPanics, ReadResponse, ReportFound
  <2>2. CASE ReportFound
    <3>1. stage = "pir" /\ stage' = "done" /\ answered = NQueries /\ found' = found
      BY <2>2 DEF ReportFound, countVars
    <3>2. AskedAbout(NQueries) = 1 .. NClient
      BY <1>2, <3>1, AskedItems DEF Inv, AskedAbout
    <3>3. Pairs(1 .. NClient) = Ideal!Shared
      BY <1>2 DEF Inv, Typed, Datasets, Pairs, Ideal!Shared
    <3>4. found = Cardinality(Ideal!Shared)
      BY <1>2, <3>1, <3>2, <3>3 DEF Inv, Tally
    <3>5. Ideal!Report
      <4> DEFINE outcome == IF stage = "done" THEN <<"count", found>>
                            ELSE IF stage = "failed" THEN <<"failed">> ELSE <<>>
      <4>1. outcome = <<>> /\ outcome' = <<"count", found>>
        BY <3>1
      <4>2. outcome' = <<"count", Cardinality(Ideal!Shared)>>
        BY <3>4, <4>1
      <4>3. Ideal!Cardinality(Ideal!Shared) = Cardinality(Ideal!Shared)
        BY DEF Ideal!Cardinality, Cardinality
      <4> QED
        BY <2>1, <4>1, <4>2, <4>3 DEF Ideal!Report
    <3> QED
      BY <3>5 DEF Ideal!Next
  <2>3. CASE stage \notin {"done", "failed"} /\ stage' = "failed"
    BY <2>1, <2>3 DEF Ideal!Next, Ideal!Fail
  <2>4. CASE stage \notin {"done", "failed"} /\ stage' \notin {"done", "failed"}
    BY <2>1, <2>4 DEF Ideal!vars
  <2>5. CASE UNCHANGED vars
    BY <2>1, <2>5 DEF Ideal!vars, vars, countVars
  <2>6. ~ReportFound /\ ~UNCHANGED vars =>
          stage \notin {"done", "failed"} /\ stage' # "done"
    BY <1>2 DEF Inv, Exchanged, AfterOprf, Next, Terminated, FillTables, EncryptDataset, Request,
                Respond, Decrypt, FillVector, SkipVector, SetupPanics, ReadResponse
  <2> QED
    BY <2>2, <2>3, <2>4, <2>5, <2>6
<1> QED
  BY <1>1, <1>2, PsiInvariant, PTL DEF Spec
=============================================================================
