--------------------------- MODULE ParallelProofs ---------------------------
(***************************************************************************)
(* Theorems about the two computations that are spread over threads and    *)
(* lanes: the products of PirKernels and the encryption of ServerEncrypt,  *)
(* for all sizes.  The invariant of the products is exact: it says of      *)
(* every element of the hint, of every lane and of every row of an answer  *)
(* which products have been added into it so far.  That of the encryption  *)
(* says how far each thread is in its batch; the batches tile the dataset. *)
(***************************************************************************)
EXTENDS PirKernels, ServerEncrypt, TLAPS

-----------------------------------------------------------------------------
\* The products.

\* The hint so far: j has passed the columns before it once more than the others.
HintSoFar ==
  hint = [r \in RowNumbers |-> [c \in LweColumns |->
            HintSum(r, c, k[r] + (IF c < j[r] THEN 1 ELSE 0))]]

\* What has been read of the hint is still there, as nobody else writes to it.
HoldsLatest == \A r \in RowNumbers: holding[r] => k[r] < Cols /\ loaded[r] = hint[r][j[r]]

\* A product is over when its outer loop is.
EndsTogether == \A r \in RowNumbers: k[r] = Cols => j[r] = 0

\* The database changes after the last product.
SquishedLast == database = "squished" => \A r \in RowNumbers: k[r] = Cols

\* The lanes so far, those behind the last row included.
LanesSoFar ==
  lane = [q \in Requests |-> [n \in LaneNumbers |-> RowProducts(block[q] + n, column[q])]]

\* The answers so far.
AnswersSoFar ==
  answer = [q \in Requests |-> [r \in OutRows |->
              IF r < block[q] THEN RowProducts(r, SquishedCols) ELSE <<>>]]

HintInv == HintSoFar /\ HoldsLatest /\ EndsTogether /\ SquishedLast
AnswerInv == LanesSoFar /\ AnswersSoFar
Inv == TypeOK /\ HintInv /\ AnswerInv

-----------------------------------------------------------------------------
\* The numbers are numbers.
LEMMA Sizes == /\ Rows \in Nat \ {0} /\ Cols \in Nat \ {0} /\ LweN \in Nat \ {0}
               /\ Squishing \in Nat \ {0} /\ Lanes \in Nat \ {0} /\ NRequests \in Nat \ {0}
               /\ SquishedCols \in Nat
  BY KernelAssumption DEF KernelAssumption, SquishedCols

\* One product more of an element of the hint.
LEMMA HintSumGrows ==
  ASSUME NEW r \in RowNumbers, NEW c \in LweColumns, NEW m \in Nat
  PROVE  HintSum(r, c, m + 1) = Append(HintSum(r, c, m), <<"centred", Cols * r + m, LweN * m + c>>)
  <1> DEFINE P == {"centred"} \X Int \X Int
             E(n) == <<"centred", Cols * r + n - 1, LweN * (n - 1) + c>>
             s == HintSum(r, c, m)
             t == HintSum(r, c, m + 1)
             e == <<"centred", Cols * r + m, LweN * m + c>>
  <1>1. r \in Int /\ c \in Int /\ Cols \in Int /\ LweN \in Int
    BY Sizes DEF RowNumbers, LweColumns
  <1>2. \A n \in Int: E(n) \in P
    BY <1>1
  <1>3. s \in Seq(P) /\ Len(s) = m /\ t \in Seq(P) /\ Len(t) = m + 1 /\ e \in P
    BY <1>1, <1>2 DEF HintSum
  <1>4. \A n \in 1 .. m: t[n] = s[n]
    BY DEF HintSum
  <1>5. t[m + 1] = e
    <2>1. t[m + 1] = E(m + 1)
      BY DEF HintSum
    <2>2. (m + 1) - 1 = m /\ Cols * r + (m + 1) - 1 = Cols * r + m
      BY <1>1
    <2> QED BY <2>1, <2>2
  <1> HIDE DEF s, t, e, E, P
  <1>6. t = Append(s, e)
    BY <1>3, <1>4, <1>5
  <1> QED BY <1>6 DEF s, t, e

\* Nothing has been added yet.
LEMMA NoProducts == /\ \A r, c: HintSum(r, c, 0) = <<>>
                    /\ \A r: RowProducts(r, 0) = <<>>
  BY DEF HintSum, RowProducts

\* One column more of a row of the squished database.
LEMMA RowProductsGrow ==
  ASSUME NEW r \in Nat, NEW m \in Nat
  PROVE  RowProducts(r, m + 1) = Append(RowProducts(r, m), Squished("squished", r * SquishedCols + m, m))
  <1> DEFINE P == {Squished("squished", at[1], at[2]): at \in Int \X Int}
             E(n) == Squished("squished", r * SquishedCols + n - 1, n - 1)
             s == RowProducts(r, m)
             t == RowProducts(r, m + 1)
             e == Squished("squished", r * SquishedCols + m, m)
  <1>1. \A a, b \in Int: Squished("squished", a, b) \in P
    <2> TAKE a, b \in Int
    <2>1. <<a, b>> \in Int \X Int /\ <<a, b>>[1] = a /\ <<a, b>>[2] = b
      OBVIOUS
    <2> HIDE DEF Squished
    <2> QED BY <2>1
  <1>2. r * SquishedCols \in Int
    BY Sizes
  <1>3. e \in P /\ \A n \in Int: E(n) \in P
    <2>1. r * SquishedCols + m \in Int /\ m \in Int
      BY <1>2
    <2>2. \A n \in Int: r * SquishedCols + n - 1 \in Int /\ n - 1 \in Int
      BY <1>2
    <2> HIDE DEF P
    <2> QED BY <1>1, <2>1, <2>2
  <1>4. E(m + 1) = e
    <2>1. (m + 1) - 1 = m /\ r * SquishedCols + (m + 1) - 1 = r * SquishedCols + m
      BY <1>2
    <2> QED BY <2>1
  <1>5. s = [n \in 1 .. m |-> E(n)] /\ t = [n \in 1 .. m + 1 |-> E(n)]
    BY DEF RowProducts
  <1> HIDE DEF s, t, e, E, P
  <1>6. s \in Seq(P) /\ Len(s) = m /\ t \in Seq(P) /\ Len(t) = m + 1
    BY <1>3, <1>5
  <1>7. t = Append(s, e)
    BY <1>3, <1>4, <1>5, <1>6
  <1> QED BY <1>7 DEF s, t, e

\* What is written into a row that is still empty.
LEMMA RowProductsFirst ==
  ASSUME NEW r \in Nat, NEW m \in Nat
  PROVE  <<>> \o RowProducts(r, m) = RowProducts(r, m)
  <1> DEFINE E(n) == Squished("squished", r * SquishedCols + n - 1, n - 1)
             P == {E(n): n \in Int}
             s == RowProducts(r, m)
  <1>1. s = [n \in 1 .. m |-> E(n)]
    BY DEF RowProducts
  <1>2. \A n \in Int: E(n) \in P
    OBVIOUS
  <1> HIDE DEF s, E, P
  <1>3. s \in Seq(P)
    BY <1>1, <1>2
  <1>4. <<>> \o s = s
    BY <1>3
  <1> QED BY <1>4 DEF s

-----------------------------------------------------------------------------
\* Initially nothing has been added.
LEMMA InitInv == Init => Inv
  <1> SUFFICES ASSUME Init PROVE Inv
    OBVIOUS
  <1> USE Sizes
  <1>1. TypeOK
    BY DEF Init, TypeOK, RowNumbers, LweColumns, Requests, LaneNumbers, OutRows
  <1>2. HintInv
    BY NoProducts DEF Init, HintInv, HintSoFar, HoldsLatest, EndsTogether, SquishedLast, RowNumbers, LweColumns
  <1>3. AnswerInv
    BY NoProducts DEF Init, AnswerInv, LanesSoFar, AnswersSoFar, Requests, LaneNumbers, OutRows
  <1> QED BY <1>1, <1>2, <1>3 DEF Inv

\* A row that is started has no place yet.
LEMMA StartRowInv == ASSUME Inv, StartRow PROVE Inv'
  <1> USE Sizes
  <1>1. TypeOK'
    BY DEF Inv, TypeOK, StartRow, answerVars
  <1>2. HintInv'
    BY DEF Inv, HintInv, StartRow, HintSoFar, HoldsLatest, EndsTogether, SquishedLast
  <1>3. AnswerInv'
    BY DEF Inv, AnswerInv, StartRow, LanesSoFar, AnswersSoFar, answerVars
  <1> QED BY <1>1, <1>2, <1>3 DEF Inv

\* What is read is what is there.
LEMMA LoadInv == ASSUME Inv, NEW r \in RowNumbers, Load(r) PROVE Inv'
  <1> USE Sizes
  <1>1. TypeOK'
    BY DEF Inv, TypeOK, Load, answerVars
  <1>2. HintInv'
    <2>1. HoldsLatest'
      BY DEF Inv, HintInv, HoldsLatest, TypeOK, Load, Running, RowOf, RowNumbers
    <2>2. HintSoFar' /\ EndsTogether' /\ SquishedLast'
      BY DEF Inv, HintInv, Load, HintSoFar, EndsTogether, SquishedLast
    <2> QED BY <2>1, <2>2 DEF HintInv
  <1>3. AnswerInv'
    BY DEF Inv, AnswerInv, Load, LanesSoFar, AnswersSoFar, answerVars
  <1> QED BY <1>1, <1>2, <1>3 DEF Inv

\* One product is added to one element of the row, by the goroutine that read it.
LEMMA StoreInv == ASSUME Inv, NEW r \in RowNumbers, Store(r) PROVE Inv'
  <1> USE Sizes
  <1>1. k[r] \in Nat /\ k[r] < Cols /\ j[r] \in Nat /\ j[r] < LweN /\ j[r] \in LweColumns
    BY DEF Inv, TypeOK, Store, Running, LweColumns
  <1>2. database = "centred" /\ loaded[r] = HintSum(r, j[r], k[r])
    <2>1. database # "squished"
      BY <1>1 DEF Inv, HintInv, SquishedLast
    <2>2. loaded[r] = hint[r][j[r]]
      BY DEF Inv, HintInv, HoldsLatest, Store
    <2>3. hint[r][j[r]] = HintSum(r, j[r], k[r] + 0)
      BY <1>1 DEF Inv, HintInv, HintSoFar
    <2> QED BY <1>1, <2>1, <2>2, <2>3 DEF Inv, TypeOK
  <1>3. hint' = [hint EXCEPT ![r][j[r]] = HintSum(r, j[r], k[r] + 1)]
    <2>1. HintSum(r, j[r], k[r] + 1)
            = Append(HintSum(r, j[r], k[r]), <<"centred", Cols * r + k[r], LweN * k[r] + j[r]>>)
      BY <1>1, HintSumGrows
    <2> QED BY <1>2, <2>1 DEF Store, RowOf
  <1>4. TypeOK'
    <2>1. j' \in [RowNumbers -> LweColumns]
      <3>1. (IF j[r] = LweN - 1 THEN 0 ELSE j[r] + 1) \in LweColumns
        BY <1>1 DEF LweColumns
      <3> QED BY <3>1 DEF Inv, TypeOK, Store
    <2>2. k' \in [RowNumbers -> 0 .. Cols]
      <3>1. (IF j[r] = LweN - 1 THEN k[r] + 1 ELSE k[r]) \in 0 .. Cols
        BY <1>1
      <3> QED BY <3>1 DEF Inv, TypeOK, Store
    <2>3. holding' \in [RowNumbers -> BOOLEAN] /\ DOMAIN loaded' = RowNumbers
      BY DEF Inv, TypeOK, Store
    <2>4. DOMAIN hint' = RowNumbers /\ \A x \in RowNumbers: DOMAIN hint'[x] = LweColumns
      BY <1>3 DEF Inv, TypeOK
    <2> QED BY <2>1, <2>2, <2>3, <2>4 DEF Inv, TypeOK, Store, answerVars
  <1>5. HintSoFar'
    <2> DEFINE Turns(x, c) == k[x] + (IF c < j[x] THEN 1 ELSE 0)
    <2>1. ASSUME NEW x \in RowNumbers, x # r
          PROVE  k'[x] = k[x] /\ j'[x] = j[x]
      BY <2>1 DEF Inv, TypeOK, Store
    <2>2. /\ j'[r] = IF j[r] = LweN - 1 THEN 0 ELSE j[r] + 1
          /\ k'[r] = IF j[r] = LweN - 1 THEN k[r] + 1 ELSE k[r]
      BY DEF Inv, TypeOK, Store
    <2>3. ASSUME NEW c \in LweColumns
          PROVE  k'[r] + (IF c < j'[r] THEN 1 ELSE 0) = IF c = j[r] THEN k[r] + 1 ELSE Turns(r, c)
      BY <1>1, <2>2 DEF LweColumns
    <2>4. hint = [x \in RowNumbers |-> [c \in LweColumns |-> HintSum(x, c, Turns(x, c))]]
      BY DEF Inv, HintInv, HintSoFar
    <2>5. ASSUME NEW x \in RowNumbers, NEW c \in LweColumns
          PROVE  hint'[x][c] = HintSum(x, c, k'[x] + (IF c < j'[x] THEN 1 ELSE 0))
      <3>1. CASE x # r
        BY <1>3, <2>1, <2>4, <3>1
      <3>2. CASE x = r /\ c # j[r]
        BY <1>3, <2>3, <2>4, <3>2
      <3>3. CASE x = r /\ c = j[r]
        BY <1>1, <1>3, <2>3, <2>4, <3>3
      <3> QED BY <3>1, <3>2, <3>3
    <2>6. hint' = [x \in RowNumbers |-> [c \in LweColumns |-> hint'[x][c]]]
      BY <1>3, <2>4
    <2> QED BY <2>5, <2>6 DEF HintSoFar
  <1>6. HoldsLatest'
    <2> SUFFICES ASSUME NEW x \in RowNumbers, holding'[x]
                 PROVE  k'[x] < Cols /\ loaded'[x] = hint'[x][j'[x]]
      BY DEF HoldsLatest
    <2>1. x # r
      BY DEF Inv, TypeOK, Store
    <2>2. holding[x] /\ loaded'[x] = loaded[x] /\ j'[x] = j[x] /\ k'[x] = k[x] /\ hint'[x] = hint[x]
      BY <2>1, <1>3 DEF Inv, TypeOK, Store
    <2> QED BY <2>2 DEF Inv, HintInv, HoldsLatest
  <1>7. EndsTogether' /\ SquishedLast'
    <2>1. k'[r] = Cols => j'[r] = 0
      BY <1>1 DEF Inv, TypeOK, Store
    <2>2. \A x \in RowNumbers: x # r => k'[x] = k[x] /\ j'[x] = j[x]
      BY DEF Inv, TypeOK, Store
    <2>3. database' # "squished"
      BY <1>2 DEF Store
    <2> QED BY <2>1, <2>2, <2>3 DEF Inv, HintInv, EndsTogether, SquishedLast
  <1>8. AnswerInv'
    BY DEF Inv, AnswerInv, Store, LanesSoFar, AnswersSoFar, answerVars
  <1> QED BY <1>4, <1>5, <1>6, <1>7, <1>8 DEF Inv, HintInv

\* The database changes when no product is left.
LEMMA SquishInv == ASSUME Inv, SquishDatabase PROVE Inv'
  <1>1. TypeOK'
    BY DEF Inv, TypeOK, SquishDatabase, hintVars, answerVars
  <1>2. HintInv'
    BY DEF Inv, HintInv, SquishDatabase, HintReady, Multiplied, hintVars,
           HintSoFar, HoldsLatest, EndsTogether, SquishedLast
  <1>3. AnswerInv'
    BY DEF Inv, AnswerInv, SquishDatabase, LanesSoFar, AnswersSoFar, answerVars
  <1> QED BY <1>1, <1>2, <1>3 DEF Inv

\* Every lane gets the next product of its own row.
LEMMA MultiplyInv == ASSUME Inv, NEW q \in Requests, MultiplyColumn(q) PROVE Inv'
  <1> USE Sizes
  <1>1. /\ block[q] \in Nat /\ column[q] \in Nat /\ column[q] < SquishedCols
        /\ index[q] = block[q] * SquishedCols + column[q] /\ database = "squished"
    BY DEF Inv, TypeOK, MultiplyColumn, Answering
  <1>2. TypeOK'
    <2>1. index[q] + 1 = block[q] * SquishedCols + (column[q] + 1)
      <3> DEFINE passed == block[q] * SquishedCols
      <3>1. passed \in Nat /\ index[q] = passed + column[q]
        BY <1>1
      <3> HIDE DEF passed
      <3>2. index[q] + 1 = passed + (column[q] + 1)
        BY <1>1, <3>1
      <3> QED
        BY <3>2 DEF passed
    <2>2. \A p \in Requests: index'[p] = block'[p] * SquishedCols + column'[p]
      BY <1>1, <2>1 DEF Inv, TypeOK, MultiplyColumn
    <2>3. index' \in [Requests -> Nat] /\ column' \in [Requests -> 0 .. SquishedCols]
      BY <1>1 DEF Inv, TypeOK, MultiplyColumn
    <2> QED BY <2>2, <2>3 DEF Inv, TypeOK, MultiplyColumn, hintVars
  <1>3. HintInv'
    BY DEF Inv, HintInv, MultiplyColumn, hintVars, HintSoFar, HoldsLatest, EndsTogether, SquishedLast
  <1>4. LanesSoFar'
    <2>1. ASSUME NEW n \in LaneNumbers
          PROVE  Append(lane[q][n], Squished(database, index[q] + n * SquishedCols, column[q]))
                   = RowProducts(block[q] + n, column[q] + 1)
      <3>1. n \in Nat /\ block[q] + n \in Nat
        BY <1>1 DEF LaneNumbers
      <3>2. (block[q] + n) * SquishedCols + column[q] = index[q] + n * SquishedCols
        BY <1>1, <3>1
      <3>3. lane[q][n] = RowProducts(block[q] + n, column[q])
        BY DEF Inv, AnswerInv, LanesSoFar
      <3>4. RowProducts(block[q] + n, column[q] + 1)
              = Append(RowProducts(block[q] + n, column[q]),
                       Squished("squished", (block[q] + n) * SquishedCols + column[q], column[q]))
        BY <1>1, <3>1, RowProductsGrow
      <3> QED BY <1>1, <3>2, <3>3, <3>4
    <2>2. lane' = [lane EXCEPT ![q] = [n \in LaneNumbers |-> RowProducts(block[q] + n, column[q] + 1)]]
      BY <2>1 DEF MultiplyColumn
    <2>3. \A p \in Requests: block'[p] = block[p] /\ column'[p] = IF p = q THEN column[q] + 1 ELSE column[p]
      BY DEF Inv, TypeOK, MultiplyColumn
    <2> QED BY <2>2, <2>3 DEF Inv, AnswerInv, LanesSoFar
  <1>5. AnswersSoFar'
    BY DEF Inv, AnswerInv, MultiplyColumn, AnswersSoFar
  <1> QED BY <1>2, <1>3, <1>4, <1>5 DEF Inv, AnswerInv

\* The lanes of a block are written to rows nothing has been written to.
LEMMA WriteInv == ASSUME Inv, NEW q \in Requests, WriteBlock(q) PROVE Inv'
  <1> USE Sizes
  <1>1. /\ block[q] \in Nat /\ column[q] = SquishedCols
        /\ index[q] = block[q] * SquishedCols + SquishedCols
    BY DEF Inv, TypeOK, WriteBlock
  <1>2. TypeOK'
    <2>1. /\ SkipRows \in Nat
          /\ index[q] + SkipRows = (block[q] + Lanes) * SquishedCols + 0
      <3>1. SquishedCols * (Lanes - 1) = SquishedCols * Lanes - SquishedCols
        OBVIOUS
      <3>2. (block[q] + Lanes) * SquishedCols = block[q] * SquishedCols + SquishedCols * Lanes
        BY <1>1
      <3>3. SquishedCols * (Lanes - 1) \in Nat
        OBVIOUS
      <3> QED BY <1>1, <3>1, <3>2, <3>3 DEF SkipRows
    <2>2. \A p \in Requests: index'[p] = block'[p] * SquishedCols + column'[p]
      BY <1>1, <2>1 DEF Inv, TypeOK, WriteBlock
    <2>3. block[q] + Lanes \in Nat /\ index[q] + SkipRows \in Nat /\ 0 \in 0 .. SquishedCols
      BY <2>1 DEF Inv, TypeOK
    <2>4. index' \in [Requests -> Nat]
      BY <2>3 DEF Inv, TypeOK, WriteBlock
    <2>5. column' \in [Requests -> 0 .. SquishedCols]
      BY <2>3 DEF Inv, TypeOK, WriteBlock
    <2>6. block' \in [Requests -> Nat]
      BY <2>3 DEF Inv, TypeOK, WriteBlock
    <2> QED BY <2>2, <2>4, <2>5, <2>6 DEF Inv, TypeOK, WriteBlock, hintVars
  <1>3. HintInv'
    BY DEF Inv, HintInv, WriteBlock, hintVars, HintSoFar, HoldsLatest, EndsTogether, SquishedLast
  <1>4. \A p \in Requests: /\ block'[p] = IF p = q THEN block[q] + Lanes ELSE block[p]
                           /\ column'[p] = IF p = q THEN 0 ELSE column[p]
    BY DEF Inv, TypeOK, WriteBlock
  <1>5. LanesSoFar'
    <2>1. lane' = [lane EXCEPT ![q] = [n \in LaneNumbers |-> RowProducts(block[q] + Lanes + n, 0)]]
      BY NoProducts DEF WriteBlock
    <2> QED BY <1>4, <2>1 DEF Inv, AnswerInv, LanesSoFar
  <1>6. AnswersSoFar'
    <2>1. ASSUME NEW r \in OutRows
          PROVE  (IF r - block[q] \in LaneNumbers
                    THEN answer[q][r] \o lane[q][r - block[q]] ELSE answer[q][r])
                  = IF r < block[q] + Lanes THEN RowProducts(r, SquishedCols) ELSE <<>>
      <3>1. r \in Nat /\ answer[q][r] = IF r < block[q] THEN RowProducts(r, SquishedCols) ELSE <<>>
        BY DEF Inv, AnswerInv, AnswersSoFar, OutRows
      <3>2. CASE r - block[q] \in LaneNumbers
        <4>1. r < block[q] + Lanes /\ ~(r < block[q]) /\ block[q] + (r - block[q]) = r
          BY <1>1, <3>1, <3>2 DEF LaneNumbers
        <4>2. lane[q][r - block[q]] = RowProducts(r, SquishedCols)
          BY <1>1, <3>2, <4>1 DEF Inv, AnswerInv, LanesSoFar
        <4> QED BY <3>1, <3>2, <4>1, <4>2, RowProductsFirst
      <3>3. CASE r - block[q] \notin LaneNumbers
        <4>1. r < block[q] + Lanes <=> r < block[q]
          BY <1>1, <3>1, <3>3 DEF LaneNumbers
        <4> QED BY <3>1, <3>3, <4>1
      <3> QED BY <3>2, <3>3
    <2>2. answer' = [answer EXCEPT ![q] = [r \in OutRows |->
                        IF r < block[q] + Lanes THEN RowProducts(r, SquishedCols) ELSE <<>>]]
      BY <2>1 DEF WriteBlock
    <2> QED BY <1>4, <2>2 DEF Inv, AnswerInv, AnswersSoFar
  <1> QED BY <1>2, <1>3, <1>5, <1>6 DEF Inv, AnswerInv

\* No step breaks the invariant.
LEMMA NextInv == ASSUME Inv, [Next]_vars PROVE Inv'
  <1>1. CASE StartRow BY <1>1, StartRowInv
  <1>2. CASE SquishDatabase BY <1>2, SquishInv
  <1>3. CASE \E r \in RowNumbers: Load(r) \/ Store(r) BY <1>3, LoadInv, StoreInv
  <1>4. CASE \E q \in Requests: MultiplyColumn(q) \/ WriteBlock(q) BY <1>4, MultiplyInv, WriteInv
  <1>5. CASE UNCHANGED vars
    BY <1>5 DEF vars, hintVars, answerVars, Inv, TypeOK, HintInv, AnswerInv, HintSoFar, HoldsLatest,
                EndsTogether, SquishedLast, LanesSoFar, AnswersSoFar
  <1> QED BY <1>1, <1>2, <1>3, <1>4, <1>5 DEF Next, Terminated

\* The invariant holds in every state.
THEOREM KernelsInvariant == Spec => []Inv
  <1>1. Init => Inv BY InitInv
  <1>2. Inv /\ [Next]_vars => Inv' BY NextInv
  <1> QED BY <1>1, <1>2, PTL DEF Spec

\* The variables have their types, and the place in the flat database is that
\* of the block and the column (pir.c:122-206).
THEOREM KernelsTypes == Spec => []TypeOK
  <1>1. Inv => TypeOK BY DEF Inv
  <1> QED BY <1>1, KernelsInvariant, PTL

\* However the goroutines interleave, the hint is the product of the centred
\* database and the LWE matrix (matrix.go:183-202, pir.c:28-32).
THEOREM KernelsHintIsProduct == Spec => []HintIsProduct
  <1>1. Inv => HintIsProduct
    <2> SUFFICES ASSUME Inv, NEW r \in RowNumbers, Multiplied(r) \/ database = "squished",
                        NEW c \in LweColumns
                 PROVE  hint[r][c] = HintSum(r, c, Cols)
      BY DEF HintIsProduct
    <2>1. k[r] = Cols /\ j[r] = 0
      BY DEF Inv, HintInv, SquishedLast, EndsTogether, Multiplied
    <2>2. ~(c < 0) /\ Cols + 0 = Cols
      BY Sizes DEF LweColumns
    <2> QED BY <2>1, <2>2 DEF Inv, HintInv, HintSoFar
  <1> QED BY <1>1, KernelsInvariant, PTL

\* Whatever is read behind the last row, every row of an answer is the product
\* of that row and the query (pir.c:122-207, matrix.go:260-267).
THEOREM KernelsAnswersAreRows == Spec => []AnswersAreRows
  <1>1. Inv => AnswersAreRows
    <2> SUFFICES ASSUME Inv, NEW q \in Requests, Answered(q), NEW r \in RowNumbers
                 PROVE  answer[q][r] = RowProducts(r, SquishedCols)
      BY DEF AnswersAreRows
    <2>1. r \in OutRows /\ r < block[q]
      BY Sizes DEF Inv, TypeOK, Answered, RowNumbers, OutRows
    <2> QED BY <2>1 DEF Inv, AnswerInv, AnswersSoFar
  <1> QED BY <1>1, KernelsInvariant, PTL

-----------------------------------------------------------------------------
\* The encryption.

\* Each thread is somewhere in its batch; what is joined is the dataset up to
\* the start of the next batch to join.
PartsInBatch ==
  \A i \in ThreadIds:
     /\ Len(part[i]) <= Size(i)
     /\ \A n \in 1 .. Len(part[i]): part[i][n] = Start(i) + n

OutputUpToJoined ==
  /\ \A n \in 1 .. Len(output): output[n] = n
  /\ Len(output) = IF AllJoined THEN size ELSE Start(joined)

EncryptionInv == EncryptionTypeOK /\ BatchesFit /\ PartsInBatch /\ OutputUpToJoined

\* The batch size is a number of elements.
LEMMA BatchType ==
  ASSUME size \in Nat, threads \in Nat \ {0}
  PROVE  Batch \in Nat
<1>1. size \div threads \in Nat
  OBVIOUS
<1> QED
  BY <1>1 DEF Batch

\* Multiplying by the batch size is monotonic, and the batches are adjacent.
LEMMA StartFacts ==
  ASSUME Batch \in Nat
  PROVE  /\ Start(0) = 0
         /\ \A i \in Nat: Start(i) \in Nat /\ Start(i + 1) = Start(i) + Batch
         /\ \A i, m \in Nat: i <= m => Start(i) <= Start(m)
<1> DEFINE B == Batch
<1>1. B \in Nat
  OBVIOUS
<1> HIDE DEF B
<1>2. 0 * B = 0
  BY <1>1
<1>3. \A i \in Nat: i * B \in Nat /\ (i + 1) * B = i * B + B
  BY <1>1
<1>4. \A i, m \in Nat: i <= m => i * B <= m * B
  BY <1>1
<1> QED
  BY <1>2, <1>3, <1>4 DEF Start, B

\* When the batches fit, the batch of thread i lies in the dataset and ends
\* where the batch of thread i + 1 starts, the last one at the dataset's end.
LEMMA BatchesTile ==
  ASSUME EncryptionTypeOK, BatchesFit, NEW i \in ThreadIds
  PROVE  /\ Start(i) \in Nat /\ Size(i) \in Nat
         /\ Start(i) + Size(i) <= size
         /\ Start(i) + Size(i) = IF i + 1 = threads THEN size ELSE Start(i + 1)
<1>1. size \in Nat /\ threads \in Nat \ {0} /\ i \in Nat /\ i < threads
  BY BoundsAssumption DEF EncryptionTypeOK, ThreadIds
<1>2. Batch \in Nat
  BY <1>1, BatchType
<1> DEFINE last == threads - 1
<1>a. last \in Nat
  BY <1>1
<1> HIDE DEF last
<1>b. /\ Start(i) \in Nat /\ Start(i + 1) = Start(i) + Batch
      /\ Start(last) \in Nat
  BY <1>1, <1>2, <1>a, StartFacts
<1>3. /\ Start(i) \in Nat /\ Start(i + 1) = Start(i) + Batch
      /\ Start(threads - 1) \in Nat
  BY <1>b DEF last
<1>4. CASE i + 1 = threads
  <2>1. Size(i) = size - Start(i) /\ Start(i) <= size
    BY <1>1, <1>4 DEF Size, BatchesFit
  <2> QED
    BY <1>1, <1>3, <1>4, <2>1
<1>5. CASE i + 1 # threads
  <2>1. Size(i) = Batch /\ i + 1 <= threads - 1
    BY <1>1, <1>5 DEF Size
  <2>2. Start(i + 1) <= Start(threads - 1)
    BY <1>1, <1>2, <2>1, StartFacts
  <2> QED
    BY <1>1, <1>2, <1>3, <1>5, <2>1, <2>2 DEF BatchesFit
<1> QED
  BY <1>4, <1>5

\* Nothing is encrypted, joined or output at the start.
LEMMA EncryptionInitInv == InitFitting => EncryptionInv
<1> SUFFICES ASSUME EncryptionInit, BatchesFit PROVE EncryptionInv
  BY DEF InitFitting
<1>1. EncryptionTypeOK
  BY BoundsAssumption DEF EncryptionInit, EncryptionTypeOK
<1>2. PartsInBatch
  BY <1>1, BatchesTile DEF EncryptionInit, PartsInBatch
<1>3. OutputUpToJoined
  <2>1. size \in Nat /\ threads \in Nat \ {0}
    BY <1>1, BoundsAssumption DEF EncryptionTypeOK
  <2> QED
    BY <2>1, BatchType, StartFacts DEF EncryptionInit, OutputUpToJoined, AllJoined
<1> QED
  BY <1>1, <1>2, <1>3 DEF EncryptionInv

\* The sizes never change, so neither do the ranges.
LEMMA SameRanges ==
  ASSUME UNCHANGED <<size, threads>>
  PROVE  /\ ThreadIds' = ThreadIds /\ BatchesFit' = BatchesFit
         /\ \A i: Start(i)' = Start(i) /\ Size(i)' = Size(i)
BY DEF ThreadIds, BatchesFit, Start, Size, Batch

\* A thread that encrypts one more element stays in its batch.
LEMMA EncryptElementInv ==
  ASSUME EncryptionInv, NEW i \in ThreadIds, Encrypt(i)
  PROVE  EncryptionInv'
<1>1. /\ UNCHANGED <<size, threads, launched, joined, output>>
      /\ Len(part[i]) < Size(i)
      /\ part' = [part EXCEPT ![i] = Append(part[i], Start(i) + Len(part[i]) + 1)]
  BY DEF Encrypt, NextPosition
<1>2. part \in [ThreadIds -> Seq(Nat)]
  BY DEF EncryptionInv, EncryptionTypeOK
<1>3. Start(i) \in Nat /\ Size(i) \in Nat
  BY BatchesTile DEF EncryptionInv
<1> DEFINE new == Append(part[i], Start(i) + Len(part[i]) + 1)
<1>4. /\ new \in Seq(Nat) /\ Len(new) = Len(part[i]) + 1
      /\ \A n \in 1 .. Len(new): new[n] = Start(i) + n
  BY <1>2, <1>3 DEF EncryptionInv, PartsInBatch
<1>5. EncryptionTypeOK'
  BY <1>1, <1>2, <1>4 DEF EncryptionInv, EncryptionTypeOK, ThreadIds
<1>6. PartsInBatch'
  BY <1>1, <1>2, <1>3, <1>4, SameRanges DEF EncryptionInv, PartsInBatch
<1>7. OutputUpToJoined'
  BY <1>1, SameRanges DEF EncryptionInv, OutputUpToJoined, AllJoined
<1> QED
  BY <1>1, <1>5, <1>6, <1>7, SameRanges DEF EncryptionInv

\* What concatenation does to two sequences of numbers.
LEMMA ConcatFacts ==
  ASSUME NEW s \in Seq(Nat), NEW t \in Seq(Nat)
  PROVE  /\ s \o t \in Seq(Nat) /\ Len(s \o t) = Len(s) + Len(t)
         /\ \A n \in 1 .. Len(s): (s \o t)[n] = s[n]
         /\ \A n \in 1 .. Len(t): (s \o t)[Len(s) + n] = t[n]
OBVIOUS

\* Joining the next future extends the output to the end of its batch.
LEMMA JoinInv ==
  ASSUME EncryptionInv, Join
  PROVE  EncryptionInv'
<1>1. /\ UNCHANGED <<size, threads, launched, part>>
      /\ joined < threads /\ joined' = joined + 1
      /\ output' = output \o part[joined]
      /\ Len(part[joined]) >= Size(joined)
  BY DEF Join, Returned
<1>2. joined \in ThreadIds /\ joined \in Nat /\ threads \in Nat /\ output \in Seq(Nat)
  BY <1>1, BoundsAssumption DEF EncryptionInv, EncryptionTypeOK, ThreadIds
<1>3. part \in [ThreadIds -> Seq(Nat)]
  BY DEF EncryptionInv, EncryptionTypeOK
<1>4. /\ Start(joined) \in Nat /\ Size(joined) \in Nat
      /\ Start(joined) + Size(joined) = IF joined + 1 = threads THEN size ELSE Start(joined + 1)
  BY <1>2, BatchesTile DEF EncryptionInv
<1>5. Len(part[joined]) = Size(joined)
  BY <1>1, <1>2, <1>3, <1>4 DEF EncryptionInv, PartsInBatch
<1>6. \A n \in 1 .. Len(part[joined]): part[joined][n] = Start(joined) + n
  BY <1>2 DEF EncryptionInv, PartsInBatch
<1>7. Len(output) = Start(joined) /\ \A n \in 1 .. Len(output): output[n] = n
  BY <1>1, <1>2 DEF EncryptionInv, OutputUpToJoined, AllJoined
<1>8. /\ output' \in Seq(Nat)
      /\ Len(output') = Start(joined) + Size(joined)
      /\ \A n \in 1 .. Len(output'): output'[n] = n
  <2> DEFINE t == part[joined]
  <2>1. t \in Seq(Nat) /\ Len(t) = Size(joined) /\ Len(output) = Start(joined)
    BY <1>2, <1>3, <1>5, <1>7
  <2>2. \A n \in 1 .. Len(t): t[n] = Len(output) + n
    BY <1>6, <1>7
  <2>3. output' = output \o t
    BY <1>1
  <2> HIDE DEF t
  <2>4. /\ output' \in Seq(Nat) /\ Len(output') = Len(output) + Len(t)
        /\ \A n \in 1 .. Len(output): output'[n] = output[n]
        /\ \A n \in 1 .. Len(t): output'[Len(output) + n] = t[n]
    BY <1>2, <2>1, <2>3, ConcatFacts
  <2>5. ASSUME NEW n \in 1 .. Len(output') PROVE output'[n] = n
    <3>1. CASE n <= Len(output)
      BY <1>7, <2>4, <3>1
    <3>2. CASE n > Len(output)
      <4>1. n - Len(output) \in 1 .. Len(t) /\ n = Len(output) + (n - Len(output))
        BY <1>2, <2>1, <2>4, <3>2
      <4>2. output'[n] = t[n - Len(output)]
        BY <2>4, <4>1
      <4>3. t[n - Len(output)] = Len(output) + (n - Len(output))
        BY <2>2, <4>1
      <4> QED
        BY <4>1, <4>2, <4>3
    <3>3. n \in Nat /\ Len(output) \in Nat
      BY <1>2, <2>4
    <3> QED
      BY <3>1, <3>2, <3>3
  <2> QED
    BY <2>1, <2>4, <2>5
<1>9. EncryptionTypeOK'
  BY <1>1, <1>2, <1>8 DEF EncryptionInv, EncryptionTypeOK, ThreadIds
<1>10. OutputUpToJoined'
  BY <1>1, <1>2, <1>4, <1>8, SameRanges DEF OutputUpToJoined, AllJoined
<1>11. PartsInBatch'
  BY <1>1, SameRanges DEF EncryptionInv, PartsInBatch
<1> QED
  BY <1>1, <1>9, <1>10, <1>11, SameRanges DEF EncryptionInv

\* Every step preserves the invariant.
LEMMA EncryptionNextInv == EncryptionInv /\ [EncryptionNext]_encryptionVars => EncryptionInv'
<1> SUFFICES ASSUME EncryptionInv, [EncryptionNext]_encryptionVars PROVE EncryptionInv'
  OBVIOUS
<1>1. CASE EncryptAlone
  <2>1. /\ UNCHANGED <<size, threads, launched, part>>
        /\ threads = 1 /\ joined' = 1
        /\ output' = [n \in 1 .. size |-> n]
    BY <1>1 DEF EncryptAlone
  <2>2. size \in Nat
    BY BoundsAssumption DEF EncryptionInv, EncryptionTypeOK
  <2>3. output' \in Seq(Nat) /\ Len(output') = size
    BY <2>1, <2>2
  <2>4. EncryptionTypeOK'
    BY <2>1, <2>3 DEF EncryptionInv, EncryptionTypeOK, ThreadIds
  <2>5. PartsInBatch'
    BY <2>1, SameRanges DEF EncryptionInv, PartsInBatch
  <2>6. OutputUpToJoined'
    BY <2>1, <2>2, <2>3 DEF OutputUpToJoined, AllJoined
  <2> QED
    BY <2>1, <2>4, <2>5, <2>6, SameRanges DEF EncryptionInv
<1>2. CASE Launch
  <2>1. UNCHANGED <<size, threads, part, joined, output>>
    BY <1>2 DEF Launch
  <2>2. EncryptionTypeOK'
    BY <1>2, BoundsAssumption DEF Launch, ToLaunch, EncryptionInv, EncryptionTypeOK, ThreadIds
  <2>3. PartsInBatch' /\ OutputUpToJoined'
    BY <2>1, SameRanges DEF EncryptionInv, PartsInBatch, OutputUpToJoined, AllJoined
  <2> QED
    BY <2>1, <2>2, <2>3, SameRanges DEF EncryptionInv
<1>3. CASE Join
  BY <1>3, JoinInv
<1>4. ASSUME NEW i \in ThreadIds, Encrypt(i) PROVE EncryptionInv'
  BY <1>4, EncryptElementInv
<1>5. CASE UNCHANGED encryptionVars
  <2>1. UNCHANGED <<size, threads, launched, part, joined, output>>
    BY <1>5 DEF encryptionVars
  <2> QED
    BY <2>1, SameRanges DEF EncryptionInv, EncryptionTypeOK, PartsInBatch, OutputUpToJoined, AllJoined, ThreadIds
<1> QED
  BY <1>1, <1>2, <1>3, <1>4, <1>5 DEF EncryptionNext, EncryptionTerminated

\* The invariant holds throughout.
THEOREM EncryptInvariant == EncryptionSpec => []EncryptionInv
<1> QED
  BY EncryptionInitInv, EncryptionNextInv, PTL DEF EncryptionSpec

\* No thread reads behind the dataset when the batches fit.
THEOREM EncryptReadsDatasetOnly == EncryptionSpec => []ReadsDatasetOnly
<1>1. EncryptionInv => ReadsDatasetOnly
  <2> SUFFICES ASSUME EncryptionInv, NEW i \in ThreadIds, NEW n \in 1 .. Len(part[i])
               PROVE  part[i][n] \in 1 .. size
    BY DEF ReadsDatasetOnly
  <2>1. part[i] \in Seq(Nat) /\ size \in Nat
    BY BoundsAssumption DEF EncryptionInv, EncryptionTypeOK
  <2>2. Start(i) \in Nat /\ Size(i) \in Nat /\ Start(i) + Size(i) <= size
    BY BatchesTile DEF EncryptionInv
  <2>3. part[i][n] = Start(i) + n /\ Len(part[i]) <= Size(i)
    BY DEF EncryptionInv, PartsInBatch
  <2> QED
    BY <2>1, <2>2, <2>3
<1> QED
  BY <1>1, EncryptInvariant, PTL

\* No two threads encrypt the same element when the batches fit.
THEOREM EncryptBatchesDisjoint == EncryptionSpec => []BatchesDisjoint
<1>1. ASSUME EncryptionInv, NEW i \in ThreadIds, NEW m \in ThreadIds, i < m,
             NEW n \in 1 .. Len(part[i]), NEW l \in 1 .. Len(part[m])
      PROVE  part[i][n] < part[m][l]
  <2>1. /\ size \in Nat /\ threads \in Nat \ {0} /\ i \in Nat /\ m \in Nat
        /\ i + 1 # threads /\ i + 1 <= m
        /\ part[i] \in Seq(Nat) /\ part[m] \in Seq(Nat)
    BY <1>1, BoundsAssumption DEF EncryptionInv, EncryptionTypeOK, ThreadIds
  <2>2. Start(i + 1) <= Start(m)
    BY <2>1, BatchType, StartFacts
  <2>3. /\ Start(i) \in Nat /\ Size(i) \in Nat /\ Start(m) \in Nat
        /\ Start(i) + Size(i) = Start(i + 1)
    BY <1>1, <2>1, BatchesTile DEF EncryptionInv
  <2>4. part[i][n] = Start(i) + n /\ Len(part[i]) <= Size(i) /\ part[m][l] = Start(m) + l
    BY <1>1 DEF EncryptionInv, PartsInBatch
  <2> QED
    BY <2>1, <2>2, <2>3, <2>4, SMTT(30)
<1>2. EncryptionInv => BatchesDisjoint
  <2> SUFFICES ASSUME EncryptionInv, NEW i \in ThreadIds, NEW m \in ThreadIds, i # m,
                      NEW n \in 1 .. Len(part[i]), NEW l \in 1 .. Len(part[m])
               PROVE  part[i][n] # part[m][l]
    BY DEF BatchesDisjoint
  <2>1. i \in Int /\ m \in Int
    BY DEF ThreadIds
  <2>2. part[i][n] \in Nat /\ part[m][l] \in Nat
    BY DEF EncryptionInv, EncryptionTypeOK
  <2>3. CASE i < m
    BY <1>1, <2>2, <2>3
  <2>4. CASE m < i
    BY <1>1, <2>2, <2>4
  <2> QED
    BY <2>1, <2>3, <2>4
<1> QED
  BY <1>2, EncryptInvariant, PTL

\* What the threads produce is the dataset, once and in order.
THEOREM EncryptOutputInOrder == EncryptionSpec => []OutputInOrder
<1>1. EncryptionInv => OutputInOrder
  BY DEF EncryptionInv, OutputUpToJoined, OutputInOrder
<1> QED
  BY <1>1, EncryptInvariant, PTL

\* Types of the parallel encryption.
THEOREM EncryptTypes == EncryptionSpec => []EncryptionTypeOK
<1>1. EncryptionInv => EncryptionTypeOK
  BY DEF EncryptionInv
<1> QED
  BY <1>1, EncryptInvariant, PTL
=============================================================================
