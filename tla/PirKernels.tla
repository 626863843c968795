----------------------------- MODULE PirKernels -----------------------------
(***************************************************************************)
(* The two products the PIR server computes from its database, and the     *)
(* change of the database between them (src/go/simple_pir.go Setup and     *)
(* Answer, with the kernels of matrix.go and pir.c): the hint, one         *)
(* goroutine per row adding into a shared matrix; then the database is     *)
(* shifted and squished in place; then the answers, a block of rows at a   *)
(* time, by goroutines that share the database.                            *)
(*                                                                         *)
(* A number is named by how it came about: an element of the hint or of an *)
(* answer is the sequence of the products added into it, and a product is  *)
(* named by its two factors.  The first is a place in the flat database,   *)
(* and the form it is in: "centred" before it is squished.                 *)
(***************************************************************************)
EXTENDS Integers, Sequences

CONSTANTS Rows, Cols,   \* of the database, before it is squished
          LweN,         \* columns of the LWE matrix
          Squishing,    \* COMPRESSION
          Lanes,        \* rows of a block of matMulVecPacked
          NRequests     \* requests to one database

ASSUME KernelAssumption ==
  /\ {Rows, Cols, LweN, Squishing, Lanes, NRequests} \subseteq Nat \ {0}
  /\ LweN > 1   \* else the product takes another path

RowNumbers == 0 .. Rows - 1
LweColumns == 0 .. LweN - 1
LaneNumbers == 0 .. Lanes - 1
Requests == 0 .. NRequests - 1

\* The rows of a result before DropLastRows: a block more than the database has.
OutRows == 0 .. Rows + Lanes - 1

\* Columns of the squished database.
SquishedCols == (Cols + Squishing - 1) \div Squishing

VARIABLES multi,     \* several threads and one bin: products run in goroutines
          database,  \* "centred" or "squished"
          started,   \* rows of the hint whose product has been started
          k, j,      \* row -> place in the loops of its product
          holding,   \* row -> has it read the element it is adding to
          loaded,    \* row -> what it has read
          hint,      \* row -> LWE column -> products added
          block,     \* request -> first row of the current block (i)
          column,    \* request -> column of it (the inner j)
          index,     \* request -> place in the flat database
          lane,      \* request -> lane -> products added (tmp, tmp2, ...)
          answer     \* request -> row -> products added

hintVars   == <<started, k, j, holding, loaded, hint>>
answerVars == <<block, column, index, lane, answer>>
vars == <<multi, database, hintVars, answerVars>>

Init ==
  /\ multi \in BOOLEAN
  /\ database = "centred"
  /\ started = 0
  /\ k = [r \in RowNumbers |-> 0] /\ j = [r \in RowNumbers |-> 0]
  /\ holding = [r \in RowNumbers |-> FALSE] /\ loaded = [r \in RowNumbers |-> <<>>]
  /\ hint = [r \in RowNumbers |-> [c \in LweColumns |-> <<>>]]
  /\ block = [q \in Requests |-> 0] /\ column = [q \in Requests |-> 0]
  /\ index = [q \in Requests |-> 0]
  /\ lane = [q \in Requests |-> [n \in LaneNumbers |-> <<>>]]
  /\ answer = [q \in Requests |-> [r \in OutRows |-> <<>>]]

-----------------------------------------------------------------------------
Running(r) == r < started /\ k[r] < Cols
Multiplied(r) == r < started /\ k[r] = Cols

\* MultiMatrixMul starts all rows, matMul each after the one before.
StartRow ==
  /\ started < Rows
  /\ multi \/ \A r \in RowNumbers: ~Running(r)
  /\ started' = started + 1
  /\ UNCHANGED <<multi, database, k, j, holding, loaded, hint, answerVars>>

\* Mutant: the goroutine takes the loop's variable, not its own copy of it.
LoopVariable(r) == started - 1

\* The row a goroutine works on: its parameter.
RowOf(r) == r

\* out[...] += a[...] * b[...] is a load ...
Load(r) ==
  /\ Running(r) /\ ~holding[r]
  /\ holding' = [holding EXCEPT ![r] = TRUE]
  /\ loaded' = [loaded EXCEPT ![r] = hint[RowOf(r)][j[r]]]
  /\ UNCHANGED <<multi, database, started, k, j, hint, answerVars>>

\* ... and a store, after which the loops go on with the next j, then the next k.
Store(r) ==
  /\ Running(r) /\ holding[r]
  /\ hint' = [hint EXCEPT ![RowOf(r)][j[r]] =
                 Append(loaded[r], <<database, Cols * RowOf(r) + k[r], LweN * k[r] + j[r]>>)]
  /\ holding' = [holding EXCEPT ![r] = FALSE]
  /\ loaded' = [loaded EXCEPT ![r] = <<>>]
  /\ j' = [j EXCEPT ![r] = IF @ = LweN - 1 THEN 0 ELSE @ + 1]
  /\ k' = [k EXCEPT ![r] = IF j[r] = LweN - 1 THEN @ + 1 ELSE @]
  /\ UNCHANGED <<multi, database, started, answerVars>>

\* waitGroup.Wait().
HintReady == \A r \in RowNumbers: Multiplied(r)

\* Add(p/2) and Squish: the database is changed where it is.
SquishDatabase ==
  /\ database = "centred" /\ HintReady
  /\ database' = "squished"
  /\ UNCHANGED <<multi, hintVars, answerVars>>

-----------------------------------------------------------------------------
\* The products of the values squished into the element at place p, of which
\* the first is multiplied with element c * Squishing of the query.
Squished(form, p, c) == [v \in 0 .. Squishing - 1 |-> <<form, p, v, c * Squishing + v>>]

Answered(q) == block[q] >= Rows

\* With goroutines the answers are computed at once, else one by one.
Answering(q) ==
  /\ database = "squished" /\ ~Answered(q)
  /\ multi \/ \A p \in Requests: p < q => Answered(p)

\* One turn of the inner loop: each lane reads its element of the database,
\* be it behind the last row, and multiplies each value squished into it with
\* its own element of the query.
MultiplyColumn(q) ==
  /\ Answering(q) /\ column[q] < SquishedCols
  /\ lane' = [lane EXCEPT ![q] = [n \in LaneNumbers |->
                 Append(lane[q][n], Squished(database, index[q] + n * SquishedCols, column[q]))]]
  /\ index' = [index EXCEPT ![q] = @ + 1]
  /\ column' = [column EXCEPT ![q] = @ + 1]
  /\ UNCHANGED <<multi, database, hintVars, block, answer>>

\* Mutant: the index is moved on by a whole block.
SkipBlock == SquishedCols * Lanes

\* How far the index moves on after a block, of whose rows it has passed one.
SkipRows == SquishedCols * (Lanes - 1)

WriteBlock(q) ==
  /\ Answering(q) /\ column[q] = SquishedCols
  /\ answer' = [answer EXCEPT ![q] = [r \in OutRows |->
                   IF r - block[q] \in LaneNumbers
                     THEN answer[q][r] \o lane[q][r - block[q]] ELSE answer[q][r]]]
  /\ lane' = [lane EXCEPT ![q] = [n \in LaneNumbers |-> <<>>]]
  /\ index' = [index EXCEPT ![q] = @ + SkipRows]
  /\ column' = [column EXCEPT ![q] = 0]
  /\ block' = [block EXCEPT ![q] = @ + Lanes]
  /\ UNCHANGED <<multi, database, hintVars>>

Terminated == (\A q \in Requests: Answered(q)) /\ UNCHANGED vars

Next == \/ StartRow \/ SquishDatabase
        \/ \E r \in RowNumbers: Load(r) \/ Store(r)
        \/ \E q \in Requests: MultiplyColumn(q) \/ WriteBlock(q)
        \/ Terminated

Spec == Init /\ [][Next]_vars

-----------------------------------------------------------------------------
\* Types.  The place in the flat database is that of the first lane.
TypeOK ==
  /\ multi \in BOOLEAN /\ database \in {"centred", "squished"}
  /\ started \in 0 .. Rows
  /\ k \in [RowNumbers -> 0 .. Cols] /\ j \in [RowNumbers -> LweColumns]
  /\ holding \in [RowNumbers -> BOOLEAN]
  /\ DOMAIN loaded = RowNumbers
  /\ DOMAIN hint = RowNumbers /\ \A r \in RowNumbers: DOMAIN hint[r] = LweColumns
  /\ block \in [Requests -> Nat] /\ column \in [Requests -> 0 .. SquishedCols]
  /\ index \in [Requests -> Nat]
  /\ \A q \in Requests: index[q] = block[q] * SquishedCols + column[q]
  /\ DOMAIN lane = Requests /\ DOMAIN answer = Requests

\* The first m products of an element of the hint: row r of the database, place
\* by place, and column c of the LWE matrix.
HintSum(r, c, m) ==
  [n \in 1 .. m |-> <<"centred", Cols * r + n - 1, LweN * (n - 1) + c>>]

\* The hint is the product of the centred database and the LWE matrix: every
\* element of it is the sum over one row and one column, each product once,
\* however the goroutines interleave, and none was computed after the database
\* had been changed (matrix.go:183-202, pir.c:28-32, simple_pir.go:128-138).
HintIsProduct ==
  \A r \in RowNumbers: Multiplied(r) \/ database = "squished" =>
     \A c \in LweColumns: hint[r][c] = HintSum(r, c, Cols)

\* The first m products of row r of an answer.
RowProducts(r, m) ==
  [c \in 1 .. m |-> Squished("squished", r * SquishedCols + c - 1, c - 1)]

\* Every row of an answer is the product of that row of the squished database
\* and the query, also where the height is no multiple of the block: what is
\* read behind the last row reaches only the rows that DropLastRows removes
\* (pir.c:122-207, matrix.go:260-267).
AnswersAreRows ==
  \A q \in Requests: Answered(q) =>
     \A r \in RowNumbers: answer[q][r] = RowProducts(r, SquishedCols)
=============================================================================
