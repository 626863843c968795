----------------------------- MODULE SimplePir -----------------------------
(***************************************************************************)
(* One bin's private information retrieval as the two processes compute    *)
(* it: the choice of the parameters (src/go/protocol.go GetParams), the    *)
(* database (database.go), and hint, query, answer and recovery of the     *)
(* vendored scheme (simple_pir.go, params.go, matrix.go, pir.c).           *)
(*                                                                         *)
(* Arithmetic is modulo 2^Logq, with every wrap-around the code has.  The  *)
(* widths, the table of parameters and what is drawn at random are         *)
(* parameters.  Hint and answer reach the client rounded, as ModuloSwitch  *)
(* has it; its carry, and DBInfo.Packing beyond one entry per element,     *)
(* which Squish rules out, are left out.                                   *)
(***************************************************************************)
EXTENDS Integers, Sequences, Sums

CONSTANTS Logq,          \* params.Logq
          Basis,         \* bits of a squished element
          RowLength,     \* entryBits: bits of an entry
          Unit,          \* two to the power Logq - MOD_SWITCH_BITS
          LweN,          \* params.N
          Table,         \* params.csv: a sequence of [m |-> columns, p |-> modulus]
          Geometries,    \* [buckets, size, perCol]: HashtableSize, BucketSize, BucketsPerCol
          Moduli,        \* what --mod may give, among them Unset
          Datasets(_),   \* the datasets of n entries
          Seeds,         \* seeds of the LWE matrix
          Stream(_, _),  \* what the generator of a seed puts out, element by element
          Draws(_)       \* what GaussSample may draw m times: [x, negative]

Unset == -1
Squishing == 3

Q == Power(2, Logq)

\* The numbers of the scheme are positive, and three elements fit in a word; a
\* modulus has two digits at least, and no bin is without buckets.
ASSUME PirAssumption ==
  /\ {Logq, Basis, RowLength, Unit, LweN} \subseteq Nat \ {0}
  /\ Squishing * Basis <= Logq
  /\ Moduli \subseteq {Unset} \cup (Nat \ {0, 1})
  /\ Geometries \subseteq [buckets: Nat \ {0}, size: Nat, perCol: Nat \ {0}]
  /\ Table \in Seq([m: Nat, p: 2 .. Power(2, Basis)])

\* A dataset is of bytes; what is drawn, where it is used, is words.
ASSUME InputAssumption ==
  \A g \in Geometries:
    /\ \A d \in Datasets(g.buckets * g.size):
         d \in [1 .. g.buckets * g.size -> 0 .. Power(2, RowLength) - 1]
    /\ \A s \in Seeds: \A i \in 0 .. g.buckets * LweN - 1: Stream(s, i) \in 0 .. Q - 1
    /\ \A m \in 0 .. g.buckets: \A draw \in Draws(m): \A c \in 0 .. m - 1:
         draw[c].x \in 0 .. Q - 1

VARIABLES geometry, modulus,   \* what both processes are told
          dataset,             \* the bytes of the hashtable, bucket by bucket
          ptMod, params,       \* GetParams: its counter and its best candidate
          seed, hint,          \* of the server: its seed, and the hint
          offline,             \* the hint as the client has it
          asked, secret, error, query,
          answer,              \* of the server
          response,            \* the answer as the client has it
          column,              \* the entries recovered from it
          phase                \* "params", "setup", "hint", "query", "answer", "response",
                               \* "recover", "done" or "panic"

vars == <<geometry, modulus, dataset, ptMod, params, seed, hint, offline, asked, secret,
          error, query, answer, response, column, phase>>

told    == <<geometry, modulus, dataset>>
setUp   == <<ptMod, params, seed, hint, offline>>
queried == <<asked, secret, error, query>>
got     == <<answer, response, column>>

None == <<>>

-----------------------------------------------------------------------------
\* Matrices of words: Add and Sub of a number, and of a vector.
Add(x, val) == (x + val) % Q
Sub(x, val) == (x - val) % Q

MatrixAdd(a, b) == [i \in DOMAIN a |-> Add(a[i], b[i])]
MatrixSub(a, b) == [i \in DOMAIN a |-> Sub(a[i], b[i])]

\* The products of a matrix of rows rows and n columns with another, and with
\* a vector.
MatrixMul(a, rows, n, b, cols) ==
  [r \in 0 .. rows - 1 |-> [c \in 0 .. cols - 1 |->
     Sum(n, [i \in 0 .. n - 1 |-> a[r][i] * b[i][c]]) % Q]]

MatrixMulVec(a, rows, n, v) ==
  [r \in 0 .. rows - 1 |-> Sum(n, [i \in 0 .. n - 1 |-> a[r][i] * v[i]]) % Q]

AppendZeros(v, rows, n) == [i \in 0 .. rows + n - 1 |-> IF i < rows THEN v[i] ELSE 0]

\* The matrix of the generator of seed s, filled row by row.
FasterMatrixRand(s, rows, cols) ==
  [r \in 0 .. rows - 1 |-> [c \in 0 .. cols - 1 |-> Stream(s, cols * r + c)]]

\* Each third of the words stands for one value; the last for -1.
OneThird == (Q - 1) \div 3
Ternary(number) ==
  IF number < OneThird THEN 0 ELSE IF number < 2 * OneThird THEN 1 ELSE Q - 1
Ternaries == {Ternary(number): number \in 0 .. Q - 1}

\* A negative sample wraps around when it becomes a word.
GaussSample(draw) == IF draw.negative THEN Sub(0, draw.x) ELSE draw.x
MatrixGaussian(m) == {[c \in 0 .. m - 1 |-> GaussSample(draw[c])]: draw \in Draws(m)}

-----------------------------------------------------------------------------
\* DBBytes.
NEntries == geometry.buckets * geometry.size

\* Num_DB_entries: elements of Z_p an entry takes.
ElemsPerEntry(p) == CHOOSE k \in 1 .. RowLength:
                       /\ Power(p, k) >= Power(2, RowLength)
                       /\ \A j \in 1 .. k - 1: Power(p, j) < Power(2, RowLength)

\* GetDatabaseDims.
Rows(p) == geometry.perCol * geometry.size * ElemsPerEntry(p)
Cols(p) == (NEntries * ElemsPerEntry(p)) \div Rows(p)
DimsPanic(p) == Rows(p) = 0 \/ Rows(p) * Cols(p) < NEntries * ElemsPerEntry(p)

\* PickParams: the first line with room for so many samples.
Line(m) == {k \in DOMAIN Table: m <= Table[k].m /\ \A j \in 1 .. k - 1: Table[j].m < m}

Given(p) == [l |-> Rows(p), m |-> Cols(p), p |-> p]
Candidate(t) == [l |-> Rows(t), m |-> Cols(t),
                 p |-> (CHOOSE row \in {Table[k]: k \in Line(Cols(t))}: TRUE).p]

Init ==
  /\ geometry \in Geometries
  /\ modulus \in Moduli
  /\ dataset \in Datasets(NEntries)
  /\ ptMod = 2 /\ params = None
  /\ seed = -1 /\ hint = None /\ offline = None
  /\ asked = -1 /\ secret = None /\ error = None /\ query = None
  /\ answer = None /\ response = None /\ column = None
  /\ phase = "params"

UseGiven ==
  /\ phase = "params" /\ modulus # Unset
  /\ IF DimsPanic(modulus)
       THEN phase' = "panic" /\ UNCHANGED params
       ELSE phase' = "setup" /\ params' = Given(modulus)
  /\ UNCHANGED <<told, ptMod, seed, hint, offline, queried, got>>

\* Mutant: the candidate that is too small is returned.
TheCandidate(t) == Candidate(t)

\* What the loop returns: the candidate before the one that is too small.
Best(t) == params

Refine ==
  /\ phase = "params" /\ modulus = Unset
  /\ IF DimsPanic(ptMod) \/ Line(Cols(ptMod)) = {}
       THEN phase' = "panic" /\ UNCHANGED <<ptMod, params>>
       ELSE IF Candidate(ptMod).p < ptMod
         THEN /\ params' = Best(ptMod) /\ UNCHANGED ptMod
              /\ phase' = IF params = None THEN "panic" ELSE "setup"
         ELSE params' = Candidate(ptMod) /\ ptMod' = ptMod + 1 /\ UNCHANGED phase
  /\ UNCHANGED <<told, seed, hint, offline, queried, got>>

-----------------------------------------------------------------------------
\* info.Ne.
Ne == ElemsPerEntry(params.p)

\* Base_p, with the rows and columns CreateDatabase puts the digits in.
Digit(p, x, j) == (x \div Power(p, j)) % p
Raw(r, c) ==
  LET i == (c \div Ne) * params.l + r
  IN  IF i < NEntries THEN Digit(params.p, dataset[i + 1], c % Ne) ELSE 0

\* Mutant: the last column is beyond the last column.
OverflowsEarly == (((NEntries - 1) \div params.l) + 1) * Ne >= params.m

\* Set panics beyond the last column.
Overflows == (((NEntries - 1) \div params.l) + 1) * Ne > params.m

\* SetupDBInfo of the client, and SetupDB of the server.
SetupDBInfoPanics == NEntries * Ne > params.l * params.m \/ params.l % Ne # 0
SetupDBPanics == NEntries = 0 \/ NEntries * Ne > params.l * params.m \/ params.l % Ne # 0

\* The check of Squish.
SquishPanics == params.p > Power(2, Basis) \/ Logq < Basis * Squishing

\* Mapped to [-p/2, p/2] for the hint, and back to [0, p] for the answers.
Centred ==
  [r \in 0 .. params.l - 1 |-> [c \in 0 .. params.m - 1 |-> Sub(Raw(r, c), params.p \div 2)]]
Uncentred ==
  [r \in 0 .. params.l - 1 |-> [c \in 0 .. params.m - 1 |-> Add(Centred[r][c], params.p \div 2)]]

\* Both sides expand the same seed.
LweMatrix(s) == FasterMatrixRand(s, params.m, LweN)

\* The product of the database and the LWE matrix.
HintOf(s) == MatrixMul(Centred, params.l, params.m, LweMatrix(s), LweN)

\* ModuloSwitch and ModuloSwitchBack of a word: it is rounded down or, unless
\* nothing is dropped, up; then of a vector and of a matrix.
RoundedTo(x, up) == (((x \div Unit) + (IF up THEN 1 ELSE 0)) * Unit) % Q

Switched(v) ==
  {[i \in DOMAIN v |-> RoundedTo(v[i], i \in up)]:
      up \in SUBSET {i \in DOMAIN v: v[i] % Unit # 0}}

SwitchedMatrix(a, rows, cols) ==
  {[r \in 0 .. rows - 1 |-> [c \in 0 .. cols - 1 |-> RoundedTo(a[r][c], <<r, c>> \in up)]]:
      up \in SUBSET {at \in (0 .. rows - 1) \X (0 .. cols - 1): a[at[1]][at[2]] % Unit # 0}}

Setup ==
  /\ phase = "setup"
  /\ IF SetupDBPanics \/ Overflows \/ SquishPanics
       THEN phase' = "panic" /\ UNCHANGED <<seed, hint>>
       ELSE /\ phase' = "hint"
            /\ seed' \in Seeds
            /\ hint' = HintOf(seed')
  /\ UNCHANGED <<told, ptMod, params, offline, queried, got>>

SendHint ==
  /\ phase = "hint"
  /\ IF SetupDBInfoPanics
       THEN phase' = "panic" /\ UNCHANGED offline
       ELSE phase' = "query" /\ offline' \in SwitchedMatrix(hint, params.l, LweN)
  /\ UNCHANGED <<told, ptMod, params, seed, hint, queried, got>>

Delta == Q \div params.p

\* What the client lacks to whole squished elements, and what the server
\* makes of it: the size of the query it reads.
Padding == IF params.m % Squishing # 0 THEN Squishing - (params.m % Squishing) ELSE 0
QuerySize == params.m + Padding

QueryOf(i, s, e) ==
  LET samples == MatrixAdd(MatrixMulVec(LweMatrix(seed), params.m, LweN, s), e)
      marked  == [samples EXCEPT ![i % params.m] = Add(@, Delta)]
  IN  AppendZeros(marked, params.m, Padding)

Query ==
  /\ phase = "query"
  /\ asked' \in 0 .. params.m - 1
  /\ secret' \in [0 .. LweN - 1 -> Ternaries]
  /\ error' \in MatrixGaussian(params.m)
  /\ query' = QueryOf(asked', secret', error')
  /\ phase' = "answer"
  /\ UNCHANGED <<told, setUp, got>>

\* Squish: three elements of a row in one.
SquishedCols == (params.m + Squishing - 1) \div Squishing
Squished(r, j) ==
  Sum(Squishing, [k \in 0 .. Squishing - 1 |->
     IF Squishing * j + k < params.m
       THEN Uncentred[r][Squishing * j + k] * Power(2, k * Basis) ELSE 0]) % Q

\* db & MASK, (db >> BASIS) & MASK, (db >> BASIS2) & MASK.
Unpacked ==
  [r \in 0 .. params.l - 1 |-> [c \in 0 .. SquishedCols * Squishing - 1 |->
     (Squished(r, c \div Squishing) \div Power(2, (c % Squishing) * Basis)) % Power(2, Basis)]]

MatrixMulVecPacked(v) == MatrixMulVec(Unpacked, params.l, SquishedCols * Squishing, v)

Answer ==
  /\ phase = "answer"
  /\ IF SquishedCols * Squishing # QuerySize
       THEN phase' = "panic" /\ UNCHANGED answer
       ELSE phase' = "response" /\ answer' = MatrixMulVecPacked(query)
  /\ UNCHANGED <<told, setUp, queried, response, column>>

SendAnswer ==
  /\ phase = "response"
  /\ response' \in Switched(answer)
  /\ phase' = "recover"
  /\ UNCHANGED <<told, setUp, queried, answer, column>>

-----------------------------------------------------------------------------
\* What mapping the database to [0, p] adds to the answer, to be taken off.
Offset == Q - (((params.p \div 2) * Sum(params.m, query)) % Q)

\* The answer without the product of hint and secret.
Unmasked == MatrixSub(response, MatrixMulVec(offline, params.l, LweN, secret))

\* Not reduced: one bit more than a word.
Noised(r) == Unmasked[r] + Offset

\* Mutant: rounded down.
RoundedDown(x) == (x \div Delta) % params.p

Round(x) == ((x + Delta \div 2) \div Delta) % params.p

\* A recovered element in [0, p] again.
Value(r) == (Round(Noised(r)) + params.p \div 2) % params.p

\* ReconstructElem of the elements from row i * Ne on; of more than a byte
\* only the byte is kept.
Reconstruct_from_base_p(p, n, vals) == Sum(n, [j \in 0 .. n - 1 |-> vals[j] * Power(p, j)])
Entry(i) ==
  Reconstruct_from_base_p(params.p, Ne, [j \in 0 .. Ne - 1 |-> Value(i * Ne + j)])
    % Power(2, RowLength)

\* The loop's i, which it both multiplies by Ne and increases by it.
Turns == {i \in 0 .. params.l - 1: i % Ne = 0}

Recover ==
  /\ phase = "recover"
  /\ IF \E i \in Turns: (i + 1) * Ne > params.l
       THEN phase' = "panic" /\ UNCHANGED column
       ELSE phase' = "done" /\ column' = [i \in Turns |-> Entry(i)]
  /\ UNCHANGED <<told, setUp, queried, answer, response>>

Terminated == phase \in {"done", "panic"} /\ UNCHANGED vars

Next == \/ UseGiven \/ Refine \/ Setup \/ SendHint \/ Query
        \/ Answer \/ SendAnswer \/ Recover \/ Terminated

\* Both processes compute on, and their messages arrive.
Spec == Init /\ [][Next]_vars /\ WF_vars(Next)

-----------------------------------------------------------------------------
\* Types.
TypeOK ==
  /\ geometry \in Geometries /\ modulus \in Moduli
  /\ ptMod \in 2 .. Power(2, Basis) + 1
  /\ params # None => params.p \in 2 .. Q - 1 /\ params.l \in Nat /\ params.m \in Nat
  /\ offline # None => \A r \in 0 .. params.l - 1, k \in 0 .. LweN - 1:
        {hint[r][k], offline[r][k]} \subseteq 0 .. Q - 1
  /\ query # None => DOMAIN query = 0 .. QuerySize - 1
  /\ response # None => \A r \in DOMAIN answer: {answer[r], response[r]} \subseteq 0 .. Q - 1
  /\ column # None => \A i \in DOMAIN column: column[i] \in 0 .. Power(2, RowLength) - 1
  /\ phase \in {"params", "setup", "hint", "query", "answer", "response", "recover", "done", "panic"}

\* x as the number next to zero that is x modulo Q.
Signed(x) == IF x % Q >= Q \div 2 THEN (x % Q) - Q ELSE x % Q

\* What the randomness and the two roundings add to row r of the answer.
Noise(r) ==
  Sum(params.m, [c \in 0 .. params.m - 1 |-> Signed(Centred[r][c]) * Signed(error[c])])
  + Signed(response[r] - answer[r])
  - Sum(LweN, [k \in 0 .. LweN - 1 |-> Signed(offline[r][k] - hint[r][k]) * Signed(secret[k])])

\* It may reach half of Delta either way, but for the remainder of Q by p that
\* each of up to two wrap-arounds of the sum with Offset leaves behind.
Tolerable(r) == /\ -(Delta \div 2) <= Noise(r)
                /\ Noise(r) + 2 * (Q % params.p) < Delta - Delta \div 2

\* Wherever the noise is tolerable the client has the entry of the column it
\* asked for, whatever p, its parity and the padding: the mapping to
\* [-p/2, p/2], the squishing, the 33-bit sum that is rounded and the rounding
\* itself undo each other (protocol.go:120-137, simple_pir.go:127-172).  Only a
\* modulus that splits entries may pass for one entry to a column, of which it
\* then recovers nothing.
RecoversColumn ==
  phase = "done" =>
     \/ Ne > 1 /\ geometry.perCol * geometry.size = 1
     \/ \A r \in 0 .. params.l - 1: Tolerable(r) => column[r] = dataset[asked * params.l + r + 1]

\* The parameters both sides end up with fit together: the height is that of
\* the modulus itself, not of the one the loop tried last, so neither SetupDB
\* nor SetupDBInfo refuses them (protocol.go:54-75, database.go:306-321).
ParamsTight ==
  params # None /\ phase \notin {"params", "panic"} =>
     /\ params = Given(params.p)
     /\ NEntries * Ne <= params.l * params.m

\* A panic has one of five reasons: an empty bin, columns that do not divide
\* the hashtable, more columns than the table has lines for, a modulus given
\* too large to be squished, or one so small that entries are split, which
\* neither the layout nor RecoverColumn handles (protocol.go:143-148).
PanicsForAReason ==
  phase = "panic" =>
     \/ geometry.size = 0
     \/ geometry.buckets % geometry.perCol # 0
     \/ \A k \in DOMAIN Table: geometry.buckets \div geometry.perCol > Table[k].m
     \/ modulus > Power(2, Basis)
     \/ params # None /\ Ne > 1
=============================================================================
