-------------------------- MODULE ArithmeticProofs --------------------------
(***************************************************************************)
(* Theorems about SimplePir and ModuloSwitch for all widths and inputs.    *)
(* SimplePir: the parameters fit, a panic has a reason, and the column     *)
(* asked for comes back wherever the noise is tolerable.  ModuloSwitch:    *)
(* nothing is written or read behind the end of the message, and what      *)
(* comes back of each element is its rounding, but for the carry of the    *)
(* element before.                                                         *)
(*                                                                         *)
(* The sums are recursive functions.  What they compute is proved by       *)
(* induction over a set of numbers: that the less-than relation is well    *)
(* founded needs no operator as a parameter (lemma Induction).             *)
(***************************************************************************)
EXTENDS SimplePir, ModuloSwitch, WellFoundedInduction, TLAPS

-----------------------------------------------------------------------------
\* Induction, and recursive functions.

\* A set that has zero, and with each number the next, has all numbers.
LEMMA Induction ==
  ASSUME NEW S, 0 \in S, \A n \in Nat: n \in S => n + 1 \in S
  PROVE  Nat \subseteq S
<1> DEFINE Others == Nat \ S
           Less == OpToRel(<, Nat)
<1>1. IsWellFoundedOn(Less, Nat)
  BY NatLessThanWellFounded
<1>2. SUFFICES ASSUME Others # {} PROVE FALSE
  OBVIOUS
<1>3. PICK x \in Others: \A y \in Others: <<y, x>> \notin Less
  BY <1>1, <1>2, WFMin
<1>4. \A y \in Others: ~(y < x)
  BY <1>3 DEF OpToRel
<1>5. x # 0 /\ x - 1 \in Nat /\ x - 1 < x
  OBVIOUS
<1>6. x - 1 \in S
  BY <1>4, <1>5
<1> QED
  BY <1>5, <1>6

\* A nonempty set of numbers has a least one.
LEMMA Least ==
  ASSUME NEW S \in SUBSET Nat, S # {}
  PROVE  \E x \in S: \A y \in S: x <= y
<1> DEFINE Less == OpToRel(<, Nat)
<1>1. IsWellFoundedOn(Less, Nat)
  BY NatLessThanWellFounded
<1>2. PICK x \in S: \A y \in S: <<y, x>> \notin Less
  BY <1>1, WFMin
<1>3. \A y \in S: ~(y < x)
  BY <1>2 DEF OpToRel
<1> QED
  BY <1>3

\* s has the sums of f up to place n.
Sums(s, n, f) == s = [k \in 0 .. n |-> IF k = 0 THEN 0 ELSE s[k - 1] + f[k - 1]]

\* There is such a function, by induction over its length.
LEMMA SumsExist == ASSUME NEW f PROVE \A n \in Nat: \E s: Sums(s, n, f)
<1> DEFINE S == {n \in Nat: \E s: Sums(s, n, f)}
<1>1. 0 \in S
  <2> DEFINE s == [k \in 0 .. 0 |-> 0]
  <2>1. Sums(s, 0, f)
    BY DEF Sums
  <2> QED
    BY <2>1
<1>2. ASSUME NEW n \in Nat, n \in S PROVE n + 1 \in S
  <2>1. PICK s: Sums(s, n, f)
    BY <1>2
  <2> DEFINE t == [k \in 0 .. n + 1 |-> IF k = n + 1 THEN s[n] + f[n] ELSE s[k]]
  <2>2. ASSUME NEW k \in 0 .. n + 1 PROVE t[k] = IF k = 0 THEN 0 ELSE t[k - 1] + f[k - 1]
    <3>1. CASE k = n + 1
      BY <3>1
    <3>2. CASE k # n + 1
      <4>1. k \in 0 .. n /\ t[k] = s[k] /\ (k # 0 => k - 1 \in 0 .. n /\ t[k - 1] = s[k - 1])
        BY <3>2
      <4>2. s[k] = IF k = 0 THEN 0 ELSE s[k - 1] + f[k - 1]
        BY <2>1, <4>1 DEF Sums
      <4> QED
        BY <4>1, <4>2
    <3> QED
      BY <3>1, <3>2
  <2>3. t = [k \in 0 .. n + 1 |-> t[k]]
    OBVIOUS
  <2> HIDE DEF t
  <2>4. Sums(t, n + 1, f)
    BY <2>2, <2>3 DEF Sums
  <2> QED
    BY <2>4
<1> HIDE DEF S
<1>3. Nat \subseteq S
  BY <1>1, <1>2, Induction
<1> QED
  BY <1>3 DEF S

\* The recursive definition of Sum is met.
LEMMA SumDefined == ASSUME NEW f, NEW n \in Nat PROVE \E s: Sums(s, n, f) /\ Sum(n, f) = s[n]
<1> DEFINE s == CHOOSE s: s = [k \in 0 .. n |-> IF k = 0 THEN 0 ELSE s[k - 1] + f[k - 1]]
<1>1. Sums(s, n, f)
  BY SumsExist DEF Sums
<1>2. Sum(n, f) = s[n]
  BY Zenon DEF Sum
<1> QED
  BY <1>1, <1>2

\* Two such functions agree where both are defined, and where f does.
LEMMA SumsUnique ==
  ASSUME NEW f, NEW g, NEW n \in Nat, NEW m \in Nat, NEW s, NEW t,
         Sums(s, n, f), Sums(t, m, g), n <= m, \A k \in 0 .. n - 1: f[k] = g[k]
  PROVE  \A k \in 0 .. n: s[k] = t[k]
<1> DEFINE S == {k \in Nat: k <= n => s[k] = t[k]}
<1>1. 0 \in S
  BY DEF Sums
<1>2. ASSUME NEW k \in Nat, k \in S PROVE k + 1 \in S
  <2>1. SUFFICES ASSUME k + 1 <= n PROVE s[k + 1] = t[k + 1]
    OBVIOUS
  <2>2. s[k + 1] = s[k] + f[k]
    <3>1. k + 1 \in 0 .. n /\ k + 1 # 0 /\ (k + 1) - 1 = k
      BY <2>1
    <3> QED
      BY <3>1 DEF Sums
  <2>3. t[k + 1] = t[k] + g[k]
    <3>1. k + 1 \in 0 .. m /\ k + 1 # 0 /\ (k + 1) - 1 = k
      BY <2>1
    <3> QED
      BY <3>1 DEF Sums
  <2> QED
    BY <1>2, <2>1, <2>2, <2>3
<1> HIDE DEF S
<1>3. Nat \subseteq S
  BY <1>1, <1>2, Induction
<1> QED
  BY <1>3 DEF S

-----------------------------------------------------------------------------
\* Sums: none, one element more, equal elements, their type.

\* A sum of no terms.
LEMMA SumNone == ASSUME NEW f PROVE Sum(0, f) = 0
BY SumDefined DEF Sums

\* A sum of one term more.
LEMMA SumOneMore == ASSUME NEW f, NEW n \in Nat PROVE Sum(n + 1, f) = Sum(n, f) + f[n]
<1>1. PICK t: Sums(t, n + 1, f) /\ Sum(n + 1, f) = t[n + 1]
  BY SumDefined
<1>2. PICK s: Sums(s, n, f) /\ Sum(n, f) = s[n]
  BY SumDefined
<1>3. s[n] = t[n]
  BY <1>1, <1>2, SumsUnique
<1>4. t[n + 1] = t[n] + f[n]
  <2>1. n + 1 \in 0 .. n + 1 /\ n + 1 # 0 /\ (n + 1) - 1 = n
    OBVIOUS
  <2> QED
    BY <1>1, <2>1 DEF Sums
<1> QED
  BY <1>1, <1>2, <1>3, <1>4

\* Equal terms, equal sums.
LEMMA SumSame ==
  ASSUME NEW n \in Nat, NEW f, NEW g, \A k \in 0 .. n - 1: f[k] = g[k]
  PROVE  Sum(n, f) = Sum(n, g)
<1>1. PICK s: Sums(s, n, f) /\ Sum(n, f) = s[n]
  BY SumDefined
<1>2. PICK t: Sums(t, n, g) /\ Sum(n, g) = t[n]
  BY SumDefined
<1> QED
  BY <1>1, <1>2, SumsUnique

\* A sum of integers is one.
LEMMA SumType ==
  ASSUME NEW n \in Nat, NEW f, \A k \in 0 .. n - 1: f[k] \in Int
  PROVE  Sum(n, f) \in Int
<1> DEFINE S == {k \in Nat: k <= n => Sum(k, f) \in Int}
<1>1. 0 \in S
  BY SumNone
<1>2. ASSUME NEW k \in Nat, k \in S PROVE k + 1 \in S
  BY <1>2, SumOneMore
<1> HIDE DEF S
<1>3. Nat \subseteq S
  BY <1>1, <1>2, Induction
<1> QED
  BY <1>3 DEF S

\* A sum of one term.
LEMMA SumOne == ASSUME NEW f, f[0] \in Int PROVE Sum(1, f) = f[0]
<1>1. Sum(0 + 1, f) = Sum(0, f) + f[0]
  BY SumOneMore
<1> QED
  BY <1>1, SumNone

\* A sum of sums, a multiple of a sum.
LEMMA SumAdds ==
  ASSUME NEW n \in Nat, NEW f, NEW g, \A k \in 0 .. n - 1: f[k] \in Int /\ g[k] \in Int
  PROVE  Sum(n, [k \in 0 .. n - 1 |-> f[k] + g[k]]) = Sum(n, f) + Sum(n, g)
<1> DEFINE h == [k \in 0 .. n - 1 |-> f[k] + g[k]]
           S == {k \in Nat: k <= n => Sum(k, h) = Sum(k, f) + Sum(k, g)}
<1>1. 0 \in S
  BY SumNone
<1>2. ASSUME NEW k \in Nat, k \in S PROVE k + 1 \in S
  <2>1. SUFFICES ASSUME k + 1 <= n PROVE Sum(k + 1, h) = Sum(k + 1, f) + Sum(k + 1, g)
    OBVIOUS
  <2>2. k \in 0 .. n - 1 /\ h[k] = f[k] + g[k] /\ f[k] \in Int /\ g[k] \in Int
    BY <2>1
  <2>3. Sum(k, h) = Sum(k, f) + Sum(k, g)
    BY <1>2, <2>1
  <2>4. Sum(k, f) \in Int /\ Sum(k, g) \in Int
    <3>1. \A i \in 0 .. k - 1: f[i] \in Int /\ g[i] \in Int
      BY <2>1
    <3> QED
      BY <3>1, SumType
  <2>5. /\ Sum(k + 1, h) = Sum(k, h) + h[k] /\ Sum(k + 1, f) = Sum(k, f) + f[k]
        /\ Sum(k + 1, g) = Sum(k, g) + g[k]
    BY SumOneMore
  <2> HIDE DEF h
  <2> QED
    BY <2>2, <2>3, <2>4, <2>5
<1> HIDE DEF S
<1>3. Nat \subseteq S
  BY <1>1, <1>2, Induction
<1> QED
  BY <1>3 DEF S

\* A factor goes in front of the sum.
LEMMA SumTimes ==
  ASSUME NEW n \in Nat, NEW f, \A k \in 0 .. n - 1: f[k] \in Int, NEW x \in Int
  PROVE  Sum(n, [k \in 0 .. n - 1 |-> x * f[k]]) = x * Sum(n, f)
<1> DEFINE h == [k \in 0 .. n - 1 |-> x * f[k]]
           S == {k \in Nat: k <= n => Sum(k, h) = x * Sum(k, f)}
<1>1. 0 \in S
  BY SumNone
<1>2. ASSUME NEW k \in Nat, k \in S PROVE k + 1 \in S
  <2>1. SUFFICES ASSUME k + 1 <= n PROVE Sum(k + 1, h) = x * Sum(k + 1, f)
    OBVIOUS
  <2>2. k \in 0 .. n - 1 /\ h[k] = x * f[k] /\ f[k] \in Int
    BY <2>1
  <2>3. Sum(k, h) = x * Sum(k, f)
    BY <1>2, <2>1
  <2>4. Sum(k, f) \in Int
    BY <2>1, SumType
  <2>5. Sum(k + 1, h) = Sum(k, h) + h[k] /\ Sum(k + 1, f) = Sum(k, f) + f[k]
    BY SumOneMore
  <2>6. x * (Sum(k, f) + f[k]) = x * Sum(k, f) + x * f[k]
    BY <2>2, <2>4
  <2> HIDE DEF h
  <2> QED
    BY <2>2, <2>3, <2>5, <2>6
<1> HIDE DEF S
<1>3. Nat \subseteq S
  BY <1>1, <1>2, Induction
<1> QED
  BY <1>3 DEF S

\* Of zeros, and of the one element that is none.
LEMMA SumZeros ==
  ASSUME NEW n \in Nat, NEW f, \A k \in 0 .. n - 1: f[k] = 0
  PROVE  Sum(n, f) = 0
<1> DEFINE S == {k \in Nat: k <= n => Sum(k, f) = 0}
<1>1. 0 \in S
  BY SumNone
<1>2. ASSUME NEW k \in Nat, k \in S PROVE k + 1 \in S
  BY <1>2, SumOneMore
<1> HIDE DEF S
<1>3. Nat \subseteq S
  BY <1>1, <1>2, Induction
<1> QED
  BY <1>3 DEF S

\* A sum with one term that is not zero.
LEMMA SumOnly ==
  ASSUME NEW n \in Nat, NEW f, NEW i \in 0 .. n - 1, f[i] \in Int,
         \A k \in 0 .. n - 1: k # i => f[k] = 0
  PROVE  Sum(n, f) = f[i]
<1> DEFINE S == {k \in Nat: k <= n => Sum(k, f) = IF i < k THEN f[i] ELSE 0}
<1>1. 0 \in S
  BY SumNone
<1>2. ASSUME NEW k \in Nat, k \in S PROVE k + 1 \in S
  BY <1>2, SumOneMore
<1> HIDE DEF S
<1>3. Nat \subseteq S
  BY <1>1, <1>2, Induction
<1> QED
  BY <1>3 DEF S

\* What follows is zero.
LEMMA SumPadded ==
  ASSUME NEW n \in Nat, NEW m \in Nat, n <= m, NEW f, \A k \in 0 .. n - 1: f[k] \in Int,
         \A k \in n .. m - 1: f[k] = 0
  PROVE  Sum(m, f) = Sum(n, f)
<1> DEFINE S == {k \in Nat: n <= k /\ k <= m => Sum(k, f) = Sum(n, f)}
<1>1. 0 \in S
  OBVIOUS
<1>2. ASSUME NEW k \in Nat, k \in S PROVE k + 1 \in S
  <2>1. SUFFICES ASSUME n <= k + 1, k + 1 <= m, n # k + 1 PROVE Sum(k + 1, f) = Sum(n, f)
    OBVIOUS
  <2>2. Sum(k + 1, f) = Sum(k, f) + f[k] /\ f[k] = 0 /\ Sum(n, f) \in Int
    BY <2>1, SumOneMore, SumType
  <2> QED
    BY <1>2, <2>1, <2>2
<1> HIDE DEF S
<1>3. Nat \subseteq S
  BY <1>1, <1>2, Induction
<1> QED
  BY <1>3 DEF S

\* One step of it, on its own.
LEMMA Distributed ==
  ASSUME NEW b \in Int, NEW c \in Int, NEW d \in Int, NEW e \in Int
  PROVE  (b + c * d) * e = b * e + c * (d * e)
<1>1. (c * d) * e = c * (d * e)
  OBVIOUS
<1>2. c * d \in Int
  OBVIOUS
<1> QED
  BY <1>1, <1>2

\* A double sum may be taken in either order: the product of three matrices.
ByRows(n, m, x, a, y) ==
  Sum(n, [c \in 0 .. n - 1 |-> x[c] * Sum(m, [k \in 0 .. m - 1 |-> a[c][k] * y[k]])])
ByColumns(n, m, x, a, y) ==
  Sum(m, [k \in 0 .. m - 1 |-> Sum(n, [c \in 0 .. n - 1 |-> x[c] * a[c][k]]) * y[k]])

\* By rows and by columns.
LEMMA SumExchange ==
  ASSUME NEW n \in Nat, NEW m \in Nat, NEW x, NEW a, NEW y,
         \A c \in 0 .. n - 1: x[c] \in Int, \A k \in 0 .. m - 1: y[k] \in Int,
         \A c \in 0 .. n - 1: \A k \in 0 .. m - 1: a[c][k] \in Int
  PROVE  ByRows(n, m, x, a, y) = ByColumns(n, m, x, a, y)
<1> DEFINE inner(c) == Sum(m, [k \in 0 .. m - 1 |-> a[c][k] * y[k]])
           left == [c \in 0 .. n - 1 |-> x[c] * inner(c)]
           down(k) == [c \in 0 .. n - 1 |-> x[c] * a[c][k]]
           right(j) == [k \in 0 .. m - 1 |-> Sum(j, down(k)) * y[k]]
           S == {j \in Nat: j <= n => Sum(j, left) = Sum(m, right(j))}
<1>1. 0 \in S
  <2>1. \A k \in 0 .. m - 1: right(0)[k] = 0
    BY SumNone
  <2> HIDE DEF right
  <2>2. Sum(m, right(0)) = 0 /\ Sum(0, left) = 0
    BY <2>1, SumZeros, SumNone
  <2> QED
    BY <2>2
<1>2. ASSUME NEW j \in Nat, j \in S PROVE j + 1 \in S
  <2>1. SUFFICES ASSUME j + 1 <= n PROVE Sum(j + 1, left) = Sum(m, right(j + 1))
    OBVIOUS
  <2>2. j \in 0 .. n - 1 /\ x[j] \in Int /\ Sum(j, left) = Sum(m, right(j))
    BY <1>2, <2>1
  <2> DEFINE row == [k \in 0 .. m - 1 |-> a[j][k] * y[k]]
             added == [k \in 0 .. m - 1 |-> x[j] * row[k]]
  <2>3. \A k \in 0 .. m - 1: row[k] \in Int
    BY <2>2
  <2>4. Sum(j + 1, left) = Sum(j, left) + x[j] * Sum(m, row)
    BY <2>2, SumOneMore
  <2>5. Sum(m, added) = x[j] * Sum(m, row)
    <3> HIDE DEF row
    <3> QED
      BY <2>2, <2>3, SumTimes
  <2>6. \A k \in 0 .. m - 1: /\ Sum(j, down(k)) \in Int /\ down(k)[j] = x[j] * a[j][k]
                             /\ Sum(j + 1, down(k)) = Sum(j, down(k)) + down(k)[j]
    <3> TAKE k \in 0 .. m - 1
    <3>1. \A c \in 0 .. j - 1: down(k)[c] \in Int
      BY <2>1
    <3>2. down(k)[j] = x[j] * a[j][k]
      BY <2>2
    <3> HIDE DEF down
    <3> QED
      BY <3>1, <3>2, SumType, SumOneMore
  <2>7. \A k \in 0 .. m - 1: /\ right(j)[k] \in Int /\ added[k] \in Int
                             /\ right(j + 1)[k] = right(j)[k] + added[k]
    <3> TAKE k \in 0 .. m - 1
    <3>1. /\ right(j)[k] = Sum(j, down(k)) * y[k] /\ added[k] = x[j] * (a[j][k] * y[k])
          /\ right(j + 1)[k] = Sum(j + 1, down(k)) * y[k]
      OBVIOUS
    <3>2. a[j][k] \in Int /\ y[k] \in Int /\ Sum(j, down(k)) \in Int
          /\ Sum(j + 1, down(k)) = Sum(j, down(k)) + x[j] * a[j][k]
      BY <2>2, <2>6
    <3> DEFINE before == Sum(j, down(k))
    <3> HIDE DEF before, right, added, down
    <3> DEFINE xj == x[j]
               ajk == a[j][k]
               yk == y[k]
    <3>3. before \in Int /\ xj \in Int /\ ajk \in Int /\ yk \in Int
      BY <2>2, <3>2 DEF before
    <3>4. /\ right(j + 1)[k] = (before + xj * ajk) * yk /\ right(j)[k] = before * yk
          /\ added[k] = xj * (ajk * yk)
      BY <3>1, <3>2 DEF before
    <3> HIDE DEF xj, ajk, yk
    <3>5. (before + xj * ajk) * yk = before * yk + xj * (ajk * yk)
      BY <3>3, Distributed
    <3>6. before * yk \in Int /\ xj * (ajk * yk) \in Int
      <4> HIDE <2>2, <3>1, <3>2, <3>4, <3>5
      <4> QED
        BY <3>3
    <3> QED
      BY <3>4, <3>5, <3>6
  <2>8. Sum(m, right(j + 1)) = Sum(m, right(j)) + Sum(m, added)
    <3> DEFINE both == [k \in 0 .. m - 1 |-> right(j)[k] + added[k]]
    <3>1. \A k \in 0 .. m - 1: right(j + 1)[k] = both[k]
      BY <2>7
    <3> HIDE DEF right, added
    <3>2. Sum(m, both) = Sum(m, right(j)) + Sum(m, added)
      BY <2>7, SumAdds
    <3> HIDE DEF both
    <3> QED
      BY <3>1, <3>2, SumSame
  <2> HIDE DEF left, right, row, added
  <2> QED
    BY <2>2, <2>4, <2>5, <2>8
<1> HIDE DEF S
<1>3. Nat \subseteq S
  BY <1>1, <1>2, Induction
<1>4. n \in S
  BY <1>3
<1>5. Sum(n, left) = Sum(m, right(n))
  <2> HIDE DEF left, right
  <2> QED
    BY <1>4 DEF S
<1> QED
  BY <1>5 DEF ByRows, ByColumns

-----------------------------------------------------------------------------
\* Powers.

\* w has the powers of b up to the one of n.
Powers(w, n, b) == w = [k \in 0 .. n |-> IF k = 0 THEN 1 ELSE b * w[k - 1]]

\* There is such a function, by induction over its length.
LEMMA PowersExist == ASSUME NEW b PROVE \A n \in Nat: \E w: Powers(w, n, b)
<1> DEFINE S == {n \in Nat: \E w: Powers(w, n, b)}
<1>1. 0 \in S
  <2> DEFINE w == [k \in 0 .. 0 |-> 1]
  <2>1. Powers(w, 0, b)
    BY DEF Powers
  <2> QED
    BY <2>1
<1>2. ASSUME NEW n \in Nat, n \in S PROVE n + 1 \in S
  <2>1. PICK w: Powers(w, n, b)
    BY <1>2
  <2> DEFINE v == [k \in 0 .. n + 1 |-> IF k = n + 1 THEN b * w[n] ELSE w[k]]
  <2>2. ASSUME NEW k \in 0 .. n + 1 PROVE v[k] = IF k = 0 THEN 1 ELSE b * v[k - 1]
    <3>1. CASE k = n + 1
      BY <3>1
    <3>2. CASE k # n + 1
      <4>1. k \in 0 .. n /\ v[k] = w[k] /\ (k # 0 => k - 1 \in 0 .. n /\ v[k - 1] = w[k - 1])
        BY <3>2
      <4>2. w[k] = IF k = 0 THEN 1 ELSE b * w[k - 1]
        BY <2>1, <4>1 DEF Powers
      <4> QED
        BY <4>1, <4>2
    <3> QED
      BY <3>1, <3>2
  <2>3. v = [k \in 0 .. n + 1 |-> v[k]]
    OBVIOUS
  <2> HIDE DEF v
  <2>4. Powers(v, n + 1, b)
    BY <2>2, <2>3 DEF Powers
  <2> QED
    BY <2>4
<1> HIDE DEF S
<1>3. Nat \subseteq S
  BY <1>1, <1>2, Induction
<1> QED
  BY <1>3 DEF S

\* Power is the last entry of such a function.
LEMMA PowerDefined ==
  ASSUME NEW b, NEW n \in Nat PROVE \E w: Powers(w, n, b) /\ Power(b, n) = w[n]
<1> DEFINE w == CHOOSE w: w = [k \in 0 .. n |-> IF k = 0 THEN 1 ELSE b * w[k - 1]]
<1>1. Powers(w, n, b)
  BY PowersExist DEF Powers
<1>2. Power(b, n) = w[n]
  BY Zenon DEF Power
<1> QED
  BY <1>1, <1>2

\* Two such functions agree as far as both go.
LEMMA PowersUnique ==
  ASSUME NEW b, NEW n \in Nat, NEW m \in Nat, NEW w, NEW v,
         Powers(w, n, b), Powers(v, m, b), n <= m
  PROVE  \A k \in 0 .. n: w[k] = v[k]
<1> DEFINE S == {k \in Nat: k <= n => w[k] = v[k]}
<1>1. 0 \in S
  BY DEF Powers
<1>2. ASSUME NEW k \in Nat, k \in S PROVE k + 1 \in S
  <2>1. SUFFICES ASSUME k + 1 <= n PROVE w[k + 1] = v[k + 1]
    OBVIOUS
  <2>2. k + 1 \in 0 .. n /\ k + 1 \in 0 .. m /\ k + 1 # 0 /\ (k + 1) - 1 = k
    BY <2>1
  <2>3. w[k + 1] = b * w[k] /\ v[k + 1] = b * v[k]
    BY <2>2 DEF Powers
  <2> QED
    BY <1>2, <2>1, <2>3
<1> HIDE DEF S
<1>3. Nat \subseteq S
  BY <1>1, <1>2, Induction
<1> QED
  BY <1>3 DEF S

\* The power of zero.
LEMMA PowerNone == ASSUME NEW b PROVE Power(b, 0) = 1
BY PowerDefined DEF Powers

\* The next power.
LEMMA PowerOneMore == ASSUME NEW b, NEW n \in Nat PROVE Power(b, n + 1) = b * Power(b, n)
<1>1. PICK v: Powers(v, n + 1, b) /\ Power(b, n + 1) = v[n + 1]
  BY PowerDefined
<1>2. PICK w: Powers(w, n, b) /\ Power(b, n) = w[n]
  BY PowerDefined
<1>3. w[n] = v[n]
  BY <1>1, <1>2, PowersUnique
<1>4. v[n + 1] = b * v[n]
  <2>1. n + 1 \in 0 .. n + 1 /\ n + 1 # 0 /\ (n + 1) - 1 = n
    OBVIOUS
  <2> QED
    BY <1>1, <2>1 DEF Powers
<1> QED
  BY <1>1, <1>2, <1>3, <1>4

\* Powers of positive numbers are positive.
LEMMA PowerType == ASSUME NEW b \in Nat \ {0}, NEW n \in Nat PROVE Power(b, n) \in Nat \ {0}
<1> DEFINE S == {k \in Nat: Power(b, k) \in Nat \ {0}}
<1>1. 0 \in S
  BY PowerNone
<1>2. ASSUME NEW k \in Nat, k \in S PROVE k + 1 \in S
  BY <1>2, PowerOneMore
<1> HIDE DEF S
<1>3. Nat \subseteq S
  BY <1>1, <1>2, Induction
<1> QED
  BY <1>3 DEF S

\* The first power.
LEMMA PowerOne == ASSUME NEW b \in Int PROVE Power(b, 1) = b
<1>1. Power(b, 0 + 1) = b * Power(b, 0)
  BY PowerOneMore
<1> QED
  BY <1>1, PowerNone

\* Exponents add.
LEMMA PowerAdds ==
  ASSUME NEW b \in Nat \ {0}, NEW m \in Nat, NEW n \in Nat
  PROVE  Power(b, m + n) = Power(b, m) * Power(b, n)
<1> DEFINE S == {k \in Nat: Power(b, m + k) = Power(b, m) * Power(b, k)}
<1>1. 0 \in S
  BY PowerNone, PowerType
<1>2. ASSUME NEW k \in Nat, k \in S PROVE k + 1 \in S
  <2>1. Power(b, (m + k) + 1) = b * Power(b, m + k) /\ (m + k) + 1 = m + (k + 1)
    BY PowerOneMore
  <2>2. Power(b, k + 1) = b * Power(b, k) /\ Power(b, k) \in Nat /\ Power(b, m) \in Nat
    BY PowerOneMore, PowerType
  <2>3. b * (Power(b, m) * Power(b, k)) = Power(b, m) * (b * Power(b, k))
    BY <2>2
  <2> QED
    BY <1>2, <2>1, <2>2, <2>3
<1> HIDE DEF S
<1>3. Nat \subseteq S
  BY <1>1, <1>2, Induction
<1> QED
  BY <1>3 DEF S

\* Two to the power n is the least that a base of two digits or more has.
LEMMA PowerGrows ==
  ASSUME NEW b \in Nat \ {0, 1}, NEW n \in Nat
  PROVE  Power(2, n) <= Power(b, n)
<1> DEFINE S == {k \in Nat: Power(2, k) <= Power(b, k)}
<1>1. 0 \in S
  BY PowerNone
<1>2. ASSUME NEW k \in Nat, k \in S PROVE k + 1 \in S
  <2>1. /\ Power(2, k + 1) = 2 * Power(2, k) /\ Power(b, k + 1) = b * Power(b, k)
        /\ Power(2, k) \in Nat /\ Power(b, k) \in Nat
    BY PowerOneMore, PowerType
  <2>2. 2 * Power(b, k) <= b * Power(b, k)
    <3>1. \A x \in Nat: 2 * x <= b * x
      <4> TAKE x \in Nat
      <4>1. PICK d \in Nat: b = 2 + d
        <5>1. b - 2 \in Nat /\ b = 2 + (b - 2)
          OBVIOUS
        <5> QED
          BY <5>1
      <4>2. b * x = 2 * x + d * x /\ d * x >= 0
        BY <4>1
      <4> QED
        BY <4>2
    <3> QED
      BY <2>1, <3>1
  <2> QED
    BY <1>2, <2>1, <2>2
<1> HIDE DEF S
<1>3. Nat \subseteq S
  BY <1>1, <1>2, Induction
<1> QED
  BY <1>3 DEF S

-----------------------------------------------------------------------------
\* Quotients and remainders.

\* Quotient and remainder exist.
LEMMA Divided ==
  ASSUME NEW x \in Int, NEW q \in Nat \ {0}
  PROVE  /\ x \div q \in Int /\ x % q \in 0 .. q - 1 /\ x = q * (x \div q) + (x % q)
         /\ x \in Nat => x \div q \in Nat
OBVIOUS

\* They are the only ones.
LEMMA Quotient ==
  ASSUME NEW q \in Nat \ {0}, NEW a \in Int, NEW r \in 0 .. q - 1
  PROVE  (q * a + r) \div q = a /\ (q * a + r) % q = r
<1> DEFINE x == q * a + r
<1>1. PICK b \in Int, s \in 0 .. q - 1: b = x \div q /\ s = x % q /\ x = q * b + s
  <2>1. x \in Int
    OBVIOUS
  <2> HIDE DEF x
  <2> QED
    BY <2>1, Divided
<1>2. \A c, d \in Int: c < d => q * c + q <= q * d
  <2> SUFFICES ASSUME NEW c \in Int, NEW d \in Int, c < d PROVE q * c + q <= q * d
    OBVIOUS
  <2>1. PICK e \in Nat: d = c + 1 + e
    <3>1. d - c - 1 \in Nat /\ d = c + 1 + (d - c - 1)
      OBVIOUS
    <3> QED
      BY <3>1
  <2>2. q * d = q * c + q + q * e /\ q * e >= 0
    BY <2>1
  <2> QED
    BY <2>2
<1>3. ~(a < b)
  <2>1. a < b => q * a + q <= q * b
    BY <1>1, <1>2
  <2> QED
    BY <1>1, <2>1
<1>4. ~(b < a)
  <2>1. b < a => q * b + q <= q * a
    BY <1>1, <1>2
  <2> QED
    BY <1>1, <2>1
<1>5. a = b
  BY <1>1, <1>3, <1>4
<1> QED
  BY <1>1, <1>5

\* A number below q is its own remainder.
LEMMA Small ==
  ASSUME NEW q \in Nat \ {0}, NEW x \in 0 .. q - 1
  PROVE  x % q = x /\ x \div q = 0
<1> DEFINE none == 0
<1>1. none \in Int /\ q * none + x = x
  OBVIOUS
<1> HIDE DEF none
<1>2. (q * none + x) \div q = none /\ (q * none + x) % q = x
  BY <1>1, Quotient
<1> QED
  BY <1>1, <1>2, Zenon DEF none

\* A common factor divides out.
LEMMA Reduced ==
  ASSUME NEW a \in Nat, NEW b \in Nat \ {0}, NEW c \in Nat \ {0}
  PROVE  (a * c) \div (b * c) = a \div b
<1>1. PICK k \in Nat, r \in 0 .. b - 1: k = a \div b /\ a = b * k + r
  BY Divided
<1>2. b * c \in Nat \ {0}
  OBVIOUS
<1>3. r * c \in 0 .. b * c - 1
  <2>1. PICK d \in Nat: b = r + 1 + d
    <3>1. b - r - 1 \in Nat /\ b = r + 1 + (b - r - 1)
      OBVIOUS
    <3> QED
      BY <3>1
  <2>2. b * c = r * c + c + d * c /\ d * c >= 0 /\ r * c \in Nat
    BY <2>1
  <2> QED
    BY <2>2
<1>4. a * c = (b * c) * k + r * c
  BY <1>1
<1>5. ((b * c) * k + r * c) \div (b * c) = k
  BY <1>2, <1>3, Quotient
<1> QED
  BY <1>1, <1>4, <1>5

\* The numbers of the scheme.
LEMMA Sizes ==
  /\ Logq \in Nat \ {0} /\ Basis \in Nat \ {0} /\ RowLength \in Nat \ {0}
  /\ Unit \in Nat \ {0} /\ LweN \in Nat \ {0}
  /\ Q \in Nat \ {0} /\ Power(2, Basis) \in Nat \ {0} /\ Power(2, RowLength) \in Nat \ {0}
<1>1. {Logq, Basis, RowLength, Unit, LweN} \subseteq Nat \ {0}
  BY PirAssumption DEF PirAssumption
<1>2. 2 \in Nat \ {0}
  OBVIOUS
<1> QED
  BY <1>1, <1>2, PowerType DEF Q

-----------------------------------------------------------------------------
\* Numbers that are the same word.
Alike(x, y) == \E t \in Int: x = y + t * Q

\* A number is congruent to its remainder.
LEMMA AlikeRemainder == ASSUME NEW x \in Int PROVE x % Q \in 0 .. Q - 1 /\ Alike(x % Q, x)
<1>1. x % Q \in 0 .. Q - 1 /\ x \div Q \in Int /\ x = Q * (x \div Q) + (x % Q)
  BY Divided, Sizes
<1>2. -(x \div Q) \in Int /\ x % Q = x + (-(x \div Q)) * Q
  BY <1>1, Sizes
<1> QED
  BY <1>1, <1>2 DEF Alike

\* Congruence is reflexive.
LEMMA AlikeItself == ASSUME NEW x \in Int PROVE Alike(x, x)
<1>1. x = x + 0 * Q
  BY Sizes
<1> QED
  BY <1>1 DEF Alike

\* Congruence is symmetric.
LEMMA AlikeBack == ASSUME NEW x \in Int, NEW y \in Int, Alike(x, y) PROVE Alike(y, x)
<1>1. PICK t \in Int: x = y + t * Q
  BY DEF Alike
<1>2. -t \in Int /\ y = x + (-t) * Q
  BY <1>1, Sizes
<1> QED
  BY <1>2 DEF Alike

\* Congruence is transitive.
LEMMA AlikeThrough ==
  ASSUME NEW x \in Int, NEW y \in Int, NEW z \in Int, Alike(x, y), Alike(y, z)
  PROVE  Alike(x, z)
<1>1. PICK t \in Int: x = y + t * Q
  BY DEF Alike
<1>2. PICK u \in Int: y = z + u * Q
  BY DEF Alike
<1>3. t + u \in Int /\ x = z + (t + u) * Q
  BY <1>1, <1>2, Sizes
<1> QED
  BY <1>3 DEF Alike

\* Sums and differences of congruent numbers are congruent.
LEMMA AlikeAdds ==
  ASSUME NEW x \in Int, NEW y \in Int, NEW v \in Int, NEW w \in Int, Alike(x, y), Alike(v, w)
  PROVE  Alike(x + v, y + w) /\ Alike(x - v, y - w)
<1>1. PICK t \in Int: x = y + t * Q
  BY DEF Alike
<1>2. PICK u \in Int: v = w + u * Q
  BY DEF Alike
<1>3. t + u \in Int /\ x + v = (y + w) + (t + u) * Q
  BY <1>1, <1>2, Sizes
<1>4. t - u \in Int /\ x - v = (y - w) + (t - u) * Q
  BY <1>1, <1>2, Sizes
<1> QED
  BY <1>3, <1>4 DEF Alike

\* Products of congruent numbers are congruent.
LEMMA AlikeTimes ==
  ASSUME NEW x \in Int, NEW y \in Int, NEW v \in Int, NEW w \in Int, Alike(x, y), Alike(v, w)
  PROVE  Alike(x * v, y * w)
<1>1. PICK t \in Int: x = y + t * Q
  BY DEF Alike
<1>2. PICK u \in Int: v = w + u * Q
  BY DEF Alike
<1>3. x * v = y * w + (t * w + y * u + t * Q * u) * Q
  BY <1>1, <1>2, Sizes
<1>4. t * w + y * u + t * Q * u \in Int
  BY Sizes
<1> QED
  BY <1>3, <1>4 DEF Alike

\* Sums of congruent terms are congruent.
LEMMA AlikeSums ==
  ASSUME NEW n \in Nat, NEW f, NEW g,
         \A k \in 0 .. n - 1: f[k] \in Int /\ g[k] \in Int /\ Alike(f[k], g[k])
  PROVE  Sum(n, f) \in Int /\ Sum(n, g) \in Int /\ Alike(Sum(n, f), Sum(n, g))
<1> DEFINE S == {k \in Nat: k <= n => /\ Sum(k, f) \in Int /\ Sum(k, g) \in Int
                                      /\ Alike(Sum(k, f), Sum(k, g))}
<1>1. 0 \in S
  BY SumNone, AlikeItself
<1>2. ASSUME NEW k \in Nat, k \in S PROVE k + 1 \in S
  <2>1. SUFFICES ASSUME k + 1 <= n
                 PROVE  /\ Sum(k + 1, f) \in Int /\ Sum(k + 1, g) \in Int
                        /\ Alike(Sum(k + 1, f), Sum(k + 1, g))
    OBVIOUS
  <2>2. /\ Sum(k, f) \in Int /\ Sum(k, g) \in Int /\ Alike(Sum(k, f), Sum(k, g))
        /\ f[k] \in Int /\ g[k] \in Int /\ Alike(f[k], g[k])
    BY <1>2, <2>1
  <2>3. Sum(k + 1, f) = Sum(k, f) + f[k] /\ Sum(k + 1, g) = Sum(k, g) + g[k]
    BY SumOneMore
  <2>4. Alike(Sum(k, f) + f[k], Sum(k, g) + g[k])
    BY <2>2, AlikeAdds
  <2> QED
    BY <2>2, <2>3, <2>4
<1> HIDE DEF S
<1>3. Nat \subseteq S
  BY <1>1, <1>2, Induction
<1> QED
  BY <1>3 DEF S

-----------------------------------------------------------------------------
\* The parameters.

\* What a modulus may be.
Moduluses == Nat \ {0, 1}

\* An entry takes at least one element, and fits in those it takes.
LEMMA EntryFits ==
  ASSUME NEW p \in Moduluses
  PROVE  /\ ElemsPerEntry(p) \in 1 .. RowLength
         /\ Power(p, ElemsPerEntry(p)) >= Power(2, RowLength)
<1> DEFINE S == {k \in Nat: k >= 1 /\ Power(p, k) >= Power(2, RowLength)}
<1>1. RowLength \in S
  BY Sizes, PowerGrows DEF Moduluses
<1>2. PICK k \in S: \A j \in S: k <= j
  BY <1>1, Least
<1>3. k \in 1 .. RowLength /\ Power(p, k) >= Power(2, RowLength)
  BY <1>1, <1>2, Sizes
<1>4. ASSUME NEW j \in 1 .. k - 1 PROVE Power(p, j) < Power(2, RowLength)
  <2>1. j \notin S /\ j \in Nat /\ j >= 1
    BY <1>2, <1>3
  <2>2. Power(p, j) \in Nat /\ Power(2, RowLength) \in Nat
    BY <2>1, PowerType, Sizes DEF Moduluses
  <2> QED
    BY <2>1, <2>2
<1> HIDE DEF S
<1> QED
  BY <1>3, <1>4 DEF ElemsPerEntry

\* In a geometry, the height and the width of the database.
LEMMA Dimensions ==
  ASSUME geometry \in Geometries, NEW p \in Moduluses
  PROVE  /\ geometry.buckets \in Nat \ {0} /\ geometry.perCol \in Nat \ {0} /\ geometry.size \in Nat
         /\ Rows(p) \in Nat /\ NEntries \in Nat
         /\ geometry.size # 0 => /\ Rows(p) # 0 /\ NEntries # 0
                                 /\ Cols(p) = geometry.buckets \div geometry.perCol
         /\ DimsPanic(p) <=> geometry.size = 0 \/ geometry.buckets % geometry.perCol # 0
         /\ ~DimsPanic(p) => /\ Rows(p) * Cols(p) = NEntries * ElemsPerEntry(p)
                             /\ Cols(p) \in Nat \ {0} /\ Cols(p) <= geometry.buckets
<1> DEFINE b == geometry.buckets
           w == geometry.perCol
           s == geometry.size
           e == ElemsPerEntry(p)
           k == b \div w
<1>1. b \in Nat \ {0} /\ w \in Nat \ {0} /\ s \in Nat
  BY PirAssumption DEF PirAssumption
<1>2. e \in Nat \ {0}
  BY EntryFits, Sizes
<1>3. Rows(p) = w * s * e /\ NEntries = b * s
  BY DEF Rows, NEntries
<1>4. Cols(p) = (b * s * e) \div (w * s * e)
  BY <1>3 DEF Cols
<1> HIDE DEF b, w, s, e, k
<1>5. k \in Nat /\ b % w \in 0 .. w - 1 /\ b = w * k + (b % w)
  <2>1. b \in Int
    BY <1>1
  <2>2. b \div w \in Nat /\ b % w \in 0 .. w - 1 /\ b = w * (b \div w) + (b % w)
    BY <1>1, <2>1, Divided
  <2>3. k = b \div w
    BY DEF k, b, w
  <2> QED
    BY <2>2, <2>3
<1>6. Rows(p) \in Nat /\ NEntries \in Nat
  BY <1>1, <1>2, <1>3
<1>7. CASE s = 0
  BY <1>1, <1>2, <1>3, <1>6, <1>7 DEF DimsPanic, b, w, s, e, k
<1>8. CASE s # 0
  <2>1. s * e \in Nat \ {0} /\ w * s * e = w * (s * e) /\ b * s * e = b * (s * e)
        /\ w * (s * e) # 0 /\ b * s # 0
    BY <1>1, <1>2, <1>8
  <2>2. Cols(p) = k
    <3>1. (b * (s * e)) \div (w * (s * e)) = b \div w
      BY <1>1, <2>1, Reduced
    <3> QED
      BY <1>4, <2>1, <3>1 DEF k
  <2>3. Rows(p) * Cols(p) = (w * k) * (s * e)
    BY <1>1, <1>3, <1>5, <2>1, <2>2
  <2>4. NEntries * e = (w * k) * (s * e) + (b % w) * (s * e)
    <3>1. NEntries * e = b * (s * e)
      BY <1>1, <1>2, <1>3
    <3>2. (w * k + (b % w)) * (s * e) = (w * k) * (s * e) + (b % w) * (s * e)
      BY <1>1, <1>5, <2>1
    <3> QED
      BY <1>5, <3>1, <3>2
  <2>5. (b % w) * (s * e) \in Nat /\ (b % w # 0 => (b % w) * (s * e) # 0) /\ (w * k) * (s * e) \in Nat
    BY <1>1, <1>5, <2>1
  <2>6. DimsPanic(p) <=> b % w # 0
    <3>1. DimsPanic(p) <=> Rows(p) * Cols(p) < NEntries * e
      BY <1>3, <2>1 DEF DimsPanic, e
    <3> DEFINE whole == (w * k) * (s * e)
               rest == (b % w) * (s * e)
    <3>2. b % w = 0 => rest = 0
      BY <2>1
    <3>3. rest \in Nat /\ (b % w # 0 => rest # 0) /\ whole \in Nat
      BY <2>5
    <3>4. Rows(p) * Cols(p) = whole /\ NEntries * e = whole + rest
      BY <2>3, <2>4
    <3> HIDE DEF whole, rest
    <3> QED
      BY <3>1, <3>2, <3>3, <3>4
  <2>7. b % w = 0 => Rows(p) * Cols(p) = NEntries * e /\ k # 0
    BY <1>1, <1>5, <2>1, <2>3, <2>4
  <2>8. k <= b
    <3>1. w * k >= k
      BY <1>1, <1>5
    <3>2. w * k <= b /\ w * k \in Int
      BY <1>1, <1>5
    <3> QED
      BY <1>1, <1>5, <3>1, <3>2
  <2> QED
    BY <1>1, <1>3, <1>5, <1>6, <1>8, <2>1, <2>2, <2>6, <2>7, <2>8 DEF b, w, s, e, k
<1> QED
  BY <1>7, <1>8

\* A line of the table.
LEMMA TableLine ==
  /\ DOMAIN Table = 1 .. Len(Table) /\ Len(Table) \in Nat
  /\ \A k \in DOMAIN Table: Table[k].m \in Nat /\ Table[k].p \in 2 .. Power(2, Basis)
<1> DEFINE R == [m: Nat, p: 2 .. Power(2, Basis)]
<1>1. Table \in Seq(R)
  BY PirAssumption DEF PirAssumption
<1>2. \A row \in R: row.m \in Nat /\ row.p \in 2 .. Power(2, Basis)
  OBVIOUS
<1> HIDE DEF R
<1>3. \A k \in DOMAIN Table: Table[k] \in R
  BY <1>1
<1> QED
  BY <1>1, <1>2, <1>3

\* The table has a line unless the columns are too many for each.
LEMMA LineFound ==
  ASSUME NEW m \in Nat, Line(m) = {}
  PROVE  \A k \in DOMAIN Table: m > Table[k].m
<1> SUFFICES ASSUME NEW k \in DOMAIN Table, ~(m > Table[k].m) PROVE FALSE
  OBVIOUS
<1>1. \A j \in DOMAIN Table: Table[j].m \in Nat /\ j \in Nat \ {0}
  BY TableLine
<1>2. DOMAIN Table = 1 .. Len(Table) /\ Len(Table) \in Nat
  BY TableLine
<1> DEFINE S == {j \in DOMAIN Table: m <= Table[j].m}
<1>3. S \in SUBSET Nat /\ S # {}
  BY <1>1
<1>4. PICK j \in S: \A i \in S: j <= i
  BY <1>3, Least
<1>5. ASSUME NEW i \in 1 .. j - 1 PROVE Table[i].m < m
  <2>1. i \in DOMAIN Table /\ i \notin S
    BY <1>1, <1>2, <1>4
  <2> QED
    BY <1>1, <2>1
<1>6. j \in Line(m)
  BY <1>4, <1>5 DEF Line
<1> QED
  BY <1>6

\* A candidate takes its modulus from a line of the table.
LEMMA CandidateModulus ==
  ASSUME NEW t, Line(Cols(t)) # {}
  PROVE  /\ Candidate(t).p \in 2 .. Power(2, Basis) /\ Candidate(t).p \in Moduluses
         /\ Candidate(t) = [l |-> Rows(t), m |-> Cols(t), p |-> Candidate(t).p]
         /\ Candidate(t) # None
<1> DEFINE R == {Table[k]: k \in Line(Cols(t))}
           row == CHOOSE x \in R: TRUE
<1>1. row \in R
  OBVIOUS
<1>2. row.p \in 2 .. Power(2, Basis)
  <2>1. PICK k \in DOMAIN Table: row = Table[k]
    BY <1>1 DEF Line
  <2> QED
    BY <2>1, TableLine
<1>3. Candidate(t) = [l |-> Rows(t), m |-> Cols(t), p |-> row.p]
  BY DEF Candidate
<1> HIDE DEF row
<1>4. Candidate(t).p = row.p
  BY <1>3
<1>5. Candidate(t) # None
  BY <1>3 DEF None
<1> QED
  BY <1>2, <1>3, <1>4, <1>5, Sizes DEF Moduluses

\* With the same columns it is the same.
LEMMA CandidateSame ==
  ASSUME NEW t, NEW u, Cols(t) = Cols(u)
  PROVE  Candidate(t).p = Candidate(u).p
BY DEF Candidate

-----------------------------------------------------------------------------
\* The invariant: what was computed in each phase, and from what.

WithHint     == {"hint", "query", "answer", "response", "recover", "done"}
WithOffline  == {"query", "answer", "response", "recover", "done"}
WithQuery    == {"answer", "response", "recover", "done"}
WithAnswer   == {"response", "recover", "done"}
WithResponse == {"recover", "done"}

Typed ==
  /\ geometry \in Geometries /\ modulus \in Moduli /\ dataset \in Datasets(NEntries)
  /\ ptMod \in Moduluses
  /\ phase \in {"params", "setup", "panic"} \cup WithHint

\* The loop has tried the number before, and the table gave no smaller modulus.
Refining ==
  phase = "params" /\ modulus = Unset /\ ptMod # 2 =>
     /\ ~DimsPanic(ptMod - 1) /\ Line(Cols(ptMod - 1)) # {}
     /\ params = Candidate(ptMod - 1) /\ ptMod - 1 <= params.p

Chosen ==
  phase \notin {"params", "panic"} =>
     /\ params.p \in Moduluses /\ params = Given(params.p) /\ ~DimsPanic(params.p)
     /\ params.p <= Power(2, Basis) \/ modulus > Power(2, Basis)

Built ==
  phase \in WithHint =>
     /\ ~SetupDBPanics /\ ~Overflows /\ ~SquishPanics
     /\ seed \in Seeds /\ hint = HintOf(seed)

Sent == phase \in WithOffline => offline \in SwitchedMatrix(hint, params.l, LweN)

Asked ==
  phase \in WithQuery =>
     /\ asked \in 0 .. params.m - 1 /\ secret \in [0 .. LweN - 1 -> Ternaries]
     /\ error \in MatrixGaussian(params.m)
     /\ query = QueryOf(asked, secret, error)

Answered == phase \in WithAnswer => answer = MatrixMulVecPacked(query)

Responded == phase \in WithResponse => response \in Switched(answer)

Finished ==
  phase = "done" => /\ \A i \in Turns: (i + 1) * Ne <= params.l
                    /\ column = [i \in Turns |-> Entry(i)]

Inv == /\ Typed /\ Refining /\ Chosen /\ PanicsForAReason
       /\ Built /\ Sent /\ Asked /\ Answered /\ Responded /\ Finished

-----------------------------------------------------------------------------
\* What the steps leave alone.

\* What is computed from the geometry.
LEMMA SameGeometry ==
  ASSUME UNCHANGED geometry
  PROVE  /\ NEntries' = NEntries
         /\ \A p: /\ Rows(p)' = Rows(p) /\ Cols(p)' = Cols(p) /\ DimsPanic(p)' = DimsPanic(p)
                  /\ Given(p)' = Given(p)
<1>1. NEntries' = NEntries
  BY DEF NEntries
<1>2. \A p: Rows(p)' = Rows(p)
  BY DEF Rows
<1>3. \A p: Cols(p)' = Cols(p)
  BY <1>1, <1>2 DEF Cols
<1>4. \A p: DimsPanic(p)' = DimsPanic(p)
  BY <1>1, <1>2, <1>3 DEF DimsPanic
<1>5. \A p: Given(p)' = Given(p)
  BY <1>2, <1>3 DEF Given
<1> QED
  BY <1>1, <1>2, <1>3, <1>4, <1>5

\* What is computed from the database and the parameters.
LEMMA SameDatabase ==
  ASSUME UNCHANGED <<told, params>>
  PROVE  /\ Ne' = Ne /\ NEntries' = NEntries
         /\ SetupDBPanics' = SetupDBPanics /\ Overflows' = Overflows /\ SquishPanics' = SquishPanics
         /\ \A s: HintOf(s)' = HintOf(s)
         /\ \A v: MatrixMulVecPacked(v)' = MatrixMulVecPacked(v)
         /\ Turns' = Turns
<1>1. geometry' = geometry /\ dataset' = dataset /\ params' = params
  BY DEF told
<1>2. Ne' = Ne
  BY <1>1 DEF Ne
<1>3. NEntries' = NEntries
  BY <1>1 DEF NEntries
<1>4. \A r, c: Raw(r, c)' = Raw(r, c)
  BY <1>1, <1>2, <1>3 DEF Raw
<1>5. Centred' = Centred
  BY <1>1, <1>4 DEF Centred
<1>6. \A s: LweMatrix(s)' = LweMatrix(s)
  BY <1>1 DEF LweMatrix
<1>7. \A s: HintOf(s)' = HintOf(s)
  BY <1>1, <1>5, <1>6 DEF HintOf
<1>8. Uncentred' = Uncentred
  BY <1>1, <1>5 DEF Uncentred
<1>9. \A r, j: Squished(r, j)' = Squished(r, j)
  BY <1>1, <1>8 DEF Squished
<1>10. SquishedCols' = SquishedCols
  BY <1>1 DEF SquishedCols
<1>11. Unpacked' = Unpacked
  BY <1>1, <1>9, <1>10 DEF Unpacked
<1>12. \A v: MatrixMulVecPacked(v)' = MatrixMulVecPacked(v)
  BY <1>1, <1>10, <1>11 DEF MatrixMulVecPacked
<1>13. Turns' = Turns
  BY <1>1, <1>2 DEF Turns
<1>14. SetupDBPanics' = SetupDBPanics /\ Overflows' = Overflows /\ SquishPanics' = SquishPanics
  BY <1>1, <1>2, <1>3 DEF SetupDBPanics, Overflows, SquishPanics
<1> QED
  BY <1>2, <1>3, <1>7, <1>12, <1>13, <1>14

\* What is computed from the seed and the parameters.
LEMMA SameQuery ==
  ASSUME UNCHANGED <<params, seed>>
  PROVE  \A i, s, e: QueryOf(i, s, e)' = QueryOf(i, s, e)
BY DEF QueryOf, LweMatrix, Delta, Padding

\* The first conjuncts, once the parameters are chosen.
LEMMA ParamsKept ==
  ASSUME Inv, UNCHANGED <<told, ptMod, params>>, phase \notin {"params", "panic"},
         phase' \in {"panic"} \cup WithHint,
         phase' = "panic" => Ne > 1 \/ geometry.size = 0 \/ modulus > Power(2, Basis)
  PROVE  Typed' /\ Refining' /\ Chosen' /\ PanicsForAReason'
<1>1. geometry' = geometry /\ modulus' = modulus /\ dataset' = dataset /\ params' = params
      /\ ptMod' = ptMod
  BY DEF told
<1>2. NEntries' = NEntries /\ Ne' = Ne /\ \A p: Given(p)' = Given(p) /\ DimsPanic(p)' = DimsPanic(p)
  BY SameGeometry, SameDatabase, <1>1
<1>3. phase' # "params" /\ phase' # "setup"
  BY DEF WithHint
<1>4. Typed'
  BY <1>1, <1>2 DEF Inv, Typed
<1>5. Refining'
  BY <1>3 DEF Refining
<1>6. Chosen'
  BY <1>1, <1>2 DEF Inv, Chosen
<1>7. PanicsForAReason'
  <2>1. params # None
    BY DEF Inv, Chosen, Given, None
  <2> QED
    BY <1>1, <1>2, <2>1 DEF PanicsForAReason
<1> QED
  BY <1>4, <1>5, <1>6, <1>7

\* The hint stays what Setup computed.
LEMMA BuiltKept ==
  ASSUME Built, UNCHANGED <<told, params, seed, hint>>, phase \in WithHint
  PROVE  Built'
BY SameDatabase DEF Built

\* The hint that was sent stays what it was switched to.
LEMMA SentKept ==
  ASSUME Sent, UNCHANGED <<params, hint, offline>>, phase \in WithOffline
  PROVE  Sent'
BY DEF Sent

\* The query stays what Query computed.
LEMMA AskedKept ==
  ASSUME Asked, UNCHANGED <<params, seed, queried>>, phase \in WithQuery
  PROVE  Asked'
BY SameQuery DEF Asked, queried

\* The answer stays what Answer computed.
LEMMA AnsweredKept ==
  ASSUME Answered, UNCHANGED <<told, params, query, answer>>, phase \in WithAnswer
  PROVE  Answered'
BY SameDatabase DEF Answered

-----------------------------------------------------------------------------
\* One lemma per action.

\* Before the parameters are chosen.
LEMMA InitInv == Init => Inv
<1> SUFFICES ASSUME Init PROVE Inv
  OBVIOUS
<1>1. phase = "params" /\ ptMod = 2
  BY DEF Init
<1>2. Typed
  BY DEF Init, Typed, Moduluses
<1> QED
  BY <1>1, <1>2 DEF Inv, Refining, Chosen, PanicsForAReason, Built, Sent, Asked, Answered,
                    Responded, Finished, WithHint, WithOffline, WithQuery, WithAnswer, WithResponse

\* Nothing is computed before the hint.
LEMMA NothingYet ==
  ASSUME phase' \in {"params", "setup", "panic"}
  PROVE  Built' /\ Sent' /\ Asked' /\ Answered' /\ Responded' /\ Finished'
BY DEF Built, Sent, Asked, Answered, Responded, Finished,
       WithHint, WithOffline, WithQuery, WithAnswer, WithResponse

\* Choosing parameters (params.go, GetParams).
LEMMA UseGivenInv == ASSUME Inv, UseGiven PROVE Inv'
<1>1. /\ phase = "params" /\ modulus # Unset
      /\ geometry' = geometry /\ modulus' = modulus /\ dataset' = dataset /\ ptMod' = ptMod
      /\ IF DimsPanic(modulus) THEN phase' = "panic" /\ UNCHANGED params
                               ELSE phase' = "setup" /\ params' = Given(modulus)
  <2>1. UNCHANGED <<told, ptMod>>
    BY DEF UseGiven
  <2>2. geometry' = geometry /\ modulus' = modulus /\ dataset' = dataset /\ ptMod' = ptMod
    BY <2>1 DEF told
  <2> QED
    BY <2>2 DEF UseGiven
<1>2. geometry \in Geometries /\ modulus \in Moduluses
  <2>1. geometry \in Geometries /\ modulus \in Moduli
    BY DEF Inv, Typed
  <2>2. Moduli \subseteq {Unset} \cup (Nat \ {0, 1})
    BY PirAssumption DEF PirAssumption
  <2> QED
    BY <1>1, <2>1, <2>2 DEF Moduluses
<1>3. NEntries' = NEntries /\ \A p: Given(p)' = Given(p) /\ DimsPanic(p)' = DimsPanic(p)
  BY <1>1, SameGeometry
<1>4. Typed'
  BY <1>1, <1>3 DEF Inv, Typed
<1>5. Refining'
  BY <1>1 DEF Refining
<1>6. Chosen'
  <2>1. CASE DimsPanic(modulus)
    BY <1>1, <2>1 DEF Chosen
  <2>2. CASE ~DimsPanic(modulus)
    <3>1. params' = Given(modulus) /\ params'.p = modulus
      BY <1>1, <2>2 DEF Given
    <3>2. modulus \in Nat /\ Power(2, Basis) \in Nat
      BY <1>2, Sizes DEF Moduluses
    <3> QED
      BY <1>1, <1>2, <1>3, <2>2, <3>1, <3>2 DEF Chosen
  <2> QED
    BY <2>1, <2>2
<1>7. PanicsForAReason'
  <2>1. DimsPanic(modulus) => geometry.size = 0 \/ geometry.buckets % geometry.perCol # 0
    BY <1>2, Dimensions
  <2> QED
    BY <1>1, <2>1 DEF PanicsForAReason
<1>8. phase' \in {"params", "setup", "panic"}
  BY <1>1
<1> QED
  BY <1>4, <1>5, <1>6, <1>7, <1>8, NothingYet DEF Inv

\* The loop ends when it has passed the modulus that the table has for the
\* columns, which are the same for every number it tries.
LEMMA RefineInv == ASSUME Inv, Refine PROVE Inv'
<1> DEFINE t == ptMod
           stuck == DimsPanic(t) \/ Line(Cols(t)) = {}
           ends == Candidate(t).p < t
<1>1. /\ phase = "params" /\ modulus = Unset
      /\ geometry' = geometry /\ modulus' = modulus /\ dataset' = dataset
      /\ stuck => phase' = "panic" /\ ptMod' = ptMod /\ params' = params
      /\ ~stuck /\ ends => /\ params' = params /\ ptMod' = ptMod
                           /\ phase' = IF params = None THEN "panic" ELSE "setup"
      /\ ~stuck /\ ~ends => params' = Candidate(t) /\ ptMod' = t + 1 /\ phase' = "params"
  <2>1. UNCHANGED told
    BY DEF Refine
  <2>2. geometry' = geometry /\ modulus' = modulus /\ dataset' = dataset
    BY <2>1 DEF told
  <2>3. CASE stuck
    BY <2>2, <2>3 DEF Refine
  <2>4. CASE ~stuck /\ ends
    BY <2>2, <2>4 DEF Refine, Best
  <2>5. CASE ~stuck /\ ~ends
    BY <2>2, <2>5 DEF Refine
  <2> QED
    BY <2>3, <2>4, <2>5
<1>2. geometry \in Geometries /\ t \in Moduluses /\ t \in Nat
  BY DEF Inv, Typed, Moduluses
<1>3. /\ NEntries' = NEntries
      /\ \A p: Given(p)' = Given(p) /\ DimsPanic(p)' = DimsPanic(p) /\ Cols(p)' = Cols(p)
                  /\ Candidate(p)' = Candidate(p)
  <2>1. /\ NEntries' = NEntries
        /\ \A p: /\ Given(p)' = Given(p) /\ DimsPanic(p)' = DimsPanic(p) /\ Cols(p)' = Cols(p)
                 /\ Rows(p)' = Rows(p)
    BY <1>1, SameGeometry
  <2>2. \A p: Candidate(p)' = Candidate(p)
    BY <2>1 DEF Candidate
  <2> QED
    BY <2>1, <2>2
<1>4. ~stuck => /\ Candidate(t).p \in 2 .. Power(2, Basis) /\ Candidate(t).p \in Moduluses
                /\ Candidate(t) # None
  BY CandidateModulus
<1>5. ~stuck /\ ends => /\ t # 2 /\ params = Candidate(t - 1) /\ params # None
                        /\ params = Given(params.p) /\ params.p = t - 1
                        /\ params.p \in Moduluses /\ ~DimsPanic(params.p)
                        /\ params.p <= Power(2, Basis)
  <2> SUFFICES ASSUME ~stuck, ends
               PROVE  /\ t # 2 /\ params = Candidate(t - 1) /\ params # None
                      /\ params = Given(params.p) /\ params.p = t - 1
                      /\ params.p \in Moduluses /\ ~DimsPanic(params.p)
                      /\ params.p <= Power(2, Basis)
    OBVIOUS
  <2> DEFINE u == t - 1
  <2>1. t # 2 /\ u \in Moduluses
    BY <1>2, <1>4 DEF Moduluses
  <2>2. ~DimsPanic(u) /\ Line(Cols(u)) # {} /\ params = Candidate(u) /\ u <= params.p
    BY <1>1, <2>1 DEF Inv, Refining
  <2>3. /\ params = [l |-> Rows(u), m |-> Cols(u), p |-> params.p] /\ params # None
        /\ params.p \in Moduluses /\ params.p \in 2 .. Power(2, Basis)
    BY <2>2, CandidateModulus
  <2>4. Cols(u) = Cols(t)
    <3>1. geometry.size # 0
      BY <1>2, Dimensions
    <3> QED
      BY <1>2, <2>1, <3>1, Dimensions
  <2>5. params.p = Candidate(t).p
    BY <2>2, <2>4, CandidateSame
  <2>6. params.p = u
    BY <1>2, <1>4, <2>1, <2>2, <2>5 DEF Moduluses
  <2>7. params = Given(params.p)
    BY <2>3, <2>6 DEF Given
  <2> QED
    BY <2>1, <2>2, <2>3, <2>6, <2>7
<1> HIDE DEF stuck, ends
<1>6. Typed'
  <2>1. t + 1 \in Moduluses
    BY <1>2 DEF Moduluses
  <2>2. ptMod' \in Moduluses
    BY <1>1, <1>2, <2>1
  <2>3. phase' \in {"params", "setup", "panic"}
    BY <1>1
  <2> HIDE DEF t
  <2> QED
    BY <1>1, <1>3, <2>2, <2>3 DEF Inv, Typed
<1>7. Refining'
  <2> SUFFICES ASSUME ~stuck, ~ends PROVE Refining'
    BY <1>1, <1>5 DEF Refining
  <2>1. params' = Candidate(t) /\ ptMod' = t + 1 /\ ptMod' - 1 = t /\ t <= Candidate(t).p
    BY <1>1, <1>2, <1>4 DEF ends, Moduluses
  <2> QED
    BY <1>3, <2>1 DEF Refining, stuck
<1>8. Chosen'
  <2>1. phase' \notin {"params", "panic"} => ~stuck /\ ends
    BY <1>1
  <2> QED
    BY <1>1, <1>3, <1>5, <2>1 DEF Chosen
<1>9. PanicsForAReason'
  <2> SUFFICES ASSUME stuck PROVE PanicsForAReason'
    BY <1>1, <1>5 DEF PanicsForAReason
  <2>1. DimsPanic(t) => geometry.size = 0 \/ geometry.buckets % geometry.perCol # 0
    BY <1>2, Dimensions
  <2>2. ~DimsPanic(t) => \A k \in DOMAIN Table: geometry.buckets \div geometry.perCol > Table[k].m
    <3> SUFFICES ASSUME ~DimsPanic(t)
                 PROVE  \A k \in DOMAIN Table: geometry.buckets \div geometry.perCol > Table[k].m
      OBVIOUS
    <3>1. Cols(t) \in Nat /\ Cols(t) = geometry.buckets \div geometry.perCol
      BY <1>2, Dimensions
    <3>2. Line(Cols(t)) = {}
      BY DEF stuck
    <3> QED
      BY <3>1, <3>2, LineFound
  <2> QED
    BY <1>1, <2>1, <2>2 DEF PanicsForAReason
<1>10. phase' \in {"params", "setup", "panic"}
  BY <1>1, <1>5
<1> QED
  BY <1>6, <1>7, <1>8, <1>9, <1>10, NothingYet DEF Inv

\* What the parameters of a bin that is not empty amount to.
LEMMA Fits ==
  ASSUME Inv, phase \notin {"params", "panic"}
  PROVE  /\ params.p \in Moduluses /\ params = Given(params.p)
         /\ Ne \in Nat \ {0} /\ params.l \in Nat \ {0} /\ params.m \in Nat \ {0}
         /\ params.l = geometry.perCol * geometry.size * Ne
         /\ params.m <= geometry.buckets /\ NEntries \in Nat \ {0}
         /\ params.l * params.m = NEntries * Ne
         /\ geometry.perCol * geometry.size \in Nat \ {0}
         /\ params.p <= Power(2, Basis) \/ modulus > Power(2, Basis)
<1> DEFINE p == params.p
<1>1. /\ p \in Moduluses /\ params = Given(p) /\ ~DimsPanic(p)
      /\ p <= Power(2, Basis) \/ modulus > Power(2, Basis)
  BY DEF Inv, Chosen
<1>2. geometry \in Geometries
  BY DEF Inv, Typed
<1> HIDE DEF p
<1>3. params.l = Rows(p) /\ params.m = Cols(p)
  BY <1>1 DEF Given
<1>4. Ne = ElemsPerEntry(p)
  BY DEF Ne, p
<1>5. ElemsPerEntry(p) \in Nat \ {0}
  BY <1>1, EntryFits, Sizes
<1>6. /\ geometry.size \in Nat \ {0} /\ geometry.perCol \in Nat \ {0}
      /\ Rows(p) \in Nat \ {0} /\ NEntries \in Nat \ {0}
      /\ Rows(p) * Cols(p) = NEntries * ElemsPerEntry(p)
      /\ Cols(p) \in Nat \ {0} /\ Cols(p) <= geometry.buckets
  BY <1>1, <1>2, Dimensions
<1>7. geometry.perCol * geometry.size \in Nat \ {0}
  BY <1>6
<1>8. params.l = geometry.perCol * geometry.size * Ne
  BY <1>3, <1>4 DEF Rows
<1> QED
  BY <1>1, <1>3, <1>4, <1>5, <1>6, <1>7, <1>8 DEF p

\* So neither SetupDB nor SetupDBInfo has anything to refuse.
LEMMA NothingRefused ==
  ASSUME Inv, phase \notin {"params", "panic"}
  PROVE  /\ ~SetupDBPanics /\ ~SetupDBInfoPanics
         /\ Ne = 1 => ~Overflows
         /\ SquishPanics => modulus > Power(2, Basis)
<1> DEFINE l == params.l
           m == params.m
           w == geometry.perCol * geometry.size
<1>1. /\ Ne \in Nat \ {0} /\ l \in Nat \ {0} /\ m \in Nat \ {0} /\ w \in Nat \ {0}
      /\ l = w * Ne /\ NEntries \in Nat \ {0} /\ l * m = NEntries * Ne
      /\ params.p <= Power(2, Basis) \/ modulus > Power(2, Basis)
  BY Fits
<1>2. params.p \in Nat /\ Power(2, Basis) \in Nat
  BY Fits, Sizes DEF Moduluses
<1>3. ~(Logq < Basis * Squishing)
  <2>1. Squishing * Basis <= Logq
    BY PirAssumption DEF PirAssumption
  <2> QED
    BY <2>1, Sizes DEF Squishing
<1>4. SquishPanics => modulus > Power(2, Basis)
  BY <1>1, <1>2, <1>3 DEF SquishPanics
<1> HIDE DEF l, m, w
<1>5. l % Ne = 0
  <2>1. Ne * w + 0 = l
    BY <1>1
  <2> QED
    BY <1>1, <2>1, Quotient
<1>6. NEntries * Ne <= l * m
  <2>1. NEntries * Ne \in Int
    BY <1>1
  <2> QED
    BY <1>1, <2>1
<1>7. Ne = 1 => ~Overflows
  <2> SUFFICES ASSUME Ne = 1 PROVE ~Overflows
    OBVIOUS
  <2>1. NEntries - 1 = l * (m - 1) + (l - 1)
    <3>1. NEntries = l * m
      BY <1>1
    <3>2. l * (m - 1) = l * m - l
      BY <1>1
    <3> QED
      BY <1>1, <3>1, <3>2
  <2>2. (NEntries - 1) \div l = m - 1
    BY <1>1, <2>1, Quotient
  <2>3. ((NEntries - 1) \div l) + 1 = m
    BY <1>1, <2>2
  <2> QED
    BY <1>1, <2>3 DEF Overflows, l, m
<1> QED
  BY <1>1, <1>4, <1>5, <1>6, <1>7 DEF SetupDBPanics, SetupDBInfoPanics, l, m

\* The server's state (server.go, CreateServerState).
LEMMA SetupInv == ASSUME Inv, Setup PROVE Inv'
<1>1. /\ phase = "setup" /\ UNCHANGED <<told, ptMod, params>>
      /\ \/ (SetupDBPanics \/ Overflows \/ SquishPanics) /\ phase' = "panic"
         \/ /\ ~SetupDBPanics /\ ~Overflows /\ ~SquishPanics
            /\ phase' = "hint" /\ seed' \in Seeds /\ hint' = HintOf(seed')
  BY DEF Setup
<1>2. Ne \in Nat \ {0}
  BY <1>1, Fits
<1>3. phase' = "panic" => Ne > 1 \/ geometry.size = 0 \/ modulus > Power(2, Basis)
  BY <1>1, <1>2, NothingRefused
<1>4. Typed' /\ Refining' /\ Chosen' /\ PanicsForAReason'
  BY <1>1, <1>3, ParamsKept DEF WithHint
<1>5. CASE phase' = "panic"
  BY <1>4, <1>5, NothingYet DEF Inv
<1>6. CASE phase' = "hint"
  <2>1. Built'
    BY <1>1, <1>6, SameDatabase DEF Built
  <2>2. Sent' /\ Asked' /\ Answered' /\ Responded' /\ Finished'
    BY <1>6 DEF Sent, Asked, Answered, Responded, Finished,
                WithOffline, WithQuery, WithAnswer, WithResponse
  <2> QED
    BY <1>4, <2>1, <2>2 DEF Inv
<1> QED
  BY <1>1, <1>5, <1>6

\* The hint goes to the client.
LEMMA SendHintInv == ASSUME Inv, SendHint PROVE Inv'
<1>1. /\ phase = "hint" /\ UNCHANGED <<told, ptMod, params, seed, hint>>
      /\ \/ SetupDBInfoPanics /\ phase' = "panic"
         \/ phase' = "query" /\ offline' \in SwitchedMatrix(hint, params.l, LweN)
  BY DEF SendHint
<1>2. ~SetupDBInfoPanics
  BY <1>1, NothingRefused
<1>3. phase' = "query"
  BY <1>1, <1>2
<1>4. Typed' /\ Refining' /\ Chosen' /\ PanicsForAReason'
  BY <1>1, <1>3, ParamsKept DEF WithHint
<1>5. Built'
  BY <1>1, BuiltKept DEF Inv, WithHint
<1>6. Sent'
  BY <1>1, <1>2 DEF Sent
<1>7. Asked' /\ Answered' /\ Responded' /\ Finished'
  BY <1>3 DEF Asked, Answered, Responded, Finished, WithQuery, WithAnswer, WithResponse
<1> QED
  BY <1>4, <1>5, <1>6, <1>7 DEF Inv

\* The client asks (client.go, ComputeQuery).
LEMMA QueryInv == ASSUME Inv, Query PROVE Inv'
<1>1. /\ phase = "query" /\ phase' = "answer" /\ UNCHANGED <<told, setUp>>
      /\ asked' \in 0 .. params.m - 1 /\ secret' \in [0 .. LweN - 1 -> Ternaries]
      /\ error' \in MatrixGaussian(params.m) /\ query' = QueryOf(asked', secret', error')
  BY DEF Query
<1>2. UNCHANGED <<told, ptMod, params, seed, hint, offline>>
  BY <1>1 DEF setUp
<1>3. Typed' /\ Refining' /\ Chosen' /\ PanicsForAReason'
  BY <1>1, <1>2, ParamsKept DEF WithHint
<1>4. Built'
  BY <1>1, <1>2, BuiltKept DEF Inv, WithHint
<1>5. Sent'
  BY <1>1, <1>2, SentKept DEF Inv, WithOffline
<1>6. Asked'
  BY <1>1, <1>2, SameQuery DEF Asked
<1>7. Answered' /\ Responded' /\ Finished'
  BY <1>1 DEF Answered, Responded, Finished, WithAnswer, WithResponse
<1> QED
  BY <1>3, <1>4, <1>5, <1>6, <1>7 DEF Inv

\* The server reads as many elements as the client appended zeros to.
LEMMA PaddedRight ==
  ASSUME params.m \in Nat \ {0}
  PROVE  SquishedCols * Squishing = QuerySize /\ SquishedCols \in Nat /\ QuerySize \in Nat
         /\ params.m <= QuerySize
<1> DEFINE m == params.m
           k == m \div 3
           r == m % 3
<1>1. k \in Nat /\ r \in 0 .. 2 /\ m = 3 * k + r
  <2>1. m \in Nat
    OBVIOUS
  <2> HIDE DEF m
  <2> QED
    BY <2>1
<1> HIDE DEF k, r
<1>2. Padding = IF r # 0 THEN 3 - r ELSE 0
  BY DEF Padding, Squishing, r
<1>3. CASE r = 0
  <2>1. (m + Squishing - 1) \div Squishing = k
    <3>1. m + Squishing - 1 = 3 * k + 2
      BY <1>1, <1>3 DEF Squishing
    <3> QED
      BY <1>1, <3>1, Quotient DEF Squishing
  <2> QED
    BY <1>1, <1>2, <1>3, <2>1 DEF SquishedCols, Squishing, QuerySize
<1>4. CASE r # 0
  <2>1. (m + Squishing - 1) \div Squishing = k + 1
    <3>1. m + Squishing - 1 = 3 * (k + 1) + (r - 1)
      BY <1>1, <1>4 DEF Squishing
    <3> QED
      BY <1>1, <1>4, <3>1, Quotient DEF Squishing
  <2> QED
    BY <1>1, <1>2, <1>4, <2>1 DEF SquishedCols, Squishing, QuerySize
<1> QED
  BY <1>3, <1>4

\* The server answers (simple_pir.go, Answer).
LEMMA AnswerInv == ASSUME Inv, Answer PROVE Inv'
<1>1. /\ phase = "answer" /\ UNCHANGED <<told, setUp, queried>>
      /\ \/ SquishedCols * Squishing # QuerySize
         \/ phase' = "response" /\ answer' = MatrixMulVecPacked(query)
  BY DEF Answer
<1>2. phase' = "response" /\ answer' = MatrixMulVecPacked(query)
  BY <1>1, Fits, PaddedRight
<1>3. UNCHANGED <<told, ptMod, params, seed, hint, offline, query>>
  BY <1>1 DEF setUp, queried
<1>4. Typed' /\ Refining' /\ Chosen' /\ PanicsForAReason'
  BY <1>1, <1>2, <1>3, ParamsKept DEF WithHint
<1>5. Built'
  BY <1>1, <1>3, BuiltKept DEF Inv, WithHint
<1>6. Sent'
  BY <1>1, <1>3, SentKept DEF Inv, WithOffline
<1>7. Asked'
  BY <1>1, <1>3, AskedKept DEF Inv, WithQuery
<1>8. Answered'
  BY <1>2, <1>3, SameDatabase DEF Answered
<1>9. Responded' /\ Finished'
  BY <1>2 DEF Responded, Finished, WithResponse
<1> QED
  BY <1>4, <1>5, <1>6, <1>7, <1>8, <1>9 DEF Inv

\* The answer goes to the client.
LEMMA SendAnswerInv == ASSUME Inv, SendAnswer PROVE Inv'
<1>1. /\ phase = "response" /\ phase' = "recover" /\ response' \in Switched(answer)
      /\ UNCHANGED <<told, setUp, queried, answer>>
  BY DEF SendAnswer
<1>2. UNCHANGED <<told, ptMod, params, seed, hint, offline, query>>
  BY <1>1 DEF setUp, queried
<1>3. Typed' /\ Refining' /\ Chosen' /\ PanicsForAReason'
  BY <1>1, <1>2, ParamsKept DEF WithHint
<1>4. Built'
  BY <1>1, <1>2, BuiltKept DEF Inv, WithHint
<1>5. Sent'
  BY <1>1, <1>2, SentKept DEF Inv, WithOffline
<1>6. Asked'
  BY <1>1, <1>2, AskedKept DEF Inv, WithQuery
<1>7. Answered'
  BY <1>1, <1>2, AnsweredKept DEF Inv, WithAnswer
<1>8. Responded'
  <2>1. \A v: Switched(v)' = Switched(v)
    BY DEF Switched
  <2> QED
    BY <1>1 DEF Responded
<1>9. Finished'
  BY <1>1 DEF Finished
<1> QED
  BY <1>3, <1>4, <1>5, <1>6, <1>7, <1>8, <1>9 DEF Inv

\* What is recovered depends on nothing that changes after the answer.
LEMMA SameAnswer ==
  ASSUME UNCHANGED <<told, params, offline, secret, query, response>>
  PROVE  \A i: Entry(i)' = Entry(i)
<1>1. Ne' = Ne /\ params' = params
  BY SameDatabase
<1>2. Unmasked' = Unmasked
  BY DEF Unmasked
<1>3. Offset' = Offset
  BY DEF Offset
<1>4. \A r: Noised(r)' = Noised(r)
  BY <1>2, <1>3 DEF Noised
<1>5. \A r: Value(r)' = Value(r)
  BY <1>1, <1>4 DEF Value, Round, Delta
<1> QED
  BY <1>1, <1>5 DEF Entry

\* With one element to an entry the loop reads no further than the last row.
LEMMA RecoverInv == ASSUME Inv, Recover PROVE Inv'
<1>1. /\ phase = "recover" /\ UNCHANGED <<told, setUp, queried, answer, response>>
      /\ \/ (\E i \in Turns: (i + 1) * Ne > params.l) /\ phase' = "panic"
         \/ /\ ~(\E i \in Turns: (i + 1) * Ne > params.l)
            /\ phase' = "done" /\ column' = [i \in Turns |-> Entry(i)]
  BY DEF Recover
<1>2. UNCHANGED <<told, ptMod, params, seed, hint, offline, secret, query>>
  BY <1>1 DEF setUp, queried
<1>3. Ne \in Nat \ {0} /\ params.l \in Nat
  BY <1>1, Fits
<1>4. phase' = "panic" => Ne > 1
  <2> SUFFICES ASSUME Ne = 1, NEW i \in Turns, (i + 1) * Ne > params.l PROVE FALSE
    BY <1>1, <1>3
  <2>1. i \in 0 .. params.l - 1
    BY DEF Turns
  <2> QED
    BY <1>3, <2>1
<1>5. Typed' /\ Refining' /\ Chosen' /\ PanicsForAReason'
  BY <1>1, <1>2, <1>4, ParamsKept DEF WithHint
<1>6. CASE phase' = "panic"
  BY <1>5, <1>6, NothingYet DEF Inv
<1>7. CASE phase' = "done"
  <2>1. Built'
    BY <1>1, <1>2, BuiltKept DEF Inv, WithHint
  <2>2. Sent'
    BY <1>1, <1>2, SentKept DEF Inv, WithOffline
  <2>3. Asked'
    BY <1>1, <1>2, AskedKept DEF Inv, WithQuery
  <2>4. Answered'
    BY <1>1, <1>2, AnsweredKept DEF Inv, WithAnswer
  <2>5. Responded'
    <3>1. \A v: Switched(v)' = Switched(v)
      BY DEF Switched
    <3>2. response \in Switched(answer)
      BY <1>1 DEF Inv, Responded, WithResponse
    <3> QED
      BY <1>1, <3>1, <3>2 DEF Responded
  <2>6. Finished'
    <3>1. \A i \in Turns: (i + 1) * Ne <= params.l
      <4> SUFFICES ASSUME NEW i \in Turns PROVE (i + 1) * Ne <= params.l
        OBVIOUS
      <4>1. ~((i + 1) * Ne > params.l)
        BY <1>1, <1>7
      <4>2. i \in Nat
        BY DEF Turns
      <4>3. (i + 1) * Ne \in Int
        BY <1>3, <4>2
      <4> QED
        BY <1>3, <4>1, <4>3
    <3>2. Turns' = Turns /\ Ne' = Ne
      BY <1>2, SameDatabase
    <3>3. \A i: Entry(i)' = Entry(i)
      BY <1>1, <1>2, SameAnswer
    <3>4. column' = [i \in Turns |-> Entry(i)]
      BY <1>1, <1>7
    <3> QED
      BY <1>2, <3>1, <3>2, <3>3, <3>4 DEF Finished
  <2> QED
    BY <1>5, <2>1, <2>2, <2>3, <2>4, <2>5, <2>6 DEF Inv
<1> QED
  BY <1>1, <1>6, <1>7

\* A step that changes nothing.
LEMMA StutterInv == ASSUME Inv, UNCHANGED vars PROVE Inv'
<1>1. UNCHANGED <<told, ptMod, params, seed, hint, offline, queried, query, secret,
                  asked, error, answer, response, column, phase>>
  BY DEF vars, told, queried
<1>2. geometry' = geometry /\ modulus' = modulus /\ dataset' = dataset
  BY <1>1 DEF told
<1>3. /\ NEntries' = NEntries /\ Ne' = Ne
      /\ \A p: /\ Given(p)' = Given(p) /\ DimsPanic(p)' = DimsPanic(p) /\ Cols(p)' = Cols(p)
               /\ Rows(p)' = Rows(p)
  BY <1>1, <1>2, SameGeometry, SameDatabase
<1>4. \A p: Candidate(p)' = Candidate(p)
  BY <1>3 DEF Candidate
<1>5. Typed'
  BY <1>1, <1>2, <1>3 DEF Inv, Typed
<1>6. Refining'
  BY <1>1, <1>2, <1>3, <1>4 DEF Inv, Refining
<1>7. Chosen'
  BY <1>1, <1>2, <1>3 DEF Inv, Chosen
<1>8. PanicsForAReason'
  BY <1>1, <1>2, <1>3 DEF Inv, PanicsForAReason
<1>9. Built'
  BY <1>1, SameDatabase DEF Inv, Built
<1>10. Sent'
  BY <1>1 DEF Inv, Sent
<1>11. Asked'
  BY <1>1, SameQuery DEF Inv, Asked
<1>12. Answered'
  BY <1>1, SameDatabase DEF Inv, Answered
<1>13. Responded'
  BY <1>1 DEF Inv, Responded, Switched
<1>14. Finished'
  BY <1>1, <1>3, SameDatabase, SameAnswer DEF Inv, Finished
<1> QED
  BY <1>5, <1>6, <1>7, <1>8, <1>9, <1>10, <1>11, <1>12, <1>13, <1>14 DEF Inv

\* What was computed stays what it was computed from.
THEOREM Invariant == Spec => []Inv
<1>1. Init => Inv
  BY InitInv
<1>2. Inv /\ [Next]_vars => Inv'
  <2> SUFFICES ASSUME Inv, [Next]_vars PROVE Inv'
    OBVIOUS
  <2>1. CASE UNCHANGED vars
    BY <2>1, StutterInv
  <2>2. CASE Next
    BY <2>2, UseGivenInv, RefineInv, SetupInv, SendHintInv, QueryInv, AnswerInv, SendAnswerInv,
       RecoverInv, StutterInv DEF Next, Terminated
  <2> QED
    BY <2>1, <2>2
<1> QED
  BY <1>1, <1>2, PTL DEF Spec

\* Once they are chosen, the parameters are those of their own modulus, and the
\* database has exactly the room its entries need.
THEOREM ParametersFit == Spec => []ParamsTight
<1>1. Inv => ParamsTight
  <2> SUFFICES ASSUME Inv, phase \notin {"params", "panic"}
               PROVE  params = Given(params.p) /\ NEntries * Ne <= params.l * params.m
    BY DEF ParamsTight
  <2>1. params = Given(params.p) /\ params.l * params.m = NEntries * Ne
        /\ Ne \in Nat /\ NEntries \in Nat
    BY Fits
  <2>2. NEntries * Ne \in Int
    BY <2>1
  <2> QED
    BY <2>1, <2>2
<1> QED
  BY Invariant, <1>1, PTL

\* No other panic is reached: not the one of SetupDB or of SetupDBInfo, nor,
\* with one element to an entry, the one of Set or of RecoverColumn, nor that of
\* a query of the wrong size.
THEOREM PanicsExplained == Spec => []PanicsForAReason
BY Invariant, PTL DEF Inv

-----------------------------------------------------------------------------
\* Squishing three elements into one, and taking them apart.

Packed(b, x, y, z) == x + b * y + (b * b) * z

\* Three digits can be taken out of a number again.
LEMMA Unsquished ==
  ASSUME NEW b \in Nat \ {0}, NEW x \in 0 .. b - 1, NEW y \in 0 .. b - 1, NEW z \in 0 .. b - 1
  PROVE  /\ Packed(b, x, y, z) \in 0 .. b * b * b - 1
         /\ Packed(b, x, y, z) % b = x
         /\ (Packed(b, x, y, z) \div b) % b = y
         /\ (Packed(b, x, y, z) \div (b * b)) % b = z
<1> DEFINE u == y + b * z
           s == x + b * y + (b * b) * z
<1>1. b * z \in Nat /\ u \in Nat /\ b * b \in Nat \ {0} /\ b * b * b \in Nat \ {0}
      /\ b * y \in Nat /\ (b * b) * z \in Nat
  OBVIOUS
<1>2. s = b * u + x
  <2>1. b * u = b * y + (b * b) * z
    OBVIOUS
  <2> HIDE DEF u
  <2> QED
    BY <1>1, <2>1
<1>3. s % b = x /\ s \div b = u
  <2> HIDE DEF u
  <2> QED
    BY <1>1, <1>2, Quotient
<1>4. u % b = y
  <2>1. u = b * z + y
    BY <1>1
  <2> QED
    BY <2>1, Quotient
<1>5. x + b * y \in 0 .. b * b - 1
  <2>1. b * y <= b * (b - 1)
    OBVIOUS
  <2>2. b * (b - 1) = b * b - b
    OBVIOUS
  <2> QED
    BY <1>1, <2>1, <2>2
<1>6. s = (b * b) * z + (x + b * y)
  BY <1>1
<1>7. s \div (b * b) = z
  <2> DEFINE q == b * b
             r == x + b * y
  <2>1. q \in Nat \ {0} /\ r \in 0 .. q - 1 /\ s = q * z + r
    BY <1>1, <1>5, <1>6
  <2> HIDE DEF q, r
  <2>2. s \div q = z
    BY <2>1, Quotient
  <2> QED
    BY <2>2 DEF q
<1>8. z % b = z
  <2>1. z = b * 0 + z
    OBVIOUS
  <2> QED
    BY <2>1, Quotient
<1>9. s \in 0 .. b * b * b - 1
  <2> DEFINE q == b * b
             r == x + b * y
  <2>1. q \in Nat \ {0} /\ r \in 0 .. q - 1 /\ s = q * z + r
    BY <1>1, <1>5, <1>6
  <2> HIDE DEF q, r
  <2>2. q * z <= q * (b - 1) /\ q * z \in Nat
    BY <2>1
  <2>3. q * (b - 1) = q * b - q
    BY <2>1
  <2>4. q * b \in Nat
    BY <2>1
  <2>5. s \in 0 .. q * b - 1
    BY <2>1, <2>2, <2>3, <2>4
  <2> QED
    BY <2>5 DEF q
<1> QED
  BY <1>3, <1>4, <1>7, <1>8, <1>9 DEF Packed

\* Three squished elements fit in a word.
LEMMA WordHoldsThree ==
  ASSUME NEW b, b = Power(2, Basis)
  PROVE  /\ b \in Nat \ {0} /\ b * b * b <= Q /\ b <= Q
         /\ Power(2, 0 * Basis) = 1 /\ Power(2, 1 * Basis) = b /\ Power(2, 2 * Basis) = b * b
<1>1. Basis \in Nat \ {0} /\ Logq \in Nat /\ 3 * Basis <= Logq /\ b \in Nat \ {0}
  <2>1. Squishing * Basis <= Logq
    BY PirAssumption DEF PirAssumption
  <2> QED
    BY <2>1, Sizes DEF Squishing
<1>2. Power(2, 2 * Basis) = b * b
  <2>1. 2 * Basis = Basis + Basis
    BY <1>1
  <2> QED
    BY <1>1, <2>1, PowerAdds
<1>3. Power(2, 3 * Basis) = b * b * b
  <2>1. 3 * Basis = 2 * Basis + Basis /\ 2 * Basis \in Nat
    BY <1>1
  <2> QED
    BY <1>1, <1>2, <2>1, PowerAdds
<1>4. b * b * b <= Q /\ b * b * b \in Nat \ {0}
  <2> DEFINE rest == Logq - 3 * Basis
             w == b * b * b
  <2>1. rest \in Nat /\ Logq = 3 * Basis + rest /\ 3 * Basis \in Nat
    BY <1>1
  <2> HIDE DEF rest
  <2>2. Q = Power(2, 3 * Basis) * Power(2, rest)
    BY <2>1, PowerAdds DEF Q
  <2>3. Power(2, rest) \in Nat \ {0}
    BY <2>1, PowerType
  <2>4. w \in Nat \ {0}
    BY <1>1
  <2>5. Q = w * Power(2, rest)
    BY <1>3, <2>2
  <2> HIDE DEF w
  <2>6. w <= w * Power(2, rest)
    BY <2>3, <2>4
  <2>7. w <= Q
    BY <2>5, <2>6
  <2> QED
    BY <2>4, <2>7 DEF w
<1>5. b <= b * b * b
  <2>1. b * b \in Nat \ {0}
    BY <1>1
  <2> DEFINE q == b * b
  <2>2. q \in Nat \ {0}
    BY <2>1
  <2> HIDE DEF q
  <2>3. b <= q * b
    BY <1>1, <2>2
  <2> QED
    BY <2>3 DEF q
<1>6. b <= Q
  BY <1>1, <1>4, <1>5, Sizes
<1>7. Power(2, 0 * Basis) = 1 /\ Power(2, 1 * Basis) = b
  BY <1>1, PowerNone
<1> QED
  BY <1>1, <1>2, <1>4, <1>6, <1>7

-----------------------------------------------------------------------------
\* What each matrix holds, where an entry is one element.

\* The database: each element is an entry, and survives being mapped to
\* [-p/2, p/2] and back.
LEMMA DatabaseRow ==
  ASSUME Inv, phase \in WithHint, Ne = 1, NEW r \in 0 .. params.l - 1, NEW c \in 0 .. params.m - 1
  PROVE  /\ Raw(r, c) = dataset[c * params.l + r + 1]
         /\ Raw(r, c) \in 0 .. params.p - 1 /\ Raw(r, c) \in 0 .. Power(2, RowLength) - 1
         /\ Centred[r][c] \in 0 .. Q - 1 /\ Alike(Centred[r][c], Raw(r, c) - params.p \div 2)
         /\ Uncentred[r][c] = Raw(r, c)
<1> DEFINE p == params.p
           l == params.l
           m == params.m
           h == p \div 2
           i == c * l + r
           x == Raw(r, c)
           last == Power(2, RowLength) - 1
<1>1. /\ p \in Moduluses /\ l \in Nat \ {0} /\ m \in Nat \ {0} /\ NEntries \in Nat \ {0}
      /\ l * m = NEntries * 1
  BY Fits DEF WithHint
<1>2. p \in Nat \ {0, 1} /\ p <= Power(2, Basis) /\ h \in Nat /\ p <= Q
  <2>1. p \in Nat \ {0, 1} /\ ~(p > Power(2, Basis))
    BY <1>1 DEF Inv, Built, SquishPanics, Moduluses
  <2>2. Power(2, Basis) \in Nat /\ Power(2, Basis) <= Q /\ Q \in Nat
    BY WordHoldsThree, Sizes
  <2> HIDE DEF p
  <2> QED
    BY <2>1, <2>2
<1>3. i \in 0 .. NEntries - 1
  <2> HIDE DEF l, m
  <2>1. c \in 0 .. m - 1 /\ r \in 0 .. l - 1
    BY DEF l, m
  <2>2. c * l <= (m - 1) * l /\ (m - 1) * l = l * m - l /\ c * l \in Nat
    BY <1>1, <2>1
  <2> QED
    BY <1>1, <2>1, <2>2
<1>4. dataset[i + 1] \in 0 .. last /\ last + 1 = Power(2, RowLength)
      /\ Power(2, RowLength) \in Nat \ {0}
  <2>1. geometry \in Geometries /\ dataset \in Datasets(NEntries)
    BY DEF Inv, Typed
  <2>2. dataset \in Datasets(geometry.buckets * geometry.size)
    BY <2>1 DEF NEntries
  <2>3. dataset \in [1 .. geometry.buckets * geometry.size -> 0 .. last]
    BY <2>1, <2>2, InputAssumption DEF InputAssumption
  <2>4. dataset \in [1 .. NEntries -> 0 .. last]
    BY <2>3 DEF NEntries
  <2> HIDE DEF i, last
  <2>5. i + 1 \in 1 .. NEntries
    BY <1>1, <1>3
  <2>6. dataset[i + 1] \in 0 .. last
    BY <2>4, <2>5
  <2> QED
    BY <2>6, Sizes DEF last
<1>5. Power(2, RowLength) <= p
  <2>1. ElemsPerEntry(p) = 1
    BY DEF Ne
  <2>2. Power(p, 1) >= Power(2, RowLength)
    BY <1>1, <2>1, EntryFits
  <2>3. Power(p, 1) = p
    BY <1>2, PowerOne
  <2> QED
    BY <1>2, <1>4, <2>2, <2>3
<1>6. x = dataset[i + 1]
  <2>1. c \div 1 = c /\ c % 1 = 0
    OBVIOUS
  <2>2. i < NEntries
    BY <1>1, <1>3
  <2>3. x = Digit(p, dataset[i + 1], 0)
    BY <2>1, <2>2 DEF Raw
  <2>4. Power(p, 0) = 1
    BY PowerNone
  <2> DEFINE d == dataset[i + 1]
  <2>5. d \in 0 .. p - 1
    BY <1>2, <1>4, <1>5
  <2> HIDE DEF d, p, x
  <2>6. d \div 1 = d /\ d % p = d
    <3>1. d % p = d
      BY <1>2, <2>5, Small
    <3>2. d \in Int
      BY <1>2, <2>5
    <3>3. d \div 1 = d
      <4> HIDE <2>3, <2>4
      <4> QED
        BY <3>2
    <3> QED
      BY <3>1, <3>3
  <2>7. x = (d \div Power(p, 0)) % p
    BY <2>3 DEF Digit, d
  <2> QED
    BY <2>4, <2>6, <2>7 DEF d
<1> HIDE DEF x, last, i, h, p
<1>7. x \in 0 .. p - 1 /\ x \in 0 .. Power(2, RowLength) - 1
  <2>1. x \in 0 .. last
    BY <1>4, <1>6
  <2>2. x \in 0 .. p - 1
    BY <1>2, <1>4, <1>5, <2>1 DEF last
  <2> QED
    BY <2>1, <2>2 DEF last
<1>8. Centred[r][c] = (x - h) % Q
  BY DEF Centred, Sub, x, h, p
<1>9. Centred[r][c] \in 0 .. Q - 1 /\ Alike(Centred[r][c], x - h)
  <2>1. x - h \in Int
    BY <1>2, <1>7
  <2> QED
    BY <1>8, <2>1, AlikeRemainder
<1>10. Uncentred[r][c] = x
  <2> DEFINE y == Centred[r][c]
  <2>1. Uncentred[r][c] = (y + h) % Q
    BY DEF Uncentred, Add, h, p
  <2>2. y \in Int /\ Alike(y, x - h)
    BY <1>9, Sizes
  <2> HIDE DEF y
  <2>3. PICK t \in Int: y = (x - h) + t * Q
    BY <2>2 DEF Alike
  <2>4. y + h = Q * t + x
    BY <1>2, <1>7, <2>3, Sizes
  <2>5. x \in 0 .. Q - 1
    BY <1>2, <1>7, Sizes
  <2> QED
    BY <2>1, <2>4, <2>5, Sizes, Quotient
<1> QED
  BY <1>6, <1>7, <1>9, <1>10 DEF x, i, h, p

\* What the server multiplies with: the same elements, then zeros.
LEMMA UnpackedRow ==
  ASSUME Inv, phase \in WithHint, Ne = 1, NEW r \in 0 .. params.l - 1, NEW c \in 0 .. QuerySize - 1
  PROVE  Unpacked[r][c] = IF c < params.m THEN Raw(r, c) ELSE 0
<1> DEFINE m == params.m
           b == Power(2, Basis)
           j == c \div 3
           k == c % 3
           u(n) == IF 3 * j + n < m THEN Uncentred[r][3 * j + n] ELSE 0
           f == [n \in 0 .. 2 |->
                   IF 3 * j + n < m THEN Uncentred[r][3 * j + n] * Power(2, n * Basis) ELSE 0]
<1>1. /\ m \in Nat \ {0} /\ SquishedCols * 3 = QuerySize /\ QuerySize \in Nat
      /\ params.p \in Nat /\ params.p <= b
  <2>1. m \in Nat \ {0} /\ params.p \in Moduluses
    BY Fits DEF WithHint
  <2>2. ~(params.p > b) /\ b \in Nat
    BY Sizes DEF Inv, Built, SquishPanics
  <2> QED
    BY <2>1, <2>2, PaddedRight DEF Squishing, Moduluses
<1>2. /\ b \in Nat \ {0} /\ b * b * b <= Q /\ Power(2, 0 * Basis) = 1 /\ Power(2, 1 * Basis) = b
      /\ Power(2, 2 * Basis) = b * b
  BY WordHoldsThree
<1>3. c \in Nat /\ j \in Nat /\ k \in 0 .. 2 /\ c = 3 * j + k
  <2>1. c \in Nat
    BY <1>1
  <2> QED
    BY <2>1
<1> HIDE DEF j, k, b
<1>4. \A n \in 0 .. 2: u(n) = (IF 3 * j + n < m THEN Raw(r, 3 * j + n) ELSE 0) /\ u(n) \in 0 .. b - 1
  <2> SUFFICES ASSUME NEW n \in 0 .. 2
               PROVE  u(n) = (IF 3 * j + n < m THEN Raw(r, 3 * j + n) ELSE 0) /\ u(n) \in 0 .. b - 1
    OBVIOUS
  <2>1. CASE 3 * j + n < m
    <3> DEFINE d == 3 * j + n
    <3>1. d \in 0 .. m - 1
      BY <1>1, <1>3, <2>1
    <3>2. Uncentred[r][d] = Raw(r, d) /\ Raw(r, d) \in 0 .. params.p - 1
      BY <3>1, DatabaseRow
    <3>3. Raw(r, d) \in 0 .. b - 1
      BY <1>1, <1>2, <3>2
    <3> QED
      BY <2>1, <3>2, <3>3
  <2>2. CASE ~(3 * j + n < m)
    BY <1>2, <2>2
  <2> QED
    BY <2>1, <2>2
<1>5. Squished(r, j) = Sum(3, f) % Q
  BY DEF Squished, Squishing
<1> DEFINE s == u(0) + b * u(1) + (b * b) * u(2)
<1>6. Sum(3, f) = s
  <2> DEFINE u0 == u(0)
             u1 == u(1)
             u2 == u(2)
  <2>1. u0 \in Int /\ u1 \in Int /\ u2 \in Int /\ b \in Int /\ b * b \in Int
    BY <1>2, <1>4
  <2>2. f[0] = u0 * 1 /\ f[1] = u1 * b /\ f[2] = u2 * (b * b)
    <3>1. f[0] = IF 3 * j + 0 < m THEN Uncentred[r][3 * j + 0] * 1 ELSE 0
      BY <1>2
    <3>2. f[1] = IF 3 * j + 1 < m THEN Uncentred[r][3 * j + 1] * b ELSE 0
      BY <1>2
    <3>3. f[2] = IF 3 * j + 2 < m THEN Uncentred[r][3 * j + 2] * (b * b) ELSE 0
      BY <1>2
    <3> HIDE DEF f
    <3> QED
      BY <2>1, <3>1, <3>2, <3>3
  <2> HIDE DEF f, u0, u1, u2
  <2>3. Sum(0, f) = 0
    BY SumNone
  <2>4. Sum(0 + 1, f) = Sum(0, f) + f[0]
    BY SumOneMore
  <2>5. Sum(1 + 1, f) = Sum(1, f) + f[1]
    BY SumOneMore
  <2>6. Sum(2 + 1, f) = Sum(2, f) + f[2]
    BY SumOneMore
  <2>7. Sum(3, f) = ((0 + u0 * 1) + u1 * b) + u2 * (b * b)
    BY <2>2, <2>3, <2>4, <2>5, <2>6
  <2>8. Sum(3, f) = u0 + b * u1 + (b * b) * u2
    BY <2>1, <2>7
  <2> QED
    BY <2>8 DEF u0, u1, u2
<1>7. /\ s \in 0 .. b * b * b - 1
      /\ s % b = u(0) /\ (s \div b) % b = u(1) /\ (s \div (b * b)) % b = u(2)
  <2>1. u(0) \in 0 .. b - 1 /\ u(1) \in 0 .. b - 1 /\ u(2) \in 0 .. b - 1
    BY <1>4
  <2> DEFINE u0 == u(0)
             u1 == u(1)
             u2 == u(2)
  <2>2. u0 \in 0 .. b - 1 /\ u1 \in 0 .. b - 1 /\ u2 \in 0 .. b - 1
    BY <2>1
  <2>3. s = Packed(b, u0, u1, u2)
    BY DEF Packed
  <2> HIDE DEF u, u0, u1, u2, s
  <2>4. /\ s \in 0 .. b * b * b - 1
        /\ s % b = u0 /\ (s \div b) % b = u1 /\ (s \div (b * b)) % b = u2
    BY <1>2, <2>2, <2>3, Unsquished
  <2> QED
    BY <2>4 DEF u0, u1, u2
<1>8. Squished(r, j) = s
  <2>1. s \in 0 .. Q - 1
    <3>1. b * b * b \in Nat /\ Q \in Nat
      BY <1>2, Sizes
    <3> HIDE DEF s
    <3> QED
      BY <1>2, <1>7, <3>1
  <2> HIDE DEF s, f
  <2>2. s % Q = s
    BY <2>1, Sizes, Small
  <2> QED
    BY <1>5, <1>6, <2>2
<1> HIDE DEF s, f
<1>9. Unpacked[r][c] = (Squished(r, j) \div Power(2, k * Basis)) % b
  <2>1. c \in 0 .. SquishedCols * Squishing - 1
    BY <1>1 DEF Squishing
  <2> QED
    BY <2>1 DEF Unpacked, Squishing, j, k, b
<1>10. Unpacked[r][c] = u(k)
  <2> HIDE DEF u
  <2>1. k = 0 \/ k = 1 \/ k = 2
    BY <1>3
  <2>2. s \in Int
    BY <1>2, <1>7
  <2>3. CASE k = 0
    <3>1. s \div 1 = s
      BY <2>2
    <3> QED
      BY <1>2, <1>7, <1>8, <1>9, <2>3, <3>1
  <2>4. CASE k = 1
    BY <1>2, <1>7, <1>8, <1>9, <2>4
  <2>5. CASE k = 2
    BY <1>2, <1>7, <1>8, <1>9, <2>5
  <2> QED
    BY <2>1, <2>3, <2>4, <2>5
<1> QED
  BY <1>3, <1>4, <1>10

\* A word stays a word when it is rounded.
LEMMA RoundedWord == ASSUME NEW x \in Int, NEW up PROVE RoundedTo(x, up) \in 0 .. Q - 1
<1>1. Unit \in Nat \ {0} /\ x \div Unit \in Int
  BY Sizes, Divided
<1> DEFINE y == x \div Unit
           z == (y + IF up THEN 1 ELSE 0) * Unit
<1>2. y + (IF up THEN 1 ELSE 0) \in Int
  BY <1>1
<1>3. z \in Int
  BY <1>1, <1>2
<1>4. RoundedTo(x, up) = z % Q
  BY DEF RoundedTo
<1> HIDE DEF z
<1> QED
  BY <1>3, <1>4, AlikeRemainder

\* The product of row c of the LWE matrix and the secret.
Masked(c) == Sum(LweN, [k \in 0 .. LweN - 1 |-> LweMatrix(seed)[c][k] * secret[k]])

\* The types of what a query is made of.
LEMMA QueryParts ==
  ASSUME Inv, phase \in WithQuery, NEW c \in 0 .. params.m - 1
  PROVE  /\ \A k \in 0 .. LweN - 1: LweMatrix(seed)[c][k] \in 0 .. Q - 1 /\ secret[k] \in Int
         /\ error[c] \in 0 .. Q - 1 /\ Masked(c) \in Int
<1> DEFINE m == params.m
<1>1. /\ m \in Nat \ {0} /\ geometry \in Geometries /\ geometry.buckets \in Nat \ {0}
      /\ m <= geometry.buckets /\ seed \in Seeds
      /\ secret \in [0 .. LweN - 1 -> Ternaries] /\ error \in MatrixGaussian(m)
  <2>1. geometry \in Geometries
    BY DEF Inv, Typed
  <2>2. geometry.buckets \in Nat \ {0}
    BY <2>1, PirAssumption DEF PirAssumption
  <2>3. m \in Nat \ {0} /\ m <= geometry.buckets
    BY Fits DEF WithQuery
  <2>4. seed \in Seeds
    BY DEF Inv, Built, WithQuery, WithHint
  <2> QED
    BY <2>1, <2>2, <2>3, <2>4 DEF Inv, Asked
<1>2. Q \in Nat \ {0} /\ LweN \in Nat \ {0}
  BY Sizes
<1>3. \A k \in 0 .. LweN - 1: LweMatrix(seed)[c][k] \in 0 .. Q - 1
  <2> SUFFICES ASSUME NEW k \in 0 .. LweN - 1 PROVE LweMatrix(seed)[c][k] \in 0 .. Q - 1
    OBVIOUS
  <2>1. LweMatrix(seed)[c][k] = Stream(seed, LweN * c + k)
    BY DEF LweMatrix, FasterMatrixRand
  <2> DEFINE b == geometry.buckets
             i == LweN * c + k
  <2>2. i \in 0 .. b * LweN - 1
    <3>1. b \in Nat /\ c \in Nat /\ c <= b - 1
      BY <1>1
    <3> HIDE DEF b
    <3>2. LweN * c <= LweN * (b - 1) /\ LweN * (b - 1) = b * LweN - LweN /\ LweN * c \in Nat
          /\ b * LweN \in Nat
      BY <1>2, <3>1
    <3> QED
      BY <1>2, <3>1, <3>2
  <2>3. \A s \in Seeds: \A n \in 0 .. b * LweN - 1: Stream(s, n) \in 0 .. Q - 1
    BY <1>1, InputAssumption DEF InputAssumption
  <2> HIDE DEF i, b
  <2>4. Stream(seed, i) \in 0 .. Q - 1
    BY <1>1, <2>2, <2>3
  <2> QED
    BY <2>1, <2>4 DEF i
<1>4. \A k \in 0 .. LweN - 1: secret[k] \in Int
  <2>1. \A x \in Ternaries: x \in Int
    BY <1>2 DEF Ternaries, Ternary
  <2> QED
    BY <1>1, <2>1
<1>5. error[c] \in 0 .. Q - 1
  <2>1. PICK draw \in Draws(m): error = [i \in 0 .. m - 1 |-> GaussSample(draw[i])]
    BY <1>1 DEF MatrixGaussian
  <2>2. error[c] = GaussSample(draw[c])
    BY <2>1
  <2>3. m \in 0 .. geometry.buckets
    BY <1>1
  <2>4. draw[c].x \in 0 .. Q - 1
    BY <1>1, <2>3, InputAssumption DEF InputAssumption
  <2> DEFINE x == draw[c].x
  <2> HIDE DEF x
  <2>5. Sub(0, x) \in 0 .. Q - 1
    <3>1. 0 - x \in Int
      BY <1>2, <2>4 DEF x
    <3> QED
      BY <3>1, AlikeRemainder DEF Sub
  <2> QED
    BY <2>2, <2>4, <2>5 DEF GaussSample, x
<1>6. Masked(c) \in Int
  <2> DEFINE f == [k \in 0 .. LweN - 1 |-> LweMatrix(seed)[c][k] * secret[k]]
  <2>1. \A k \in 0 .. LweN - 1: f[k] \in Int
    <3> SUFFICES ASSUME NEW k \in 0 .. LweN - 1 PROVE f[k] \in Int
      OBVIOUS
    <3>1. LweMatrix(seed)[c][k] \in Int /\ secret[k] \in Int
      BY <1>3, <1>4
    <3> DEFINE a == LweMatrix(seed)[c][k]
               y == secret[k]
    <3>2. f[k] = a * y /\ a \in Int /\ y \in Int
      BY <3>1
    <3> HIDE DEF f, a, y
    <3> QED
      BY <3>2
  <2> HIDE DEF f
  <2>2. Sum(LweN, f) \in Int
    BY <1>2, <2>1, SumType
  <2> QED
    BY <2>2 DEF Masked, f
<1> QED
  BY <1>3, <1>4, <1>5, <1>6

\* A query marks the column asked for, under a mask and an error.
Mark(c) == IF c = asked THEN Delta ELSE 0

\* An element of the query is the mask, the error and the mark.
LEMMA QueryElement ==
  ASSUME Inv, phase \in WithQuery, NEW c \in 0 .. params.m - 1
  PROVE  /\ query[c] \in 0 .. Q - 1 /\ Mark(c) \in Int
         /\ Alike(query[c], Masked(c) + error[c] + Mark(c))
<1> DEFINE m == params.m
           product == MatrixMulVec(LweMatrix(seed), m, LweN, secret)
           samples == MatrixAdd(product, error)
           marked == [samples EXCEPT ![asked % m] = Add(@, Delta)]
<1>1. /\ m \in Nat \ {0} /\ asked \in 0 .. m - 1 /\ query = QueryOf(asked, secret, error)
      /\ params.p \in Nat \ {0}
  <2>1. m \in Nat \ {0} /\ params.p \in Nat \ {0}
    BY Fits DEF WithQuery, Moduluses
  <2> QED
    BY <2>1 DEF Inv, Asked
<1>2. Q \in Nat \ {0} /\ LweN \in Nat \ {0}
  BY Sizes
<1>3. asked % m = asked
  <2> HIDE DEF m
  <2> QED
    BY <1>1, Small
<1>4. Delta \in Nat
  <2> DEFINE p == params.p
  <2>1. p \in Nat \ {0} /\ Delta = Q \div p
    BY <1>1 DEF Delta
  <2> HIDE DEF p
  <2> QED
    BY <1>2, <2>1, Divided
<1>5. Masked(c) \in Int /\ error[c] \in Int
  BY <1>2, QueryParts
<1>6. product[c] = Masked(c) % Q
  BY DEF MatrixMulVec, Masked
<1>7. DOMAIN samples = 0 .. m - 1 /\ samples[c] = (product[c] + error[c]) % Q
  BY DEF MatrixAdd, MatrixMulVec, Add
<1>8. marked[c] = IF c = asked THEN (samples[c] + Delta) % Q ELSE samples[c]
  <2> HIDE DEF samples
  <2> QED
    BY <1>3, <1>7 DEF Add
<1>9. query[c] = marked[c]
  <2>1. query = AppendZeros(marked, m, Padding)
    BY <1>1 DEF QueryOf
  <2>2. c < m /\ c \in 0 .. m + Padding - 1
    BY <1>1 DEF Padding, Squishing
  <2> HIDE DEF marked
  <2> QED
    BY <2>1, <2>2 DEF AppendZeros
<1> HIDE DEF product, samples, marked
<1>10. product[c] \in Int /\ Alike(product[c], Masked(c))
  BY <1>2, <1>5, <1>6, AlikeRemainder
<1>11. /\ samples[c] \in 0 .. Q - 1
       /\ Alike(samples[c], Masked(c) + error[c])
  <2>1. product[c] + error[c] \in Int /\ Masked(c) + error[c] \in Int
    BY <1>5, <1>10
  <2>2. samples[c] \in 0 .. Q - 1 /\ Alike(samples[c], product[c] + error[c])
    BY <1>7, <2>1, AlikeRemainder
  <2>3. Alike(product[c] + error[c], Masked(c) + error[c])
    BY <1>5, <1>10, AlikeItself, AlikeAdds
  <2>4. samples[c] \in Int
    BY <1>2, <2>2
  <2> QED
    BY <2>1, <2>2, <2>3, <2>4, AlikeThrough
<1>12. CASE c = asked
  <2>1. samples[c] \in Int /\ samples[c] + Delta \in Int /\ Masked(c) + error[c] \in Int
        /\ Masked(c) + error[c] + Delta \in Int
    BY <1>2, <1>4, <1>5, <1>11
  <2>2. query[c] = (samples[c] + Delta) % Q
    BY <1>8, <1>9, <1>12
  <2>3. query[c] \in 0 .. Q - 1 /\ Alike(query[c], samples[c] + Delta)
    BY <2>1, <2>2, AlikeRemainder
  <2>4. Alike(samples[c] + Delta, Masked(c) + error[c] + Delta)
    <3> DEFINE x == samples[c]
               y == Masked(c) + error[c]
    <3>1. x \in Int /\ y \in Int /\ Delta \in Int /\ Alike(x, y)
      BY <1>4, <1>11, <2>1
    <3> HIDE DEF x, y
    <3>2. Alike(Delta, Delta)
      BY <3>1, AlikeItself
    <3>3. Alike(x + Delta, y + Delta)
      BY <3>1, <3>2, AlikeAdds
    <3> QED
      BY <3>3 DEF x, y
  <2>5. query[c] \in Int
    BY <1>2, <2>3
  <2>6. Alike(query[c], Masked(c) + error[c] + Delta)
    BY <2>1, <2>3, <2>4, <2>5, AlikeThrough
  <2> QED
    BY <1>4, <1>12, <2>3, <2>6 DEF Mark
<1>13. CASE c # asked
  <2>1. query[c] = samples[c]
    BY <1>8, <1>9, <1>13
  <2>2. Mark(c) = 0 /\ Masked(c) + error[c] + 0 = Masked(c) + error[c]
    BY <1>5, <1>13 DEF Mark
  <2> QED
    BY <1>11, <2>1, <2>2
<1> QED
  BY <1>12, <1>13

\* What is appended is zero.
LEMMA ZerosAppended ==
  ASSUME NEW v, NEW m \in Nat, NEW n \in Nat, NEW c \in m .. m + n - 1
  PROVE  AppendZeros(v, m, n)[c] = 0
BY DEF AppendZeros

\* Behind the last column the query is zero.
LEMMA QueryPadding ==
  ASSUME Inv, phase \in WithQuery, NEW c \in params.m .. QuerySize - 1
  PROVE  query[c] = 0
<1>1. params.m \in Nat \ {0} /\ query = QueryOf(asked, secret, error)
  BY Fits DEF WithQuery, Inv, Asked
<1>2. PICK v: query = AppendZeros(v, params.m, Padding)
  BY <1>1 DEF QueryOf
<1>3. Padding \in Nat /\ c \in params.m .. params.m + Padding - 1
  BY <1>1 DEF QuerySize, Padding, Squishing
<1> QED
  BY <1>1, <1>2, <1>3, ZerosAppended

\* The answer of a row is the product of its entries and the query.
LEMMA AnswerRow ==
  ASSUME Inv, phase \in WithAnswer, Ne = 1, NEW r \in 0 .. params.l - 1
  PROVE  /\ answer[r] \in 0 .. Q - 1
         /\ Sum(params.m, [c \in 0 .. params.m - 1 |-> Raw(r, c) * query[c]]) \in Int
         /\ Alike(answer[r], Sum(params.m, [c \in 0 .. params.m - 1 |-> Raw(r, c) * query[c]]))
<1> DEFINE m == params.m
           n == SquishedCols * Squishing
           f == [c \in 0 .. n - 1 |-> Unpacked[r][c] * query[c]]
           g == [c \in 0 .. m - 1 |-> Raw(r, c) * query[c]]
<1>1. m \in Nat \ {0} /\ n = QuerySize /\ n \in Nat /\ m <= n
  <2>1. m \in Nat \ {0}
    BY Fits DEF WithAnswer
  <2> QED
    BY <2>1, PaddedRight
<1>2. phase \in WithHint /\ phase \in WithQuery
  BY DEF WithAnswer, WithQuery, WithHint
<1>3. \A c \in 0 .. m - 1: f[c] = g[c] /\ f[c] \in Int
  <2> SUFFICES ASSUME NEW c \in 0 .. m - 1 PROVE f[c] = g[c] /\ f[c] \in Int
    OBVIOUS
  <2>1. c \in 0 .. n - 1 /\ c < m /\ c \in 0 .. QuerySize - 1
    BY <1>1
  <2>2. Unpacked[r][c] = Raw(r, c)
    BY <1>2, <2>1, UnpackedRow
  <2>3. Raw(r, c) \in Int
    <3>1. Raw(r, c) \in 0 .. params.p - 1
      BY <1>2, DatabaseRow
    <3> QED
      BY <3>1
  <2>4. query[c] \in Int
    BY <1>2, Sizes, QueryElement
  <2>5. Raw(r, c) * query[c] \in Int
    <3> DEFINE x == Raw(r, c)
               y == query[c]
    <3>1. x \in Int /\ y \in Int
      BY <2>3, <2>4
    <3> HIDE DEF x, y
    <3>2. x * y \in Int
      BY <3>1
    <3> QED
      BY <3>2 DEF x, y
  <2> QED
    BY <2>1, <2>2, <2>5
<1>4. \A c \in m .. n - 1: f[c] = 0
  <2> SUFFICES ASSUME NEW c \in m .. n - 1 PROVE f[c] = 0
    OBVIOUS
  <2>1. c \in 0 .. n - 1 /\ ~(c < m) /\ c \in 0 .. QuerySize - 1 /\ c \in m .. QuerySize - 1
    BY <1>1
  <2>2. Unpacked[r][c] = 0 /\ query[c] = 0
    BY <1>2, <2>1, UnpackedRow, QueryPadding
  <2> QED
    BY <2>1, <2>2
<1>5. \A c \in 0 .. n - 1: f[c] \in Int
  <2> HIDE DEF f, n, m
  <2> QED
    BY <1>1, <1>3, <1>4
<1>6. answer[r] = Sum(n, f) % Q
  <2>1. answer = MatrixMulVecPacked(query)
    BY DEF Inv, Answered
  <2> QED
    BY <2>1 DEF MatrixMulVecPacked, MatrixMulVec
<1> HIDE DEF f, g, n
<1>7. Sum(n, f) = Sum(m, f)
  BY <1>1, <1>4, <1>5, SumPadded
<1>8. Sum(m, f) = Sum(m, g)
  BY <1>1, <1>3, SumSame
<1>9. Sum(m, f) \in Int
  BY <1>1, <1>3, SumType
<1>10. answer[r] = Sum(m, g) % Q /\ Sum(m, g) \in Int
  BY <1>6, <1>7, <1>8, <1>9
<1>11. answer[r] \in 0 .. Q - 1 /\ Alike(answer[r], Sum(m, g))
  BY <1>10, AlikeRemainder
<1> QED
  BY <1>10, <1>11 DEF g

\* The hint of a row is the product of its elements and the LWE matrix.
LEMMA HintRow ==
  ASSUME Inv, phase \in WithQuery, Ne = 1, NEW r \in 0 .. params.l - 1, NEW k \in 0 .. LweN - 1
  PROVE  /\ hint[r][k] \in 0 .. Q - 1 /\ offline[r][k] \in 0 .. Q - 1
         /\ Sum(params.m, [c \in 0 .. params.m - 1 |-> Centred[r][c] * LweMatrix(seed)[c][k]]) \in Int
         /\ Alike(hint[r][k],
                  Sum(params.m,
                      [c \in 0 .. params.m - 1 |-> Centred[r][c] * LweMatrix(seed)[c][k]]))
<1> DEFINE m == params.m
           f == [c \in 0 .. m - 1 |-> Centred[r][c] * LweMatrix(seed)[c][k]]
<1>1. m \in Nat \ {0} /\ phase \in WithHint /\ Q \in Nat \ {0}
  BY Fits, Sizes DEF WithQuery, WithHint
<1>2. \A c \in 0 .. m - 1: f[c] \in Int
  <2> SUFFICES ASSUME NEW c \in 0 .. m - 1 PROVE f[c] \in Int
    OBVIOUS
  <2> DEFINE x == Centred[r][c]
             y == LweMatrix(seed)[c][k]
  <2>1. x \in 0 .. Q - 1
    BY <1>1, DatabaseRow
  <2>2. y \in 0 .. Q - 1
    BY QueryParts
  <2>3. f[c] = x * y
    OBVIOUS
  <2> HIDE DEF x, y, f
  <2>4. x * y \in Int
    BY <1>1, <2>1, <2>2
  <2> QED
    BY <2>3, <2>4
<1>3. hint[r][k] = Sum(m, f) % Q
  <2>1. hint = HintOf(seed)
    BY DEF Inv, Built, WithQuery, WithHint
  <2> QED
    BY <2>1 DEF HintOf, MatrixMul
<1> HIDE DEF f
<1>4. Sum(m, f) \in Int
  BY <1>1, <1>2, SumType
<1>5. hint[r][k] \in 0 .. Q - 1 /\ Alike(hint[r][k], Sum(m, f))
  BY <1>3, <1>4, AlikeRemainder
<1>6. offline[r][k] \in 0 .. Q - 1
  <2>1. offline \in SwitchedMatrix(hint, params.l, LweN)
    BY DEF Inv, Sent, WithQuery, WithOffline
  <2>2. PICK up: offline = [i \in 0 .. params.l - 1 |->
                              [j \in 0 .. LweN - 1 |-> RoundedTo(hint[i][j], <<i, j>> \in up)]]
    BY <2>1 DEF SwitchedMatrix
  <2>3. offline[r][k] = RoundedTo(hint[r][k], <<r, k>> \in up)
    BY <2>2
  <2>4. hint[r][k] \in Int
    BY <1>1, <1>5
  <2> QED
    BY <2>3, <2>4, RoundedWord
<1> QED
  BY <1>4, <1>5, <1>6 DEF f

-----------------------------------------------------------------------------
\* What the client takes off the answer, and what is left.

\* A word read with a sign is congruent to it.
LEMMA SignedAlike == ASSUME NEW x \in Int PROVE Signed(x) \in Int /\ Alike(Signed(x), x)
<1> DEFINE y == x % Q
<1>1. Q \in Nat \ {0} /\ y \in Int /\ Alike(y, x)
  <2>1. y \in 0 .. Q - 1 /\ Alike(y, x)
    BY AlikeRemainder
  <2> HIDE DEF y
  <2> QED
    BY <2>1, Sizes
<1>2. Signed(x) = y \/ Signed(x) = y - Q
  BY DEF Signed
<1> HIDE DEF y
<1>3. PICK t \in Int: y = x + t * Q
  BY <1>1 DEF Alike
<1>4. y - Q = x + (t - 1) * Q
  BY <1>1, <1>3
<1>5. Alike(y - Q, x)
  <2>1. t - 1 \in Int
    OBVIOUS
  <2> QED
    BY <1>4, <2>1 DEF Alike
<1> QED
  BY <1>1, <1>2, <1>5

\* One element times one of the query: mask, error and mark apart.
LEMMA ElementAlike ==
  ASSUME NEW x \in Int, NEW h \in Int, NEW y \in Int, NEW d \in Int, NEW u \in Int, NEW e \in Int,
         NEW w \in Int, NEW sd \in Int, NEW se \in Int,
         Alike(d, x - h), Alike(y, u + e + w), Alike(sd, d), Alike(se, e)
  PROVE  Alike(x * y + (-h) * y, d * u + (sd * se + (x - h) * w))
<1> DEFINE g == x - h
           v == u + e + w
<1>1. g \in Int /\ v \in Int /\ Alike(d, g) /\ Alike(g, d) /\ Alike(y, v)
  BY AlikeBack
<1>2. x * y + (-h) * y = g * y
  OBVIOUS
<1>3. d * v = d * u + (d * e + d * w)
  OBVIOUS
<1> HIDE DEF g, v
<1>4. Alike(g * y, d * v)
  BY <1>1, AlikeTimes
<1>5. Alike(d * e, sd * se)
  <2>1. Alike(d, sd) /\ Alike(e, se)
    BY AlikeBack
  <2> QED
    BY <2>1, AlikeTimes
<1>6. Alike(d * w, g * w)
  BY <1>1, AlikeItself, AlikeTimes
<1> DEFINE a1 == d * e
           a2 == sd * se
           b1 == d * w
           b2 == g * w
           c1 == d * u
<1>7. a1 \in Int /\ a2 \in Int /\ b1 \in Int /\ b2 \in Int /\ c1 \in Int /\ g * y \in Int
      /\ d * v \in Int
  BY <1>1
<1>8. Alike(a1, a2) /\ Alike(b1, b2)
  BY <1>5, <1>6
<1> HIDE DEF a1, a2, b1, b2, c1
<1>9. Alike(a1 + b1, a2 + b2) /\ a1 + b1 \in Int /\ a2 + b2 \in Int
  BY <1>7, <1>8, AlikeAdds
<1>10. Alike(c1 + (a1 + b1), c1 + (a2 + b2))
  <2> DEFINE p == a1 + b1
             q == a2 + b2
  <2>1. p \in Int /\ q \in Int /\ Alike(p, q) /\ Alike(c1, c1)
    BY <1>7, <1>9, AlikeItself
  <2> HIDE DEF p, q
  <2>2. Alike(c1 + p, c1 + q)
    BY <1>7, <2>1, AlikeAdds
  <2> QED
    BY <2>2 DEF p, q
<1>11. Alike(g * y, c1 + (a2 + b2))
  <2> DEFINE p == g * y
             q == d * v
             z == c1 + (a2 + b2)
  <2>1. p \in Int /\ q \in Int /\ z \in Int /\ Alike(p, q) /\ Alike(q, z)
    BY <1>3, <1>4, <1>7, <1>9, <1>10 DEF c1, a1, b1
  <2> HIDE DEF p, q, z
  <2>2. Alike(p, z)
    BY <2>1, AlikeThrough
  <2> QED
    BY <2>2 DEF p, z
<1> QED
  BY <1>2, <1>11 DEF g, a2, b2, c1

Product(r) == Sum(params.m, [c \in 0 .. params.m - 1 |-> Raw(r, c) * query[c]])
HintProduct(r) == Sum(LweN, [k \in 0 .. LweN - 1 |-> hint[r][k] * secret[k]])
OfflineProduct(r) == Sum(LweN, [k \in 0 .. LweN - 1 |-> offline[r][k] * secret[k]])
Errors(r) == Sum(params.m, [c \in 0 .. params.m - 1 |-> Signed(Centred[r][c]) * Signed(error[c])])
RoundingsOf(r) ==
  Sum(LweN, [k \in 0 .. LweN - 1 |-> Signed(offline[r][k] - hint[r][k]) * Signed(secret[k])])
Marked(r) == (Raw(r, asked) - params.p \div 2) * Delta

\* Products of integers are integers.
LEMMA Multiplied == ASSUME NEW x \in Int, NEW y \in Int PROVE x * y \in Int
OBVIOUS

\* The masks of a row add up to the product of its hint and the secret.
LEMMA MasksAlike ==
  ASSUME Inv, phase \in WithQuery, Ne = 1, NEW r \in 0 .. params.l - 1
  PROVE  /\ HintProduct(r) \in Int
         /\ \A c \in 0 .. params.m - 1: Centred[r][c] * Masked(c) \in Int
         /\ Sum(params.m, [c \in 0 .. params.m - 1 |-> Centred[r][c] * Masked(c)]) \in Int
         /\ Alike(Sum(params.m, [c \in 0 .. params.m - 1 |-> Centred[r][c] * Masked(c)]),
                  HintProduct(r))
<1> DEFINE m == params.m
           d == Centred[r]
           a == LweMatrix(seed)
           col(k) == [c \in 0 .. m - 1 |-> d[c] * a[c][k]]
           left == [c \in 0 .. m - 1 |-> d[c] * Masked(c)]
           right == [k \in 0 .. LweN - 1 |-> Sum(m, col(k)) * secret[k]]
           prod == [k \in 0 .. LweN - 1 |-> hint[r][k] * secret[k]]
<1>1. m \in Nat \ {0} /\ LweN \in Nat \ {0} /\ Q \in Nat \ {0} /\ phase \in WithHint
  BY Fits, Sizes DEF WithQuery, WithHint
<1>2. \A c \in 0 .. m - 1: d[c] \in Int /\ Masked(c) \in Int
  <2> SUFFICES ASSUME NEW c \in 0 .. m - 1 PROVE d[c] \in Int /\ Masked(c) \in Int
    OBVIOUS
  <2>1. d[c] \in 0 .. Q - 1
    BY <1>1, DatabaseRow
  <2>2. Masked(c) \in Int
    BY QueryParts
  <2> QED
    BY <1>1, <2>1, <2>2
<1>3. \A c \in 0 .. m - 1: \A k \in 0 .. LweN - 1: a[c][k] \in Int
  <2> SUFFICES ASSUME NEW c \in 0 .. m - 1, NEW k \in 0 .. LweN - 1 PROVE a[c][k] \in Int
    OBVIOUS
  <2>1. a[c][k] \in 0 .. Q - 1
    BY QueryParts
  <2> QED
    BY <1>1, <2>1
<1>4. \A k \in 0 .. LweN - 1: secret[k] \in Int
  <2>1. 0 \in 0 .. m - 1
    BY <1>1
  <2> QED
    BY <2>1, QueryParts
<1>5. \A k \in 0 .. LweN - 1: /\ hint[r][k] \in Int /\ Sum(m, col(k)) \in Int
                              /\ Alike(hint[r][k], Sum(m, col(k)))
  <2> SUFFICES ASSUME NEW k \in 0 .. LweN - 1
               PROVE  /\ hint[r][k] \in Int /\ Sum(m, col(k)) \in Int
                      /\ Alike(hint[r][k], Sum(m, col(k)))
    OBVIOUS
  <2>1. hint[r][k] \in 0 .. Q - 1
    BY HintRow
  <2>2. Sum(m, col(k)) \in Int /\ Alike(hint[r][k], Sum(m, col(k)))
    BY HintRow
  <2> QED
    BY <1>1, <2>1, <2>2
<1>6. Sum(m, left) = Sum(LweN, right)
  <2>1. Sum(m, left) = ByRows(m, LweN, d, a, secret)
    BY DEF ByRows, Masked
  <2>2. Sum(LweN, right) = ByColumns(m, LweN, d, a, secret)
    BY DEF ByColumns
  <2> HIDE DEF d, a, m, left, right
  <2>3. ByRows(m, LweN, d, a, secret) = ByColumns(m, LweN, d, a, secret)
    BY <1>1, <1>2, <1>3, <1>4, SumExchange
  <2> QED
    BY <2>1, <2>2, <2>3
<1>7. \A k \in 0 .. LweN - 1: right[k] \in Int /\ prod[k] \in Int /\ Alike(right[k], prod[k])
  <2> SUFFICES ASSUME NEW k \in 0 .. LweN - 1
               PROVE  right[k] \in Int /\ prod[k] \in Int /\ Alike(right[k], prod[k])
    OBVIOUS
  <2> DEFINE x == Sum(m, col(k))
             y == hint[r][k]
             z == secret[k]
  <2>1. right[k] = x * z /\ prod[k] = y * z
    OBVIOUS
  <2>2. x \in Int /\ y \in Int /\ z \in Int /\ Alike(y, x)
    BY <1>4, <1>5
  <2> HIDE DEF x, y, z, right, prod
  <2>3. Alike(x * z, y * z)
    BY <2>2, AlikeBack, AlikeItself, AlikeTimes
  <2> QED
    BY <2>1, <2>2, <2>3, Multiplied
<1>8. \A c \in 0 .. m - 1: left[c] \in Int /\ d[c] * Masked(c) \in Int
  <2> SUFFICES ASSUME NEW c \in 0 .. m - 1 PROVE left[c] \in Int /\ d[c] * Masked(c) \in Int
    OBVIOUS
  <2>1. left[c] = d[c] * Masked(c)
    OBVIOUS
  <2> HIDE DEF left, d
  <2>2. d[c] * Masked(c) \in Int
    BY <1>2, Multiplied
  <2> QED
    BY <2>1, <2>2
<1> HIDE DEF left, right, prod
<1>9. Sum(m, left) \in Int
  BY <1>1, <1>8, SumType
<1>10. Sum(LweN, right) \in Int /\ Sum(LweN, prod) \in Int /\ Alike(Sum(LweN, right), Sum(LweN, prod))
  BY <1>1, <1>7, AlikeSums
<1> QED
  BY <1>6, <1>8, <1>9, <1>10 DEF left, prod, HintProduct

\* What the query adds to a row, but for the offset.
LEMMA ProductAlike ==
  ASSUME Inv, phase \in WithQuery, Ne = 1, NEW r \in 0 .. params.l - 1
  PROVE  /\ Product(r) \in Int /\ HintProduct(r) \in Int /\ Errors(r) \in Int /\ Marked(r) \in Int
         /\ Sum(params.m, query) \in Int
         /\ Alike(Product(r) + (-(params.p \div 2)) * Sum(params.m, query),
                  HintProduct(r) + (Errors(r) + Marked(r)))
<1> DEFINE m == params.m
           h == params.p \div 2
           d == Centred[r]
           f == [c \in 0 .. m - 1 |-> Raw(r, c) * query[c]]
           g == [c \in 0 .. m - 1 |-> (-h) * query[c]]
           masks == [c \in 0 .. m - 1 |-> d[c] * Masked(c)]
           errs == [c \in 0 .. m - 1 |-> Signed(d[c]) * Signed(error[c])]
           marks == [c \in 0 .. m - 1 |-> (Raw(r, c) - h) * Mark(c)]
           rest == [c \in 0 .. m - 1 |-> errs[c] + marks[c]]
           lhs == [c \in 0 .. m - 1 |-> f[c] + g[c]]
           rhs == [c \in 0 .. m - 1 |-> masks[c] + rest[c]]
<1>1. m \in Nat \ {0} /\ Q \in Nat \ {0} /\ phase \in WithHint /\ h \in Int /\ -h \in Int
  <2>1. params.p \in Nat
    BY Fits DEF WithQuery, Moduluses
  <2>2. m \in Nat \ {0} /\ Q \in Nat \ {0} /\ phase \in WithHint
    BY Fits, Sizes DEF WithQuery, WithHint
  <2> QED
    BY <2>1, <2>2
<1>2. asked \in 0 .. m - 1
  BY DEF Inv, Asked
<1>3. ASSUME NEW c \in 0 .. m - 1
      PROVE  /\ Raw(r, c) \in Int /\ query[c] \in Int /\ d[c] \in Int /\ Masked(c) \in Int
             /\ error[c] \in Int /\ Mark(c) \in Int
             /\ Signed(d[c]) \in Int /\ Signed(error[c]) \in Int
             /\ Alike(d[c], Raw(r, c) - h) /\ Alike(query[c], Masked(c) + error[c] + Mark(c))
             /\ Alike(Signed(d[c]), d[c]) /\ Alike(Signed(error[c]), error[c])
  <2>1. Raw(r, c) \in 0 .. params.p - 1 /\ d[c] \in 0 .. Q - 1 /\ Alike(d[c], Raw(r, c) - h)
    BY <1>1, <1>3, DatabaseRow
  <2>2. error[c] \in 0 .. Q - 1 /\ Masked(c) \in Int
    BY <1>3, QueryParts
  <2>3. query[c] \in 0 .. Q - 1 /\ Mark(c) \in Int
        /\ Alike(query[c], Masked(c) + error[c] + Mark(c))
    BY <1>3, QueryElement
  <2>4. Raw(r, c) \in Int /\ d[c] \in Int /\ error[c] \in Int /\ query[c] \in Int
    BY <2>1, <2>2, <2>3
  <2> HIDE DEF d, h
  <2> QED
    BY <2>1, <2>2, <2>3, <2>4, SignedAlike
<1>4. ASSUME NEW c \in 0 .. m - 1
      PROVE  /\ f[c] \in Int /\ g[c] \in Int /\ masks[c] \in Int /\ errs[c] \in Int /\ marks[c] \in Int
             /\ Alike(f[c] + g[c], masks[c] + (errs[c] + marks[c]))
  <2> DEFINE x == Raw(r, c)
             y == query[c]
             dc == d[c]
             u == Masked(c)
             e == error[c]
             w == Mark(c)
             sd == Signed(d[c])
             se == Signed(error[c])
  <2>1. /\ x \in Int /\ y \in Int /\ dc \in Int /\ u \in Int /\ e \in Int /\ w \in Int
        /\ sd \in Int /\ se \in Int
        /\ Alike(dc, x - h) /\ Alike(y, u + e + w) /\ Alike(sd, dc) /\ Alike(se, e)
    BY <1>3, <1>4
  <2>2. f[c] = x * y /\ g[c] = (-h) * y /\ masks[c] = dc * u /\ errs[c] = sd * se
        /\ marks[c] = (x - h) * w
    BY <1>4
  <2> HIDE DEF x, y, dc, u, e, w, sd, se, f, g, masks, errs, marks, h
  <2>3. Alike(x * y + (-h) * y, dc * u + (sd * se + (x - h) * w))
    BY <1>1, <2>1, ElementAlike
  <2>4. x * y \in Int /\ (-h) * y \in Int /\ dc * u \in Int /\ sd * se \in Int /\ (x - h) * w \in Int
    BY <1>1, <2>1
  <2> QED
    BY <2>2, <2>3, <2>4
<1>5. Sum(m, query) \in Int /\ Sum(m, g) = (-h) * Sum(m, query)
  <2>1. \A c \in 0 .. m - 1: query[c] \in Int
    BY <1>3
  <2> HIDE DEF m, h
  <2> QED
    BY <1>1, <2>1, SumType, SumTimes
<1>6. Sum(m, marks) = Marked(r) /\ Marked(r) \in Int
  <2>1. \A c \in 0 .. m - 1: c # asked => marks[c] = 0
    <3> SUFFICES ASSUME NEW c \in 0 .. m - 1, c # asked PROVE marks[c] = 0
      OBVIOUS
    <3>1. marks[c] = (Raw(r, c) - h) * 0
      BY DEF Mark
    <3>2. Raw(r, c) - h \in Int
      BY <1>1, <1>3
    <3> HIDE DEF marks
    <3> QED
      BY <3>1, <3>2
  <2>2. marks[asked] = Marked(r)
    BY <1>2 DEF Marked, Mark
  <2>3. marks[asked] \in Int
    BY <1>2, <1>4
  <2> HIDE DEF marks, m
  <2>4. Sum(m, marks) = marks[asked]
    BY <1>1, <1>2, <2>1, <2>3, SumOnly
  <2> QED
    BY <2>2, <2>3, <2>4
<1>7. \A c \in 0 .. m - 1: /\ f[c] \in Int /\ g[c] \in Int /\ masks[c] \in Int /\ errs[c] \in Int
                           /\ marks[c] \in Int
                           /\ Alike(f[c] + g[c], masks[c] + (errs[c] + marks[c]))
  BY <1>4
<1> HIDE DEF f, g, masks, errs, marks, m
<1>8. Sum(m, lhs) = Sum(m, f) + Sum(m, g) /\ Sum(m, f) \in Int /\ Sum(m, g) \in Int
  BY <1>1, <1>7, SumAdds, SumType
<1>9. /\ Sum(m, rest) = Sum(m, errs) + Sum(m, marks)
      /\ Sum(m, errs) \in Int /\ Sum(m, marks) \in Int
  BY <1>1, <1>7, SumAdds, SumType
<1>10. \A c \in 0 .. m - 1: rest[c] \in Int /\ rest[c] = errs[c] + marks[c] /\ lhs[c] = f[c] + g[c]
                            /\ lhs[c] \in Int /\ rhs[c] = masks[c] + (errs[c] + marks[c])
                            /\ rhs[c] \in Int
  BY <1>7
<1>11. \A c \in 0 .. m - 1: Alike(lhs[c], rhs[c])
  BY <1>7, <1>10
<1>12. Sum(m, rhs) = Sum(m, masks) + Sum(m, rest) /\ Sum(m, masks) \in Int
  <2> HIDE DEF rest
  <2> QED
    BY <1>1, <1>7, <1>10, SumAdds, SumType
<1> HIDE DEF lhs, rhs, rest
<1>13. Alike(Sum(m, lhs), Sum(m, rhs))
  BY <1>1, <1>10, <1>11, AlikeSums
<1>14. Sum(m, f) = Product(r) /\ Sum(m, errs) = Errors(r)
  BY DEF f, errs, m, Product, Errors
<1>15. HintProduct(r) \in Int /\ Alike(Sum(m, masks), HintProduct(r))
  BY MasksAlike DEF masks, m
<1>16. Alike(Product(r) + Sum(m, g), HintProduct(r) + (Errors(r) + Marked(r)))
  <2> DEFINE p == Product(r) + Sum(m, g)
             s == Sum(m, masks)
             t == Errors(r) + Marked(r)
             k == HintProduct(r)
  <2>1. p \in Int /\ s \in Int /\ t \in Int /\ k \in Int /\ Alike(p, s + t) /\ Alike(s, k)
    BY <1>6, <1>8, <1>9, <1>12, <1>13, <1>14, <1>15
  <2> HIDE DEF p, s, t, k
  <2>2. Alike(s + t, k + t)
    BY <2>1, AlikeItself, AlikeAdds
  <2>3. Alike(p, k + t)
    <3> DEFINE st == s + t
               kt == k + t
    <3>1. st \in Int /\ kt \in Int /\ Alike(p, st) /\ Alike(st, kt)
      BY <2>1, <2>2
    <3> HIDE DEF st, kt
    <3>2. Alike(p, kt)
      BY <2>1, <3>1, AlikeThrough
    <3> QED
      BY <3>2 DEF kt
  <2> QED
    BY <2>3 DEF p, t, k
<1> QED
  BY <1>5, <1>6, <1>8, <1>9, <1>14, <1>15, <1>16 DEF m

\* What the client takes off is off by the rounding of the hint.
LEMMA OfflineAlike ==
  ASSUME Inv, phase \in WithQuery, Ne = 1, NEW r \in 0 .. params.l - 1
  PROVE  /\ OfflineProduct(r) \in Int /\ RoundingsOf(r) \in Int /\ HintProduct(r) \in Int
         /\ Alike(OfflineProduct(r), HintProduct(r) + RoundingsOf(r))
<1> DEFINE n == LweN
           f == [k \in 0 .. n - 1 |-> offline[r][k] * secret[k]]
           g == [k \in 0 .. n - 1 |-> hint[r][k] * secret[k]]
           e == [k \in 0 .. n - 1 |-> Signed(offline[r][k] - hint[r][k]) * Signed(secret[k])]
           s == [k \in 0 .. n - 1 |-> g[k] + e[k]]
<1>1. n \in Nat \ {0} /\ Q \in Nat \ {0} /\ params.m \in Nat \ {0}
  BY Fits, Sizes DEF WithQuery
<1>2. ASSUME NEW k \in 0 .. n - 1
      PROVE  /\ f[k] \in Int /\ g[k] \in Int /\ e[k] \in Int /\ Alike(f[k], g[k] + e[k])
  <2> DEFINE x == offline[r][k]
             y == hint[r][k]
             z == secret[k]
             d == x - y
             sd == Signed(d)
             sz == Signed(z)
  <2>1. x \in Int /\ y \in Int /\ z \in Int
    <3>1. x \in 0 .. Q - 1 /\ y \in 0 .. Q - 1
      BY <1>2, HintRow
    <3>2. 0 \in 0 .. params.m - 1
      BY <1>1
    <3>3. z \in Int
      BY <1>2, <3>2, QueryParts
    <3> QED
      BY <1>1, <3>1, <3>3
  <2>2. f[k] = x * z /\ g[k] = y * z /\ e[k] = sd * sz
    BY <1>2
  <2> HIDE DEF x, y, z, f, g, e
  <2>3. d \in Int /\ x * z = y * z + d * z
    BY <2>1
  <2> HIDE DEF d
  <2>4. sd \in Int /\ sz \in Int /\ Alike(sd, d) /\ Alike(sz, z)
    BY <2>1, <2>3, SignedAlike
  <2> HIDE DEF sd, sz
  <2>5. Alike(d * z, sd * sz)
    BY <2>1, <2>3, <2>4, AlikeBack, AlikeTimes
  <2>6. x * z \in Int /\ y * z \in Int /\ d * z \in Int /\ sd * sz \in Int
    BY <2>1, <2>3, <2>4, Multiplied
  <2> DEFINE a == y * z
             b == d * z
             c == sd * sz
  <2>7. a \in Int /\ b \in Int /\ c \in Int /\ Alike(b, c)
    BY <2>5, <2>6
  <2> HIDE DEF a, b, c
  <2>8. Alike(a + b, a + c)
    BY <2>7, AlikeItself, AlikeAdds
  <2> QED
    BY <2>2, <2>3, <2>6, <2>8 DEF a, b, c
<1>3. \A k \in 0 .. n - 1: /\ f[k] \in Int /\ g[k] \in Int /\ e[k] \in Int
                           /\ Alike(f[k], g[k] + e[k])
  BY <1>2
<1> HIDE DEF f, g, e, n
<1>4. \A k \in 0 .. n - 1: s[k] = g[k] + e[k] /\ s[k] \in Int
  BY <1>3
<1>5. Sum(n, s) = Sum(n, g) + Sum(n, e) /\ Sum(n, g) \in Int /\ Sum(n, e) \in Int
  BY <1>1, <1>3, SumAdds, SumType
<1> HIDE DEF s
<1>6. \A k \in 0 .. n - 1: Alike(f[k], s[k])
  BY <1>3, <1>4
<1>7. Sum(n, f) \in Int /\ Alike(Sum(n, f), Sum(n, s))
  BY <1>1, <1>3, <1>4, <1>6, AlikeSums
<1> QED
  BY <1>5, <1>7 DEF f, g, e, n, OfflineProduct, HintProduct, RoundingsOf

\* A row of the response is a word.
LEMMA ResponseRow ==
  ASSUME Inv, phase \in WithResponse, Ne = 1, NEW r \in 0 .. params.l - 1
  PROVE  answer[r] \in Int /\ r \in DOMAIN response /\ response[r] \in 0 .. Q - 1
<1>1. answer[r] \in 0 .. Q - 1
  BY AnswerRow DEF WithResponse, WithAnswer
<1>2. answer[r] \in Int
  BY <1>1, Sizes
<1>3. r \in DOMAIN answer
  <2>1. answer = MatrixMulVecPacked(query)
    BY DEF Inv, Answered, WithResponse, WithAnswer
  <2> QED
    BY <2>1 DEF MatrixMulVecPacked, MatrixMulVec
<1>4. response \in Switched(answer)
  BY DEF Inv, Responded
<1>5. PICK up: response = [i \in DOMAIN answer |-> RoundedTo(answer[i], i \in up)]
  BY <1>4 DEF Switched
<1>6. response[r] = RoundedTo(answer[r], r \in up)
  BY <1>3, <1>5
<1>7. r \in DOMAIN response
  BY <1>3, <1>5
<1> QED
  BY <1>2, <1>6, <1>7, RoundedWord

\* The number the client rounds: what was asked for, in units of Delta, and
\* the noise.
LEMMA NoisedRow ==
  ASSUME Inv, phase \in WithResponse, Ne = 1, NEW r \in 0 .. params.l - 1
  PROVE  /\ Noised(r) \in 1 .. 2 * Q - 1 /\ Noise(r) \in Int /\ Marked(r) \in Int
         /\ Alike(Noised(r), Marked(r) + Noise(r))
<1> DEFINE h == params.p \div 2
           total == Sum(params.m, query)
           minus == OfflineProduct(r)
           sg == Signed(response[r] - answer[r])
<1>1. phase \in WithQuery /\ phase \in WithAnswer
  BY DEF WithResponse, WithAnswer, WithQuery
<1>2. /\ Product(r) \in Int /\ HintProduct(r) \in Int /\ Errors(r) \in Int /\ Marked(r) \in Int
      /\ total \in Int
      /\ Alike(Product(r) + (-h) * total, HintProduct(r) + (Errors(r) + Marked(r)))
  BY <1>1, ProductAlike
<1>3. /\ minus \in Int /\ RoundingsOf(r) \in Int
      /\ Alike(minus, HintProduct(r) + RoundingsOf(r))
  BY <1>1, OfflineAlike
<1>4. Q \in Nat \ {0} /\ h \in Int
  <2>1. params.p \in Nat
    BY Fits DEF WithResponse, Moduluses
  <2> QED
    BY <2>1, Sizes
<1>5. answer[r] \in Int /\ response[r] \in Int /\ Alike(answer[r], Product(r))
  <2>1. Alike(answer[r], Product(r))
    BY <1>1, AnswerRow DEF Product
  <2>2. answer[r] \in Int /\ response[r] \in 0 .. Q - 1
    BY ResponseRow
  <2> QED
    BY <1>4, <2>1, <2>2
<1>6. sg \in Int /\ Alike(response[r], answer[r] + sg)
  <2> DEFINE d == response[r] - answer[r]
  <2>1. d \in Int /\ response[r] = answer[r] + d
    BY <1>5
  <2> HIDE DEF d
  <2>2. Signed(d) \in Int /\ Alike(d, Signed(d))
    BY <2>1, SignedAlike, AlikeBack
  <2>3. Alike(answer[r] + d, answer[r] + Signed(d))
    BY <1>5, <2>1, <2>2, AlikeItself, AlikeAdds
  <2> QED
    BY <2>1, <2>2, <2>3 DEF d
<1>7. Noise(r) = Errors(r) + sg - RoundingsOf(r)
  BY DEF Noise, Errors, RoundingsOf
<1> DEFINE un == (response[r] - (minus % Q)) % Q
           off == Q - ((h * total) % Q)
<1>8. Noised(r) = un + off
  <2> DEFINE prod == MatrixMulVec(offline, params.l, LweN, secret)
  <2>1. prod[r] = minus % Q
    BY DEF MatrixMulVec, OfflineProduct
  <2>2. r \in DOMAIN response
    BY ResponseRow
  <2> HIDE DEF prod, minus
  <2>3. Unmasked[r] = un
    BY <2>1, <2>2 DEF Unmasked, MatrixSub, Sub, prod
  <2>4. Offset = off
    BY DEF Offset
  <2> QED
    BY <2>3, <2>4 DEF Noised
<1>9. un \in 0 .. Q - 1 /\ off \in 1 .. Q /\ Alike(un, response[r] - minus)
      /\ Alike(off, (-h) * total)
  <2> DEFINE a == minus % Q
             b == (h * total) % Q
  <2>1. a \in 0 .. Q - 1 /\ Alike(a, minus)
    BY <1>3, AlikeRemainder
  <2>2. h * total \in Int
    BY <1>2, <1>4, Multiplied
  <2>3. b \in 0 .. Q - 1 /\ Alike(b, h * total)
    BY <2>2, AlikeRemainder
  <2> HIDE DEF a, b
  <2>4. a \in Int /\ b \in Int
    BY <1>4, <2>1, <2>3
  <2>5. un \in 0 .. Q - 1 /\ Alike(un, response[r] - a) /\ un \in Int
    <3>1. un = (response[r] - a) % Q
      BY DEF a
    <3>2. response[r] - a \in Int
      BY <1>5, <2>4
    <3> HIDE DEF un
    <3>3. un \in 0 .. Q - 1 /\ Alike(un, response[r] - a)
      BY <3>1, <3>2, AlikeRemainder
    <3> QED
      BY <1>4, <3>3
  <2> HIDE DEF un
  <2>6. Alike(response[r] - a, response[r] - minus)
    BY <1>3, <1>5, <2>1, <2>4, AlikeItself, AlikeAdds
  <2>7. Alike(un, response[r] - minus)
    <3> DEFINE y == response[r] - a
               z == response[r] - minus
    <3>1. un \in Int /\ y \in Int /\ z \in Int /\ Alike(un, y) /\ Alike(y, z)
      BY <1>3, <1>5, <2>4, <2>5, <2>6
    <3> HIDE DEF y, z
    <3>2. Alike(un, z)
      BY <3>1, AlikeThrough
    <3> QED
      BY <3>2 DEF z
  <2>8. off = Q - b /\ off \in 1 .. Q
    BY <1>4, <2>3 DEF b
  <2>9. PICK t \in Int: b = h * total + t * Q
    BY <2>3 DEF Alike
  <2>10. Q - b = (-h) * total + (1 - t) * Q
    <3> DEFINE x == h * total
    <3>1. (-h) * total = -x /\ x \in Int
      BY <1>2, <1>4
    <3> HIDE DEF x
    <3>2. Q - b = -x + (1 - t) * Q
      BY <1>4, <2>9, <3>1 DEF x
    <3> QED
      BY <3>1, <3>2
  <2>11. Alike(off, (-h) * total)
    <3>1. 1 - t \in Int
      OBVIOUS
    <3> QED
      BY <2>8, <2>10, <3>1 DEF Alike
  <2> QED
    BY <2>5, <2>7, <2>8, <2>11
<1>10. Noised(r) \in 1 .. 2 * Q - 1
  <2> HIDE DEF un, off
  <2> QED
    BY <1>4, <1>8, <1>9
<1>11. Alike(un + off, Marked(r) + (Errors(r) + sg - RoundingsOf(r)))
  <2> DEFINE resp == response[r]
             ans == answer[r]
             prod == Product(r)
             hp == HintProduct(r)
             errs == Errors(r)
             mark == Marked(r)
             rnd == RoundingsOf(r)
             v == (-h) * total
  <2>1. v \in Int
    <3>1. -h \in Int
      BY <1>4
    <3> QED
      BY <1>2, <3>1, Multiplied
  <2>2. /\ un \in Int /\ off \in Int /\ resp \in Int /\ ans \in Int /\ prod \in Int /\ hp \in Int
        /\ errs \in Int /\ mark \in Int /\ rnd \in Int /\ sg \in Int /\ minus \in Int
    BY <1>2, <1>3, <1>4, <1>5, <1>6, <1>9
  <2>3. /\ Alike(un, resp - minus) /\ Alike(off, v) /\ Alike(resp, ans + sg) /\ Alike(ans, prod)
        /\ Alike(prod + v, hp + (errs + mark)) /\ Alike(minus, hp + rnd)
    BY <1>2, <1>3, <1>5, <1>6, <1>9
  <2> HIDE DEF un, off, resp, ans, prod, hp, errs, mark, rnd, sg, minus, v
  <2>4. PICK t1 \in Int: un = (resp - minus) + t1 * Q
    BY <2>3 DEF Alike
  <2>5. PICK t2 \in Int: off = v + t2 * Q
    BY <2>3 DEF Alike
  <2>6. PICK t3 \in Int: resp = (ans + sg) + t3 * Q
    BY <2>3 DEF Alike
  <2>7. PICK t4 \in Int: ans = prod + t4 * Q
    BY <2>3 DEF Alike
  <2>8. PICK t5 \in Int: prod + v = (hp + (errs + mark)) + t5 * Q
    BY <2>3 DEF Alike
  <2>9. PICK t6 \in Int: minus = (hp + rnd) + t6 * Q
    BY <2>3 DEF Alike
  <2> DEFINE t == t1 + t2 + t3 + t4 + t5 - t6
  <2>10. t * Q = t1 * Q + t2 * Q + t3 * Q + t4 * Q + t5 * Q - t6 * Q
    BY <1>4
  <2>11. un + off = (mark + (errs + sg - rnd)) + t * Q
    <3> DEFINE w == t * Q
               w1 == t1 * Q
               w2 == t2 * Q
               w3 == t3 * Q
               w4 == t4 * Q
               w5 == t5 * Q
               w6 == t6 * Q
    <3>1. /\ w \in Int /\ w1 \in Int /\ w2 \in Int /\ w3 \in Int /\ w4 \in Int /\ w5 \in Int
          /\ w6 \in Int /\ w = w1 + w2 + w3 + w4 + w5 - w6
      BY <1>4, <2>10
    <3>2. /\ un = (resp - minus) + w1 /\ off = v + w2 /\ resp = (ans + sg) + w3 /\ ans = prod + w4
          /\ prod + v = (hp + (errs + mark)) + w5 /\ minus = (hp + rnd) + w6
      BY <2>4, <2>5, <2>6, <2>7, <2>8, <2>9
    <3> HIDE DEF t, w, w1, w2, w3, w4, w5, w6
    <3>3. un + off = (mark + (errs + sg - rnd)) + w
      BY <2>1, <2>2, <3>1, <3>2
    <3> QED
      BY <3>3 DEF w
  <2>12. t \in Int
    OBVIOUS
  <2> QED
    BY <2>11, <2>12 DEF Alike, mark, errs, rnd
<1>12. Noise(r) \in Int
  <2> HIDE DEF sg
  <2> QED
    BY <1>2, <1>3, <1>6, <1>7
<1> QED
  BY <1>2, <1>7, <1>8, <1>10, <1>11, <1>12

\* Rounding gets x back: q is p units, up to a remainder less than p, and the
\* number to be rounded is off by noise and by a few times q.
LEMMA Decoded ==
  ASSUME NEW p \in Nat \ {0, 1}, NEW q \in Nat \ {0}, p <= q, NEW x \in 0 .. p - 1,
         NEW noise \in Int, NEW y \in 1 .. 2 * q - 1, NEW t \in Int,
         y = (x - p \div 2) * (q \div p) + noise + t * q,
         -((q \div p) \div 2) <= noise,
         noise + 2 * (q % p) < (q \div p) - (q \div p) \div 2
  PROVE  ((((y + (q \div p) \div 2) \div (q \div p)) % p) + p \div 2) % p = x
<1> DEFINE h == p \div 2
           u == q \div p
           e == q % p
           half == u \div 2
<1>1. h \in Nat /\ h < p
  OBVIOUS
<1>2. u \in Nat \ {0} /\ e \in 0 .. p - 1 /\ q = p * u + e /\ p * u \in Nat
  <2>1. u \in Nat /\ e \in 0 .. p - 1 /\ q = p * u + e
    <3>1. p \in Nat \ {0} /\ q \in Int /\ q \in Nat
      OBVIOUS
    <3> QED
      BY <3>1, Divided
  <2> HIDE DEF u, e
  <2>2. u # 0
    <3> SUFFICES ASSUME u = 0 PROVE FALSE
      OBVIOUS
    <3>1. p * u = 0
      OBVIOUS
    <3> QED
      BY <2>1, <3>1
  <2> QED
    BY <2>1, <2>2
<1>3. half \in Nat /\ half <= u
  <2> HIDE DEF u
  <2> QED
    BY <1>2
<1>4. /\ y = (x - h) * u + noise + t * q /\ -half <= noise /\ noise + 2 * e < u - half
  OBVIOUS
<1> HIDE DEF h, u, e, half
<1> DEFINE a == (x - h) * u
           pu == p * u
<1>5. a \in Int /\ u - pu <= a /\ a <= pu - u
  <2> DEFINE d == x - h
             less == p - 1
  <2>1. d \in Int /\ -less <= d /\ d <= less /\ less \in Int
    BY <1>1
  <2>2. less * u = pu - u /\ (-less) * u = u - pu
    BY <1>2
  <2> HIDE DEF d, less, pu
  <2>3. d * u <= less * u /\ (-less) * u <= d * u /\ d * u \in Int
    BY <1>2, <2>1
  <2> QED
    BY <2>2, <2>3 DEF d
<1>6. y = a + noise + t * q /\ pu \in Nat /\ q = pu + e
  BY <1>2, <1>4
<1> HIDE DEF a, pu
<1>7. t \in {0, 1, 2}
  <2> DEFINE w == t * q
  <2>1. w \in Int /\ y = a + noise + w
    BY <1>6
  <2> HIDE DEF w
  <2>2. -q < w /\ w < 3 * q
    <3>1. noise < u /\ -half <= noise /\ half <= u /\ half \in Nat /\ e \in Nat /\ u \in Nat
      BY <1>2, <1>3, <1>4
    <3>2. a + noise < pu
      BY <1>5, <1>6, <3>1
    <3>3. -pu <= a + noise
      BY <1>5, <1>6, <3>1
    <3> DEFINE s == a + noise
    <3>4. s \in Int /\ s < pu /\ -pu <= s /\ y = s + w
      BY <1>5, <2>1, <3>2, <3>3
    <3> HIDE DEF s
    <3> QED
      BY <1>6, <2>1, <3>1, <3>4
  <2>3. t * q < 3 * q /\ (-1) * q < t * q
    BY <2>2 DEF w
  <2>4. t < 3
    <3> SUFFICES ASSUME t >= 3 PROVE FALSE
      OBVIOUS
    <3>1. 3 * q <= t * q
      OBVIOUS
    <3> QED
      BY <2>3, <3>1
  <2>5. -1 < t
    <3> SUFFICES ASSUME t <= -1 PROVE FALSE
      OBVIOUS
    <3>1. t * q <= (-1) * q
      OBVIOUS
    <3> QED
      BY <2>3, <3>1
  <2> QED
    BY <2>4, <2>5
<1> DEFINE rest == t * e + noise + half
           k == (x - h) + t * p
<1>8. rest \in 0 .. u - 1
  <2>1. e \in Nat /\ half \in Nat /\ u \in Nat /\ -half <= noise /\ noise + 2 * e < u - half
    BY <1>2, <1>3, <1>4
  <2>2. t * e = 0 \/ t * e = e \/ t * e = 2 * e
    BY <1>7, <2>1
  <2> QED
    BY <2>1, <2>2
<1>9. y + half = u * k + rest /\ k \in Int
  <2>1. t * q = t * pu + t * e
    <3>1. pu \in Int /\ e \in Int /\ q = pu + e
      BY <1>2, <1>6
    <3> QED
      BY <3>1
  <2>2. u * k = a + t * pu
    <3> DEFINE d == x - h
    <3>1. d \in Int
      BY <1>1
    <3> HIDE DEF d
    <3>2. u * (d + t * p) = d * u + t * (p * u)
      BY <1>2, <3>1
    <3> QED
      BY <3>2 DEF d, a, pu
  <2>3. t * pu \in Int /\ t * e \in Int /\ half \in Int /\ k \in Int
    BY <1>1, <1>2, <1>3, <1>6
  <2> HIDE DEF k
  <2> QED
    BY <1>5, <1>6, <2>1, <2>2, <2>3
<1>10. (y + half) \div u = k
  <2> HIDE DEF k, rest
  <2> QED
    BY <1>2, <1>8, <1>9, Quotient
<1>11. ((k % p) + h) % p = x
  <2>1. CASE x >= h
    <3> DEFINE d == x - h
    <3>1. d \in 0 .. p - 1 /\ d + h = x /\ d \in Int
      BY <1>1, <2>1
    <3>2. k = p * t + d
      BY <1>1
    <3> HIDE DEF d, k
    <3>3. k % p = d
      BY <3>1, <3>2, Quotient
    <3>4. x % p = x
      BY Small
    <3> QED
      BY <3>1, <3>3, <3>4
  <2>2. CASE x < h
    <3> DEFINE d == x - h + p
    <3> DEFINE one == 1
    <3>1. d \in 0 .. p - 1 /\ d + h = p * one + x /\ d \in Int /\ one \in Int
      BY <1>1, <2>2
    <3>2. k = p * (t - 1) + d
      BY <1>1
    <3> HIDE DEF d, k, one
    <3>3. t - 1 \in Int
      OBVIOUS
    <3>4. k % p = d
      BY <3>1, <3>2, <3>3, Quotient
    <3>5. (p * one + x) % p = x
      BY <3>1, Quotient
    <3> QED
      BY <3>1, <3>4, <3>5
  <2> QED
    BY <1>1, <2>1, <2>2
<1> QED
  BY <1>10, <1>11 DEF h, u, half

\* With several elements to an entry only one entry to a column leaves
\* RecoverColumn within its rows.
LEMMA SplitEntries ==
  ASSUME Inv, phase = "done", Ne # 1
  PROVE  Ne > 1 /\ geometry.perCol * geometry.size = 1
<1> DEFINE w == geometry.perCol * geometry.size
           n == Ne
           l == params.l
<1>1. n \in Nat \ {0, 1} /\ w \in Nat \ {0} /\ l = w * n /\ l \in Nat \ {0}
  BY Fits
<1>2. \A i \in Turns: (i + 1) * n <= l
  BY DEF Inv, Finished
<1> HIDE DEF w, n, l
<1>3. ASSUME w # 1 PROVE FALSE
  <2> DEFINE v == w - 1
             i == v * n
  <2>1. v \in Nat \ {0} /\ i \in Nat /\ l = i + n
    BY <1>1, <1>3
  <2>2. i \in 0 .. l - 1
    <3> HIDE DEF i
    <3> QED
      BY <1>1, <2>1
  <2>3. i % n = 0
    <3>1. n * v + 0 = i
      BY <1>1, <2>1
    <3> QED
      BY <1>1, <2>1, <3>1, Quotient
  <2>4. i \in Turns
    BY <2>2, <2>3 DEF Turns, n, l
  <2>5. (i + 1) * n <= l
    BY <1>2, <2>4
  <2>6. (i + 1) * n = i * n + n
    BY <1>1, <2>1
  <2> HIDE DEF i
  <2>7. i # 0
    <3> SUFFICES ASSUME i = 0 PROVE FALSE
      OBVIOUS
    <3>1. n <= v * n
      BY <1>1, <2>1
    <3> QED
      BY <1>1, <3>1 DEF i
  <2>8. i * 2 <= i * n /\ i * n \in Nat
    BY <1>1, <2>1
  <2> QED
    BY <1>1, <2>1, <2>5, <2>6, <2>7, <2>8
<1> QED
  BY <1>1, <1>3 DEF n, w

\* An entry of one element is the number that was rounded.
LEMMA EntryIsValue ==
  ASSUME Ne = 1, NEW r \in Nat, Value(r) \in Int
  PROVE  Entry(r) = Value(r) % Power(2, RowLength)
<1> DEFINE vals == [j \in 0 .. Ne - 1 |-> Value(r * Ne + j)]
           f == [j \in 0 .. Ne - 1 |-> vals[j] * Power(params.p, j)]
<1>1. r * Ne + 0 = r
  OBVIOUS
<1>2. 0 \in 0 .. Ne - 1
  OBVIOUS
<1>3. vals[0] = Value(r)
  BY <1>1, <1>2
<1> HIDE DEF vals
<1>4. f[0] = Value(r) * 1
  BY <1>2, <1>3, PowerNone
<1> HIDE DEF f
<1>5. f[0] = Value(r)
  BY <1>4
<1>6. Sum(1, f) = Value(r)
  BY <1>5, SumOne
<1>7. Entry(r) = Sum(1, f) % Power(2, RowLength)
  BY DEF Entry, Reconstruct_from_base_p, f, vals
<1> QED
  BY <1>6, <1>7

\* The whole way: a row of the column comes back where its noise is tolerable.
LEMMA Recovered ==
  ASSUME Inv, phase = "done", Ne = 1, NEW r \in 0 .. params.l - 1, Tolerable(r)
  PROVE  column[r] = dataset[asked * params.l + r + 1]
<1> DEFINE p == params.p
           x == Raw(r, asked)
           y == Noised(r)
<1>1. phase \in WithResponse /\ phase \in WithHint /\ phase \in WithQuery
  BY DEF WithResponse, WithHint, WithQuery
<1>2. asked \in 0 .. params.m - 1
  BY <1>1 DEF Inv, Asked
<1>3. x = dataset[asked * params.l + r + 1] /\ x \in 0 .. p - 1 /\ x \in 0 .. Power(2, RowLength) - 1
  BY <1>1, <1>2, DatabaseRow
<1>4. p \in Nat \ {0, 1} /\ p <= Q /\ Q \in Nat \ {0} /\ params.l \in Nat
  <2>1. p \in Moduluses /\ params.l \in Nat
    BY Fits
  <2>2. ~(p > Power(2, Basis))
    BY <1>1 DEF Inv, Built, SquishPanics
  <2>3. Power(2, Basis) \in Nat /\ Power(2, Basis) <= Q /\ Q \in Nat \ {0}
    BY WordHoldsThree, Sizes
  <2> HIDE DEF p
  <2> QED
    BY <2>1, <2>2, <2>3 DEF Moduluses
<1>5. y \in 1 .. 2 * Q - 1 /\ Noise(r) \in Int /\ Alike(y, Marked(r) + Noise(r))
  BY <1>1, NoisedRow
<1>6. Marked(r) = (x - p \div 2) * (Q \div p)
  BY DEF Marked, Delta
<1>7. /\ -((Q \div p) \div 2) <= Noise(r)
      /\ Noise(r) + 2 * (Q % p) < (Q \div p) - (Q \div p) \div 2
  BY DEF Tolerable, Delta
<1>8. Value(r) = ((((y + (Q \div p) \div 2) \div (Q \div p)) % p) + p \div 2) % p
  BY DEF Value, Round, Delta
<1> HIDE DEF p, x, y
<1>9. PICK t \in Int: y = (x - p \div 2) * (Q \div p) + Noise(r) + t * Q
  BY <1>5, <1>6 DEF Alike
<1>10. Value(r) = x
  BY <1>3, <1>4, <1>5, <1>7, <1>8, <1>9, Decoded
<1>11. r \in Turns /\ r \in Nat
  BY <1>4 DEF Turns
<1>12. column[r] = Entry(r)
  BY <1>11 DEF Inv, Finished
<1>13. Entry(r) = x % Power(2, RowLength)
  <2>1. Value(r) \in Int
    BY <1>3, <1>10
  <2> QED
    BY <1>10, <1>11, <2>1, EntryIsValue
<1>14. x % Power(2, RowLength) = x
  BY <1>3, Sizes, Small
<1> QED
  BY <1>3, <1>12, <1>13, <1>14 DEF x

\* Wherever the noise is tolerable, the column asked for is recovered: for
\* every width and table, every modulus, dataset, seed, secret and error.
THEOREM ColumnRecovered == Spec => []RecoversColumn
<1>1. Inv => RecoversColumn
  BY SplitEntries, Recovered DEF RecoversColumn
<1> QED
  BY Invariant, <1>1, PTL

-----------------------------------------------------------------------------
\* The bits of numbers.

\* Dividing twice.
LEMMA DividedTwice ==
  ASSUME NEW x \in Nat, NEW a \in Nat \ {0}, NEW b \in Nat \ {0}
  PROVE  (x \div a) \div b = x \div (a * b)
<1>1. PICK u \in Nat, r \in 0 .. a - 1: u = x \div a /\ x = a * u + r
  BY Divided
<1>2. PICK v \in Nat, s \in 0 .. b - 1: v = u \div b /\ u = b * v + s
  BY Divided
<1>3. a * b \in Nat \ {0}
  OBVIOUS
<1> DEFINE rest == a * s + r
<1>4. rest \in 0 .. a * b - 1
  <2>1. PICK d \in Nat: b = s + 1 + d
    <3>1. b - s - 1 \in Nat /\ b = s + 1 + (b - s - 1)
      OBVIOUS
    <3> QED
      BY <3>1
  <2>2. a * b = a * s + a + a * d /\ a * d \in Nat /\ a * s \in Nat
    BY <2>1
  <2> QED
    BY <2>2
<1>5. x = (a * b) * v + rest
  <2>1. a * u = a * (b * v) + a * s
    BY <1>2
  <2>2. a * (b * v) = (a * b) * v
    OBVIOUS
  <2>3. a * u \in Int /\ a * s \in Int /\ (a * b) * v \in Int
    OBVIOUS
  <2> QED
    BY <1>1, <2>1, <2>2, <2>3
<1> HIDE DEF rest
<1>6. ((a * b) * v + rest) \div (a * b) = v
  BY <1>3, <1>4, Quotient
<1> QED
  BY <1>1, <1>2, <1>5, <1>6

\* A bit is zero or one.
LEMMA BitType == ASSUME NEW x \in Nat, NEW k \in Nat PROVE Bit(x, k) \in {0, 1}
<1> DEFINE w == Power(2, k)
           y == x \div w
<1>1. y \in Nat
  <2>1. w \in Nat \ {0}
    BY PowerType
  <2> HIDE DEF w
  <2> QED
    BY <2>1
<1> HIDE DEF y
<1>2. y % 2 \in {0, 1}
  BY <1>1
<1> QED
  BY <1>2 DEF y, w, Bit

\* Powers of two double.
LEMMA TwoOneMore ==
  ASSUME NEW n \in Nat
  PROVE  Power(2, n) \in Nat \ {0} /\ Power(2, n + 1) = 2 * Power(2, n)
BY PowerType, PowerOneMore

\* Shifted to the right.
LEMMA BitDivided ==
  ASSUME NEW x \in Nat, NEW d \in Nat, NEW k \in Nat
  PROVE  x \div Power(2, d) \in Nat /\ Bit(x \div Power(2, d), k) = Bit(x, d + k)
<1>1. Power(2, d) \in Nat \ {0} /\ Power(2, k) \in Nat \ {0}
  BY PowerType
<1>2. Power(2, d + k) = Power(2, d) * Power(2, k)
  BY PowerAdds
<1> DEFINE a == Power(2, d)
           b == Power(2, k)
<1> HIDE DEF a, b
<1>3. a \in Nat \ {0} /\ b \in Nat \ {0}
  BY <1>1 DEF a, b
<1>4. (x \div a) \div b = x \div (a * b)
  BY <1>3, DividedTwice
<1>5. x \div a \in Nat
  BY <1>3
<1> QED
  BY <1>2, <1>4, <1>5 DEF a, b, Bit

\* A number put together from n bits and the bits above.
LEMMA BitJoined ==
  ASSUME NEW n \in Nat, NEW a \in 0 .. Power(2, n) - 1, NEW b \in Nat, NEW k \in Nat
  PROVE  /\ a + Power(2, n) * b \in Nat
         /\ Bit(a + Power(2, n) * b, k) = IF k < n THEN Bit(a, k) ELSE Bit(b, k - n)
<1> DEFINE w == Power(2, n)
           x == a + w * b
<1>1. w \in Nat \ {0} /\ a \in 0 .. w - 1
  BY PowerType
<1>2. x \in Nat
  <2> HIDE DEF w
  <2> QED
    BY <1>1
<1>3. CASE k < n
  <2> DEFINE d == n - k - 1
             v == Power(2, k)
             t == Power(2, d)
  <2>1. d \in Nat /\ k + 1 \in Nat /\ n = (k + 1) + d
    BY <1>3
  <2>2. v \in Nat \ {0} /\ t \in Nat \ {0} /\ w = (2 * v) * t
    <3>1. Power(2, (k + 1) + d) = Power(2, k + 1) * Power(2, d)
      <4> HIDE DEF d
      <4> QED
        BY <2>1, PowerAdds
    <3>2. Power(2, d) \in Nat \ {0}
      <4> HIDE DEF d
      <4> QED
        BY <2>1, PowerType
    <3> HIDE DEF d
    <3> QED
      BY <2>1, <3>1, <3>2, TwoOneMore
  <2> HIDE DEF v, t, w, d
  <2>3. PICK u \in Nat, r \in 0 .. v - 1: u = a \div v /\ a = v * u + r
    <3>1. a \in Int /\ a \in Nat
      BY <1>1
    <3>2. a \div v \in Nat /\ a % v \in 0 .. v - 1 /\ a = v * (a \div v) + (a % v)
      BY <2>2, <3>1, Divided
    <3> QED
      BY <3>2
  <2> DEFINE z == t * b
             y == u + 2 * z
  <2>4. z \in Nat /\ w * b = 2 * (v * z)
    <3>1. ((2 * v) * t) * b = 2 * (v * (t * b))
      BY <2>2
    <3> QED
      BY <2>2, <3>1
  <2> HIDE DEF z
  <2>5. x = v * y + r /\ y \in Int
    <3>1. v * y = v * u + 2 * (v * z)
      BY <2>2, <2>4
    <3>2. v * u \in Int /\ v * z \in Int
      BY <2>2, <2>4
    <3> QED
      BY <2>3, <2>4, <3>1, <3>2
  <2>6. x \div v = y
    <3> HIDE DEF x, y
    <3>1. (v * y + r) \div v = y
      BY <2>2, <2>5, Quotient
    <3> QED
      BY <2>5, <3>1
  <2>7. y % 2 = u % 2
    BY <2>4
  <2> QED
    BY <1>2, <1>3, <2>3, <2>6, <2>7 DEF Bit, v, w
<1>4. CASE k >= n
  <2> DEFINE d == k - n
  <2>1. d \in Nat /\ k = n + d
    BY <1>4
  <2> HIDE DEF d
  <2>2. Bit(x \div w, d) = Bit(x, n + d)
    <3> HIDE DEF x
    <3> QED
      BY <1>2, <2>1, BitDivided
  <2>3. x \div w = b
    <3> HIDE DEF w
    <3>1. (w * b + a) \div w = b
      BY <1>1, Quotient
    <3>2. w * b + a = x
      BY <1>1
    <3> QED
      BY <3>1, <3>2
  <2> HIDE DEF x
  <2>4. Bit(x, k) = Bit(b, d)
    BY <2>1, <2>2, <2>3
  <2> QED
    BY <1>2, <1>4, <2>4 DEF x, w, d
<1> QED
  BY <1>3, <1>4

\* Zero has no bits.
LEMMA BitOfNone == ASSUME NEW k \in Nat PROVE Bit(0, k) = 0
<1>1. Power(2, k) \in Nat \ {0}
  BY PowerType
<1>2. 0 \div Power(2, k) = 0
  BY <1>1, Small
<1> QED
  BY <1>2 DEF Bit

\* Above its size a number has no bits.
LEMMA BitAbove ==
  ASSUME NEW n \in Nat, NEW x \in 0 .. Power(2, n) - 1, NEW k \in Nat, n <= k
  PROVE  Bit(x, k) = 0
<1>1. Bit(x + Power(2, n) * 0, k) = Bit(0, k - n)
  <2> DEFINE none == 0
  <2>1. none \in Nat /\ ~(k < n)
    OBVIOUS
  <2> HIDE DEF none
  <2>2. Bit(x + Power(2, n) * none, k) = Bit(none, k - n)
    BY <2>1, BitJoined, Zenon
  <2> QED
    BY <2>2 DEF none
<1>2. x + Power(2, n) * 0 = x
  BY PowerType
<1>3. Bit(0, k - n) = 0
  BY BitOfNone
<1> QED
  BY <1>1, <1>2, <1>3

\* Cut to n bits.
LEMMA BitCut ==
  ASSUME NEW x \in Nat, NEW n \in Nat, NEW k \in Nat
  PROVE  /\ x % Power(2, n) \in 0 .. Power(2, n) - 1
         /\ Bit(x % Power(2, n), k) = IF k < n THEN Bit(x, k) ELSE 0
<1> DEFINE w == Power(2, n)
<1>1. w \in Nat \ {0}
  BY PowerType
<1>2. PICK r \in 0 .. w - 1, u \in Nat: r = x % w /\ x = r + w * u
  <2> HIDE DEF w
  <2>1. x % w \in 0 .. w - 1 /\ x \div w \in Nat /\ x = w * (x \div w) + (x % w)
    <3> x \in Int
      OBVIOUS
    <3> QED
      BY <1>1, Divided
  <2>2. w * (x \div w) \in Int
    BY <1>1, <2>1
  <2> QED
    BY <2>1, <2>2
<1>3. k < n => Bit(x, k) = Bit(r, k)
  BY <1>2, BitJoined
<1>4. k >= n => Bit(r, k) = 0
  BY <1>2, BitAbove
<1> QED
  BY <1>2, <1>3, <1>4

\* Shifted to the left.
LEMMA BitTimes ==
  ASSUME NEW x \in Nat, NEW n \in Nat, NEW k \in Nat
  PROVE  /\ x * Power(2, n) \in Nat
         /\ Bit(x * Power(2, n), k) = IF k < n THEN 0 ELSE Bit(x, k - n)
<1> DEFINE w == Power(2, n)
           none == 0
<1>1. w \in Nat \ {0} /\ none \in 0 .. w - 1 /\ none + w * x = x * w
  <2>1. w \in Nat \ {0}
    BY PowerType
  <2> HIDE DEF w
  <2> QED
    BY <2>1
<1>2. Bit(none + w * x, k) = IF k < n THEN Bit(none, k) ELSE Bit(x, k - n)
  <2> HIDE DEF none
  <2> QED
    BY <1>1, BitJoined
<1>3. Bit(none, k) = 0
  BY BitOfNone
<1>4. x * w \in Nat
  <2> HIDE DEF w
  <2> QED
    BY <1>1
<1> HIDE DEF none
<1> QED
  BY <1>1, <1>2, <1>3, <1>4

\* Numbers with equal bits are equal.
LEMMA SameBits ==
  ASSUME NEW n \in Nat, NEW x \in 0 .. Power(2, n) - 1, NEW y \in 0 .. Power(2, n) - 1,
         \A k \in 0 .. n - 1: Bit(x, k) = Bit(y, k)
  PROVE  x = y
<1> DEFINE Same(m) == \A a, b \in 0 .. Power(2, m) - 1:
                        (\A k \in 0 .. m - 1: Bit(a, k) = Bit(b, k)) => a = b
           S == {m \in Nat: Same(m)}
<1>1. 0 \in S
  BY PowerNone
<1>2. ASSUME NEW m \in Nat, m \in S PROVE m + 1 \in S
  <2> SUFFICES ASSUME NEW a \in 0 .. Power(2, m + 1) - 1, NEW b \in 0 .. Power(2, m + 1) - 1,
                      \A k \in 0 .. m: Bit(a, k) = Bit(b, k)
               PROVE  a = b
    OBVIOUS
  <2> DEFINE w == Power(2, m)
  <2>1. w \in Nat \ {0} /\ Power(2, m + 1) = 2 * w
    BY TwoOneMore
  <2>2. Power(2, 0) = 1 /\ Power(2, 1) = 2
    BY PowerNone, PowerOne
  <2>3. a \in Nat /\ b \in Nat /\ a \div 2 \in 0 .. w - 1 /\ b \div 2 \in 0 .. w - 1
    <3> HIDE DEF w
    <3> QED
      BY <2>1
  <2>4. a % 2 = b % 2
    <3>1. Bit(a, 0) = Bit(b, 0)
      OBVIOUS
    <3>2. a \div 1 = a /\ b \div 1 = b
      BY <2>3
    <3> QED
      BY <2>2, <3>1, <3>2 DEF Bit
  <2>5. \A k \in 0 .. m - 1: Bit(a \div 2, k) = Bit(b \div 2, k)
    <3> TAKE k \in 0 .. m - 1
    <3>1. k \in Nat /\ 1 + k \in 0 .. m
      OBVIOUS
    <3> DEFINE one == 1
    <3>2. one \in Nat
      OBVIOUS
    <3> HIDE DEF one
    <3>3. \A c \in Nat: Bit(c \div Power(2, one), k) = Bit(c, one + k)
      BY <3>1, <3>2, BitDivided
    <3>4. Bit(a, 1 + k) = Bit(b, 1 + k)
      BY <3>1
    <3> QED
      BY <2>2, <2>3, <3>3, <3>4 DEF one
  <2>6. a \div 2 = b \div 2
    <3>1. Same(m)
      BY <1>2
    <3> QED
      BY <2>3, <2>5, <3>1
  <2> QED
    BY <2>3, <2>4, <2>6
<1> HIDE DEF S
<1>3. Nat \subseteq S
  BY <1>1, <1>2, Induction
<1>4. Same(n)
  BY <1>3 DEF S
<1> QED
  BY <1>4

\* A number without bits from n on is below the n-th power.
LEMMA NoBitsAbove ==
  ASSUME NEW m \in Nat, NEW x \in 0 .. Power(2, m) - 1, NEW n \in Nat,
         \A k \in n .. m - 1: Bit(x, k) = 0
  PROVE  x \in 0 .. Power(2, n) - 1
<1> DEFINE y == x % Power(2, n)
<1>1. y \in 0 .. Power(2, n) - 1 /\ x \in Nat
  <2>1. x \in Nat
    BY PowerType
  <2> QED
    BY <2>1, BitCut
<1>2. y <= x /\ y \in 0 .. Power(2, m) - 1
  <2>1. Power(2, n) \in Nat \ {0} /\ Power(2, m) \in Nat
    BY PowerType
  <2> DEFINE w == Power(2, n)
  <2>2. x % w <= x
    <3> HIDE DEF w
    <3>1. x \div w \in Nat /\ x = w * (x \div w) + (x % w) /\ x % w \in Nat
      <4>1. x \in Int /\ x \in Nat
        BY <1>1
      <4>2. w \in Nat \ {0}
        BY PowerType DEF w
      <4>3. /\ x \div w \in Int /\ x % w \in 0 .. w - 1 /\ x = w * (x \div w) + (x % w)
            /\ x \in Nat => x \div w \in Nat
        BY <4>1, <4>2, Divided
      <4> QED
        BY <4>1, <4>3
    <3>2. w * (x \div w) \in Nat
      BY <2>1, <3>1 DEF w
    <3> QED
      BY <3>1, <3>2
  <2> QED
    BY <1>1, <2>1, <2>2
<1>3. \A k \in 0 .. m - 1: Bit(y, k) = Bit(x, k)
  BY <1>1, BitCut
<1> HIDE DEF y
<1>4. x = y
  BY <1>2, <1>3, SameBits
<1> QED
  BY <1>1, <1>4

\* One has one bit.
LEMMA BitOfOne == ASSUME NEW k \in Nat PROVE Bit(1, k) = IF k = 0 THEN 1 ELSE 0
<1>1. k = 0 => Bit(1, k) = 1
  BY PowerNone DEF Bit
<1>2. k # 0 => Bit(1, k) = 0
  <2>1. 1 \in 0 .. Power(2, 1) - 1
    BY PowerOne
  <2> QED
    BY <2>1, BitAbove
<1> QED
  BY <1>1, <1>2

\* A sum of different powers of two has just those bits.
LEMMA SumOfBits ==
  ASSUME NEW m \in Nat, NEW f, \A k \in 0 .. m - 1: f[k] \in {0, Power(2, k)}
  PROVE  /\ Sum(m, f) \in 0 .. Power(2, m) - 1
         /\ \A k \in 0 .. m - 1: Bit(Sum(m, f), k) = 1 <=> f[k] # 0
<1> DEFINE Right(n) == /\ Sum(n, f) \in 0 .. Power(2, n) - 1
                       /\ \A k \in 0 .. n - 1: Bit(Sum(n, f), k) = 1 <=> f[k] # 0
           S == {n \in Nat: n <= m => Right(n)}
<1>1. 0 \in S
  BY SumNone, PowerNone
<1>2. ASSUME NEW n \in Nat, n \in S PROVE n + 1 \in S
  <2> SUFFICES ASSUME n < m PROVE Right(n + 1)
    OBVIOUS
  <2> DEFINE a == Sum(n, f)
             w == Power(2, n)
             c == IF f[n] = 0 THEN 0 ELSE 1
  <2>1. /\ a \in 0 .. w - 1
        /\ \A k \in 0 .. n - 1: Bit(a, k) = 1 <=> f[k] # 0
    BY <1>2
  <2>2. w \in Nat \ {0} /\ Power(2, n + 1) = 2 * w
    BY TwoOneMore
  <2>3. f[n] = w * c /\ c \in {0, 1} /\ (c = 1 <=> f[n] # 0) /\ f[n] \in Int
    <3>1. f[n] \in {0, w}
      OBVIOUS
    <3> HIDE DEF w
    <3> QED
      BY <2>2, <3>1
  <2> HIDE DEF c
  <2>4. Sum(n + 1, f) = a + w * c
    <3>1. Sum(n + 1, f) = a + f[n]
      BY SumOneMore
    <3> QED
      BY <2>3, <3>1
  <2>5. Sum(n + 1, f) \in 0 .. Power(2, n + 1) - 1
    <3> HIDE DEF a, w
    <3> QED
      BY <2>1, <2>2, <2>3, <2>4
  <2>6. c \in Nat
    BY <2>3
  <2>7. \A k \in Nat: Bit(a + w * c, k) = IF k < n THEN Bit(a, k) ELSE Bit(c, k - n)
    <3> HIDE DEF a
    <3> QED
      BY <2>1, <2>6, BitJoined
  <2>8. Bit(c, 0) = 1 <=> f[n] # 0
    BY <2>3, BitOfOne, BitOfNone
  <2> HIDE DEF a, w
  <2>9. ASSUME NEW k \in 0 .. n PROVE Bit(Sum(n + 1, f), k) = 1 <=> f[k] # 0
    <3>1. CASE k < n
      BY <2>1, <2>4, <2>7, <3>1
    <3>2. CASE k = n
      <4>1. Bit(a + w * c, n) = Bit(c, 0)
        BY <2>7
      <4> QED
        BY <2>4, <2>8, <3>2, <4>1
    <3> QED
      BY <3>1, <3>2
  <2> QED
    BY <2>5, <2>9
<1> HIDE DEF S
<1>3. Nat \subseteq S
  BY <1>1, <1>2, Induction
<1>4. Right(m)
  BY <1>3 DEF S
<1> QED
  BY <1>4

-----------------------------------------------------------------------------
\* Packing.

\* The widths.
LEMMA Widths ==
  /\ Byte \in Nat \ {0} /\ Bits \in Nat \ {0} /\ Word \in Nat \ {0}
  /\ Word = 4 * Byte /\ 2 * Byte < Bits /\ Bits + Byte - 1 <= Word /\ Bits <= Word
BY WidthAssumption DEF Word

\* The bitwise or has the bits of both.
LEMMA OrBits ==
  ASSUME NEW x \in Nat, NEW y \in Nat
  PROVE  /\ Or(x, y) \in 0 .. Power(2, Word + 1) - 1
         /\ \A k \in 0 .. Word: Bit(Or(x, y), k) = 1 <=> Bit(x, k) = 1 \/ Bit(y, k) = 1
<1> DEFINE f == [k \in 0 .. Word |->
                   IF Bit(x, k) = 1 \/ Bit(y, k) = 1 THEN Power(2, k) ELSE 0]
           m == Word + 1
<1>1. m \in Nat /\ \A k \in 0 .. Word: k \in Nat /\ k \in 0 .. m - 1
  BY Widths
<1>2. \A k \in 0 .. Word: /\ f[k] \in {0, Power(2, k)}
                          /\ f[k] # 0 <=> Bit(x, k) = 1 \/ Bit(y, k) = 1
  BY <1>1, PowerType
<1>3. \A k \in 0 .. m - 1: k \in 0 .. Word
  BY Widths
<1>4. Or(x, y) = Sum(m, f)
  BY DEF Or
<1> HIDE DEF f, m
<1>5. /\ Sum(m, f) \in 0 .. Power(2, m) - 1
      /\ \A k \in 0 .. m - 1: Bit(Sum(m, f), k) = 1 <=> f[k] # 0
  BY <1>1, <1>2, <1>3, SumOfBits
<1> QED
  BY <1>1, <1>2, <1>4, <1>5 DEF m

\* A rounding has one bit too many where it is 2^Bits, and no other then.
LEMMA RoundedBits ==
  ASSUME NEW r \in 0 .. Power(2, Bits), NEW j \in Nat
  PROVE  /\ r \in Nat
         /\ r = Power(2, Bits) => (Bit(r, j) = 1 <=> j = Bits)
         /\ r # Power(2, Bits) /\ j >= Bits => Bit(r, j) = 0
         /\ j > Bits => Bit(r, j) = 0
<1> DEFINE w == Power(2, Bits)
<1>1. w \in Nat \ {0} /\ r \in Nat
  BY Widths, PowerType
<1>2. ASSUME r = w PROVE Bit(r, j) = IF j = Bits THEN 1 ELSE 0
  <2> DEFINE one == 1
  <2>1. one \in Nat /\ one * w = w /\ Bits \in Nat
    BY <1>1, Widths
  <2> HIDE DEF one
  <2>2. Bit(one * Power(2, Bits), j) = IF j < Bits THEN 0 ELSE Bit(one, j - Bits)
    BY <2>1, BitTimes
  <2>3. j >= Bits => Bit(one, j - Bits) = IF j = Bits THEN 1 ELSE 0
    <3> SUFFICES ASSUME j >= Bits PROVE Bit(one, j - Bits) = IF j = Bits THEN 1 ELSE 0
      OBVIOUS
    <3> DEFINE i == j - Bits
    <3>1. i \in Nat /\ (i = 0 <=> j = Bits)
      BY <2>1
    <3> HIDE DEF i
    <3>2. Bit(one, i) = IF i = 0 THEN 1 ELSE 0
      BY <3>1, BitOfOne DEF one
    <3> QED
      BY <3>1, <3>2 DEF i
  <2> QED
    BY <1>2, <2>1, <2>2, <2>3
<1>3. ASSUME r # w, j >= Bits PROVE Bit(r, j) = 0
  <2>1. r \in 0 .. w - 1
    <3> HIDE DEF w
    <3> QED
      BY <1>1, <1>3 DEF w
  <2> QED
    BY <1>3, <2>1, Widths, BitAbove
<1> QED
  BY <1>1, <1>2, <1>3, Widths

\* The new bits above the ones afloat.
LEMMA JoinedBits ==
  ASSUME floatingBits \in 0 .. Word - 1, floating \in 0 .. Power(2, floatingBits + 1) - 1,
         NEW r \in 0 .. Power(2, Bits)
  PROVE  /\ Joined(r) \in 0 .. Power(2, Word) - 1
         /\ \A q \in 0 .. Word - 1:
              Bit(Joined(r), q) = 1 <=> \/ q >= floatingBits /\ Bit(r, q - floatingBits) = 1
                                        \/ Bit(floating, q) = 1
         /\ floatingBits + Bits < Word => Joined(r) \in 0 .. Power(2, floatingBits + Bits + 1) - 1
<1> DEFINE n == floatingBits
           y == floating
           x == (r * Power(2, n)) % Power(2, Word)
           z == Or(x, y)
<1>1. /\ n \in Nat /\ r \in Nat /\ y \in Nat /\ Word \in Nat /\ n < Word
      /\ r * Power(2, n) \in Nat
  <2>1. n \in Nat /\ Word \in Nat /\ n < Word
    BY Widths
  <2>2. r \in Nat /\ y \in Nat
    BY Widths, PowerType
  <2>3. r * Power(2, n) \in Nat
    BY <2>1, <2>2, BitTimes
  <2> QED
    BY <2>1, <2>2, <2>3
<1>2. x \in Nat /\ \A q \in Nat: Bit(x, q) = IF q < Word /\ q >= n THEN Bit(r, q - n) ELSE 0
  <2>1. \A q \in Nat: Bit(r * Power(2, n), q) = IF q < n THEN 0 ELSE Bit(r, q - n)
    BY <1>1, BitTimes
  <2>2. x \in 0 .. Power(2, Word) - 1
        /\ \A q \in Nat: Bit(x, q) = IF q < Word THEN Bit(r * Power(2, n), q) ELSE 0
    BY <1>1, BitCut
  <2> QED
    BY <2>1, <2>2
<1>3. \A q \in Nat: q > n => Bit(y, q) = 0
  <2> TAKE q \in Nat
  <2>1. n + 1 \in Nat /\ (q > n => n + 1 <= q)
    BY <1>1
  <2> QED
    BY <2>1, BitAbove
<1> HIDE DEF x
<1>4. /\ z \in 0 .. Power(2, Word + 1) - 1
      /\ \A k \in 0 .. Word: Bit(z, k) = 1 <=> Bit(x, k) = 1 \/ Bit(y, k) = 1
  BY <1>1, <1>2, OrBits
<1>5. z \in Nat /\ \A k \in Nat: Bit(z, k) \in {0, 1}
  <2>1. z \in Nat
    BY <1>4, <1>1, PowerType
  <2> HIDE DEF z
  <2> QED
    BY <2>1, BitType
<1>6. Joined(r) = z
  BY DEF Joined, x
<1> HIDE DEF z
<1>7. z \in 0 .. Power(2, Word) - 1
  <2>1. \A k \in Word .. Word + 1 - 1: Bit(z, k) = 0
    <3>1. Bit(x, Word) = 0 /\ Bit(y, Word) = 0
      BY <1>1, <1>2, <1>3
    <3>2. Bit(z, Word) = 0
      BY <1>1, <1>4, <1>5, <3>1
    <3> QED
      BY <1>1, <3>2
  <2> DEFINE above == Word + 1
  <2>2. above \in Nat /\ z \in 0 .. Power(2, above) - 1 /\ \A k \in Word .. above - 1: Bit(z, k) = 0
    BY <1>1, <1>4, <2>1
  <2> HIDE DEF above
  <2> QED
    BY <1>1, <2>2, NoBitsAbove
<1>8. \A q \in 0 .. Word - 1: Bit(z, q) = 1 <=> \/ q >= n /\ Bit(r, q - n) = 1
                                                \/ Bit(y, q) = 1
  BY <1>1, <1>2, <1>4
<1>9. ASSUME n + Bits < Word PROVE z \in 0 .. Power(2, n + Bits + 1) - 1
  <2> DEFINE m == n + Bits + 1
  <2>1. m \in Nat
    BY <1>1, Widths
  <2>2. \A k \in m .. Word - 1: Bit(z, k) = 0
    <3> TAKE k \in m .. Word - 1
    <3>1. k \in Nat /\ k \in 0 .. Word - 1 /\ k > n /\ k - n \in Nat /\ k - n > Bits
      BY <1>1, <2>1, Widths
    <3>2. Bit(y, k) = 0
      BY <1>3, <3>1
    <3>3. Bit(r, k - n) = 0
      BY <3>1, RoundedBits
    <3> QED
      BY <1>5, <1>8, <3>1, <3>2, <3>3
  <2> HIDE DEF m
  <2>3. z \in 0 .. Power(2, m) - 1
    BY <1>1, <1>7, <2>1, <2>2, NoBitsAbove
  <2> QED
    BY <2>3 DEF m
<1> QED
  BY <1>6, <1>7, <1>8, <1>9

-----------------------------------------------------------------------------
\* The invariant: bit p of what is packed is that of its element, or the carry
\* of the element before.

Words == outputIndex \div 4
Total == Len(rounded) * Bits

\* Bit p of the elements of s, put one behind the other.
PackedOf(s, p) ==
  \/ /\ p \div Bits + 1 \in 1 .. Len(s)
     /\ Bit(s[p \div Bits + 1], p % Bits) = 1
  \/ /\ p % Bits = 0 /\ p \div Bits \in 1 .. Len(s)
     /\ s[p \div Bits] = Power(2, Bits)

IsPacked(p) == PackedOf(rounded, p)

OutputBit(p) == Bit(output[p \div Word], p % Word)

PackingTyped ==
  /\ matrix \in Seq(Values)
  /\ rounded \in Seq(0 .. Power(2, Bits)) /\ Len(rounded) <= Len(matrix)
  /\ \A i \in 1 .. Len(rounded): rounded[i] \in Roundings(matrix[i])
  /\ floatingBits \in 0 .. Word - 1
  /\ floating \in 0 .. Power(2, floatingBits + 1) - 1
  /\ Words \in Nat /\ outputIndex = 4 * Words /\ Word * Words + floatingBits = Total
  /\ output \in [0 .. Length \div 4 - 1 -> 0 .. Power(2, Word) - 1]
  /\ stage \in {"pack", "unpack", "done"}
  /\ stage # "pack" => Len(rounded) = Len(matrix)

\* While packing: the words written, and the bits afloat with their carry.
Written == stage = "pack" => \A p \in 0 .. Word * Words - 1: OutputBit(p) = 1 <=> IsPacked(p)
Afloat == stage = "pack" =>
            \A q \in 0 .. floatingBits: Bit(floating, q) = 1 <=> IsPacked(Word * Words + q)

\* Afterwards: all of it.
Complete == stage # "pack" => \A p \in 0 .. Total - 1: OutputBit(p) = 1 <=> IsPacked(p)

AllUnpacked == stage = "done" => switched = [i \in 1 .. Len(matrix) |-> UnpackOne(i)]

PackingInv == PackingTyped /\ Written /\ Afloat /\ Complete /\ AllUnpacked

\* Which element a bit belongs to.
LEMMA PackedPlace ==
  ASSUME NEW s, NEW e \in Nat, NEW j \in 0 .. Bits - 1
  PROVE  PackedOf(s, e * Bits + j) <=>
           \/ e + 1 \in 1 .. Len(s) /\ Bit(s[e + 1], j) = 1
           \/ j = 0 /\ e \in 1 .. Len(s) /\ s[e] = Power(2, Bits)
<1> DEFINE p == e * Bits + j
<1>1. p \div Bits = e /\ p % Bits = j
  <2>1. Bits \in Nat \ {0}
    BY Widths
  <2>2. (Bits * e + j) \div Bits = e /\ (Bits * e + j) % Bits = j
    BY <2>1, Quotient
  <2>3. Bits * e + j = p
    BY <2>1
  <2> QED
    BY <2>2, <2>3
<1> HIDE DEF p
<1> QED
  BY <1>1 DEF PackedOf, p

\* One element more adds its bits, the first of them to the carry before it.
LEMMA PackedAppended ==
  ASSUME NEW s \in Seq(0 .. Power(2, Bits)), NEW r \in 0 .. Power(2, Bits)
  PROVE  /\ \A p \in 0 .. Len(s) * Bits - 1: PackedOf(Append(s, r), p) <=> PackedOf(s, p)
         /\ \A j \in 0 .. Bits: PackedOf(Append(s, r), Len(s) * Bits + j) <=>
                                  Bit(r, j) = 1 \/ (j = 0 /\ PackedOf(s, Len(s) * Bits))
<1> DEFINE n == Len(s)
           t == Append(s, r)
<1>1. /\ n \in Nat /\ Len(t) = n + 1 /\ t[n + 1] = r
      /\ \A i \in 1 .. n: t[i] = s[i]
  OBVIOUS
<1> HIDE DEF n, t
<1>2. ASSUME NEW p \in 0 .. n * Bits - 1 PROVE PackedOf(t, p) <=> PackedOf(s, p)
  <2>1. PICK e \in Nat, j \in 0 .. Bits - 1: p = e * Bits + j
    <3>1. p \in Int /\ p \in Nat /\ Bits \in Nat \ {0}
      BY Widths
    <3>2. p \div Bits \in Nat /\ p % Bits \in 0 .. Bits - 1 /\ p = Bits * (p \div Bits) + (p % Bits)
      BY <3>1, Divided
    <3>3. Bits * (p \div Bits) = (p \div Bits) * Bits
      BY <3>1, <3>2
    <3> QED
      BY <3>2, <3>3
  <2>2. e < n
    <3> SUFFICES ASSUME n <= e PROVE FALSE
      BY <1>1
    <3>1. n * Bits <= e * Bits /\ n * Bits \in Nat /\ e * Bits \in Nat
      BY <1>1, Widths
    <3> QED
      BY <2>1, <3>1
  <2>3. /\ PackedOf(t, p) <=> \/ e + 1 \in 1 .. Len(t) /\ Bit(t[e + 1], j) = 1
                              \/ j = 0 /\ e \in 1 .. Len(t) /\ t[e] = Power(2, Bits)
        /\ PackedOf(s, p) <=> \/ e + 1 \in 1 .. Len(s) /\ Bit(s[e + 1], j) = 1
                              \/ j = 0 /\ e \in 1 .. Len(s) /\ s[e] = Power(2, Bits)
    BY <2>1, PackedPlace
  <2>4. e + 1 \in 1 .. Len(t) /\ e + 1 \in 1 .. Len(s) /\ t[e + 1] = s[e + 1]
        /\ (e \in 1 .. Len(t) <=> e \in 1 .. Len(s)) /\ (e \in 1 .. Len(s) => t[e] = s[e])
    BY <1>1, <2>2 DEF n
  <2> QED
    BY <2>3, <2>4
<1>3. ASSUME NEW j \in 0 .. Bits - 1
      PROVE  PackedOf(t, n * Bits + j) <=> Bit(r, j) = 1 \/ (j = 0 /\ PackedOf(s, n * Bits))
  <2>1. PackedOf(t, n * Bits + j) <=> \/ n + 1 \in 1 .. Len(t) /\ Bit(t[n + 1], j) = 1
                                      \/ j = 0 /\ n \in 1 .. Len(t) /\ t[n] = Power(2, Bits)
    BY <1>1, PackedPlace
  <2>2. PackedOf(s, n * Bits + 0) <=> \/ n + 1 \in 1 .. Len(s) /\ Bit(s[n + 1], 0) = 1
                                      \/ 0 = 0 /\ n \in 1 .. Len(s) /\ s[n] = Power(2, Bits)
    <3> DEFINE none == 0
    <3>1. none \in 0 .. Bits - 1
      BY Widths
    <3> HIDE DEF none
    <3>2. PackedOf(s, n * Bits + none) <=> \/ n + 1 \in 1 .. Len(s) /\ Bit(s[n + 1], none) = 1
                                           \/ none = 0 /\ n \in 1 .. Len(s) /\ s[n] = Power(2, Bits)
      BY <1>1, <3>1, PackedPlace
    <3> QED
      BY <3>2 DEF none
  <2>3. n * Bits + 0 = n * Bits
    BY <1>1, Widths
  <2>4. Len(s) = n /\ (n \in 1 .. n => t[n] = s[n]) /\ n + 1 \in 1 .. n + 1
        /\ (n \in 1 .. n + 1 <=> n \in 1 .. n) /\ n + 1 \notin 1 .. n
    BY <1>1 DEF n
  <2>5. PackedOf(t, n * Bits + j) <=> Bit(r, j) = 1 \/ (j = 0 /\ n \in 1 .. n /\ t[n] = Power(2, Bits))
    BY <1>1, <2>1, <2>4
  <2>6. PackedOf(s, n * Bits) <=> n \in 1 .. n /\ s[n] = Power(2, Bits)
    BY <2>2, <2>3, <2>4
  <2> QED
    BY <2>4, <2>5, <2>6
<1>4. PackedOf(t, n * Bits + Bits) <=> Bit(r, Bits) = 1
  <2> DEFINE none == 0
  <2>1. none \in 0 .. Bits - 1 /\ n + 1 \in Nat /\ (n + 1) * Bits + none = n * Bits + Bits
    BY <1>1, Widths
  <2> HIDE DEF none
  <2>2. PackedOf(t, (n + 1) * Bits + none) <=>
          \/ n + 1 + 1 \in 1 .. Len(t) /\ Bit(t[n + 1 + 1], none) = 1
          \/ none = 0 /\ n + 1 \in 1 .. Len(t) /\ t[n + 1] = Power(2, Bits)
    BY <1>1, <2>1, PackedPlace
  <2>3. n + 1 + 1 \notin 1 .. Len(t) /\ n + 1 \in 1 .. Len(t)
    BY <1>1
  <2>4. Bit(r, Bits) = 1 <=> r = Power(2, Bits)
    BY Widths, RoundedBits
  <2> QED
    BY <1>1, <2>1, <2>2, <2>3, <2>4 DEF none
<1>5. \A j \in 0 .. Bits: PackedOf(t, n * Bits + j) <=> Bit(r, j) = 1 \/ (j = 0 /\ PackedOf(s, n * Bits))
  <2> TAKE j \in 0 .. Bits
  <2> DEFINE top == Bits
  <2>1. top \in Nat \ {0} /\ j \in 0 .. top
    BY Widths
  <2> HIDE DEF top
  <2>2. j \in 0 .. top - 1 \/ (j = top /\ j # 0)
    BY <2>1
  <2> QED
    BY <1>3, <1>4, <2>2 DEF top
<1> QED
  BY <1>2, <1>5 DEF n, t

\* What is carried over are the bits the word had no room for.
LEMMA RestBits ==
  ASSUME NEW r \in 0 .. Power(2, Bits), NEW m \in 0 .. Bits - 1
  PROVE  /\ Rest(r, m) \in 0 .. Power(2, m + 1) - 1
         /\ \A q \in Nat: Bit(Rest(r, m), q) = Bit(r, Bits - m + q)
<1> DEFINE d == Bits - m
           z == r \div Power(2, d)
<1>1. d \in Nat /\ m \in Nat /\ Bits \in Nat /\ r \in Nat
  BY Widths, RoundedBits
<1>2. z \in Nat /\ \A q \in Nat: Bit(z, q) = Bit(r, d + q)
  <2> HIDE DEF d
  <2> QED
    BY <1>1, BitDivided
<1>3. z <= r
  <2> DEFINE w == Power(2, d)
  <2>1. w \in Nat \ {0}
    BY <1>1, PowerType
  <2> HIDE DEF w, d
  <2>2. r \div w \in Nat /\ r % w \in 0 .. w - 1 /\ r = w * (r \div w) + (r % w)
    <3> r \in Int
      BY <1>1
    <3> QED
      BY <1>1, <2>1, Divided
  <2>3. r \div w <= w * (r \div w)
    BY <2>1, <2>2
  <2>4. w * (r \div w) \in Nat
    BY <2>1, <2>2
  <2> QED
    BY <2>2, <2>3, <2>4 DEF w, d
<1> DEFINE above == Bits + 1
<1>4. above \in Nat /\ z \in 0 .. Power(2, above) - 1
  <2>1. Power(2, above) = 2 * Power(2, Bits) /\ Power(2, Bits) \in Nat \ {0}
    BY <1>1, TwoOneMore
  <2> HIDE DEF z
  <2> QED
    BY <1>1, <1>2, <1>3, <2>1
<1>5. \A k \in m + 1 .. above - 1: Bit(z, k) = 0
  <2> TAKE k \in m + 1 .. above - 1
  <2>1. k \in Nat /\ d + k \in Nat /\ d + k > Bits
    BY <1>1
  <2> QED
    BY <1>2, <2>1, RoundedBits
<1> DEFINE below == m + 1
<1>6. below \in Nat
  BY <1>1
<1> HIDE DEF above, z
<1>7. z \in 0 .. Power(2, below) - 1
  <2>1. \A k \in below .. above - 1: Bit(z, k) = 0
    BY <1>5
  <2> HIDE DEF below
  <2> QED
    BY <1>4, <1>6, <2>1, NoBitsAbove
<1>8. Rest(r, m) = z
  BY DEF Rest, z
<1> QED
  BY <1>2, <1>7, <1>8

\* The length has room for every word written and every word read.
LEMMA Room ==
  ASSUME NEW n \in Nat
  PROVE  /\ ModuloSwitchLength(n) \in Nat
         /\ \E c \in Nat: ModuloSwitchLength(n) = 4 * (c + 1)
         /\ \A w \in Nat: Word * w < n * Bits => 4 * w + 4 <= ModuloSwitchLength(n)
         /\ n # 0 => StartBit(n) \div Byte + 4 <= ModuloSwitchLength(n)
<1> DEFINE t == n * Bits
           l == t \div Byte + (IF t % Byte # 0 THEN 1 ELSE 0)
<1>1. t \in Nat /\ Byte \in Nat \ {0} /\ Word = 4 * Byte /\ 2 * Byte < Bits /\ Bits \in Nat
  BY Widths
<1> HIDE DEF t
<1>2. l \in Nat /\ t <= Byte * l
  <2>1. t \div Byte \in Nat /\ t % Byte \in 0 .. Byte - 1 /\ t = Byte * (t \div Byte) + (t % Byte)
    <3> t \in Int
      BY <1>1
    <3> QED
      BY <1>1, Divided
  <2> DEFINE a == t \div Byte
             b == t % Byte
  <2> HIDE DEF a, b
  <2>2. a \in Nat /\ b \in 0 .. Byte - 1 /\ t = Byte * a + b /\ l = a + (IF b # 0 THEN 1 ELSE 0)
    BY <2>1 DEF a, b
  <2> HIDE DEF l
  <2>3. Byte * (a + 1) = Byte * a + Byte /\ Byte * a \in Nat
    BY <1>1, <2>2
  <2>4. CASE b # 0
    BY <1>1, <2>2, <2>3, <2>4
  <2>5. CASE b = 0
    BY <1>1, <2>2, <2>3, <2>5
  <2> QED
    BY <2>4, <2>5
<1> HIDE DEF l
<1>3. PICK u \in Nat, v \in 0 .. 3: l = 4 * u + v /\ l % 4 = v
  BY <1>2
<1> DEFINE all == 4 * u + 4
<1>4. ModuloSwitchLength(n) = all
  <2>1. ModuloSwitchLength(n) = l + (4 - (l % 4))
    BY DEF ModuloSwitchLength, Slack, l, t
  <2> QED
    BY <1>3, <2>1
<1>5. Byte * l = 4 * (Byte * u) + Byte * v /\ Byte * u \in Nat /\ Byte * v \in Nat /\ Byte * v <= 3 * Byte
  BY <1>1, <1>3
<1>6. ASSUME NEW w \in Nat, Word * w < t PROVE 4 * w + 4 <= all
  <2>1. Word * w = 4 * (Byte * w) /\ Byte * w \in Nat
    BY <1>1
  <2>2. Byte * w < Byte * u + Byte
    BY <1>1, <1>2, <1>5, <1>6, <2>1
  <2>3. w <= u
    <3> SUFFICES ASSUME u + 1 <= w PROVE FALSE
      OBVIOUS
    <3>1. PICK d \in Nat: w = u + 1 + d
      <4>1. w - u - 1 \in Nat /\ w = u + 1 + (w - u - 1)
        OBVIOUS
      <4> QED
        BY <4>1
    <3>2. Byte * w = Byte * u + Byte + Byte * d /\ Byte * d \in Nat
      BY <1>1, <3>1
    <3> QED
      BY <1>1, <1>5, <2>1, <2>2, <3>2
  <2> QED
    BY <2>3
<1>7. ASSUME n # 0 PROVE StartBit(n) \div Byte + 4 <= all
  <2> DEFINE s == StartBit(n)
             q == s \div Byte
  <2>1. s \in Nat /\ s = t - Bits
    <3>1. (n - 1) * Bits = n * Bits - Bits /\ (n - 1) * Bits \in Nat
      BY <1>1, <1>7
    <3> QED
      BY <3>1 DEF StartBit, t
  <2> HIDE DEF s
  <2>2. q \in Nat /\ Byte * q <= s
    <3>1. s \div Byte \in Nat /\ s % Byte \in 0 .. Byte - 1 /\ s = Byte * (s \div Byte) + (s % Byte)
      <4> s \in Int
        BY <2>1
      <4> QED
        BY <1>1, <2>1, Divided
    <3>2. Byte * (s \div Byte) \in Int
      BY <1>1, <3>1
    <3> QED
      BY <3>1, <3>2
  <2> HIDE DEF q
  <2>3. q + 2 < l
    <3> SUFFICES ASSUME l <= q + 2 PROVE FALSE
      BY <1>2, <2>2
    <3>1. Byte * l <= Byte * (q + 2) /\ Byte * (q + 2) = Byte * q + 2 * Byte
      BY <1>1, <1>2, <2>2
    <3>2. Byte * q \in Int /\ Byte * l \in Int
      BY <1>1, <1>2, <2>2
    <3> QED
      BY <1>1, <1>2, <2>1, <2>2, <3>1, <3>2
  <2> QED
    BY <1>3, <2>2, <2>3 DEF q, s
<1> QED
  BY <1>4, <1>6, <1>7 DEF t

\* A rounding of an element has Bits bits, or is one more than that allows.
LEMMA RoundingType ==
  ASSUME NEW x \in 0 .. Power(2, Word) - 1
  PROVE  /\ OneUnit \in Nat \ {0} /\ Power(2, Word) = Power(2, Bits) * OneUnit
         /\ Roundings(x) \subseteq 0 .. Power(2, Bits)
<1> DEFINE u == OneUnit
           w == Power(2, Bits)
<1>1. u \in Nat \ {0} /\ w \in Nat \ {0} /\ Power(2, Word) = w * u
  <2> DEFINE d == Word - Bits
  <2>1. d \in Nat /\ Bits \in Nat /\ Word = Bits + d
    BY Widths
  <2> HIDE DEF d
  <2>2. Power(2, d) \in Nat \ {0} /\ Power(2, Bits) \in Nat \ {0}
    BY <2>1, PowerType
  <2>3. Power(2, Bits + d) = Power(2, Bits) * Power(2, d)
    BY <2>1, PowerAdds
  <2> QED
    BY <2>1, <2>2, <2>3 DEF OneUnit, d
<1> HIDE DEF u, w
<1>2. x \in Nat /\ x < w * u
  BY <1>1
<1>3. x \div u \in Nat /\ x \div u + 1 <= w
  <2>1. x \div u \in Nat /\ x % u \in 0 .. u - 1 /\ x = u * (x \div u) + (x % u)
    <3> x \in Int
      OBVIOUS
    <3> QED
      BY <1>1, <1>2, Divided
  <2> DEFINE a == x \div u
  <2> HIDE DEF a
  <2>2. a \in Nat /\ u * a <= x
    BY <1>1, <2>1 DEF a
  <2>3. a < w
    <3> SUFFICES ASSUME w <= a PROVE FALSE
      BY <1>1, <2>2
    <3>1. PICK d \in Nat: a = w + d
      <4>1. a - w \in Nat /\ a = w + (a - w)
        BY <1>1, <2>2
      <4> QED
        BY <4>1
    <3>2. u * a = w * u + u * d /\ u * d \in Nat
      BY <1>1, <3>1
    <3> QED
      BY <1>1, <1>2, <2>2, <3>2
  <2> QED
    BY <1>1, <2>2, <2>3 DEF a
<1>4. Roundings(x) \subseteq {x \div u, x \div u + 1}
  BY DEF Roundings, u
<1> QED
  BY <1>1, <1>3, <1>4 DEF u, w

\* Nothing has been packed.
LEMMA PackingInitInv == PackingInit => PackingInv
<1> SUFFICES ASSUME PackingInit PROVE PackingInv
  OBVIOUS
<1>1. PICK n \in 0 .. MaxLen: matrix \in [1 .. n -> Values]
  BY DEF PackingInit
<1>2. matrix \in Seq(Values) /\ Len(matrix) \in Nat
  <2>1. n \in Nat
    BY WidthAssumption
  <2> QED
    BY <1>1, <2>1
<1>3. /\ rounded = <<>> /\ Len(rounded) = 0 /\ floating = 0 /\ floatingBits = 0 /\ outputIndex = 0
      /\ Words = 0 /\ Total = 0 /\ stage = "pack" /\ Word * Words = 0
  BY Widths DEF PackingInit, Words, Total
<1>4. output \in [0 .. Length \div 4 - 1 -> 0 .. Power(2, Word) - 1]
  <2>1. Power(2, Word) \in Nat \ {0}
    BY Widths, PowerType
  <2>2. 0 \in 0 .. Power(2, Word) - 1
    BY <2>1
  <2> QED
    BY <2>2 DEF PackingInit
<1>5. Power(2, 0 + 1) = 2 * 1
  BY PowerNone, PowerOneMore
<1>6. PackingTyped
  BY <1>2, <1>3, <1>4, <1>5, Widths DEF PackingTyped
<1>7. Bit(floating, 0) = 0
  BY <1>3, BitOfNone
<1>8. ~IsPacked(Word * Words + 0)
  <2>1. 0 \div Bits = 0
    BY Widths, Small
  <2> QED
    BY <1>3, <2>1 DEF IsPacked, PackedOf
<1>9. Afloat
  BY <1>3, <1>7, <1>8 DEF Afloat
<1> QED
  BY <1>3, <1>6, <1>9 DEF PackingInv, Written, Complete, AllUnpacked

\* The word the next element goes into.
LEMMA JoinedPacked ==
  ASSUME PackingTyped, Afloat, stage = "pack", NEW r \in 0 .. Power(2, Bits),
         rounded' = Append(rounded, r)
  PROVE  /\ \A p \in 0 .. Total - 1: PackedOf(rounded', p) <=> IsPacked(p)
         /\ \A j \in 0 .. Bits: PackedOf(rounded', Total + j) <=> Bit(r, j) = 1 \/ (j = 0 /\ IsPacked(Total))
         /\ \A q \in 0 .. Word - 1: q <= floatingBits + Bits =>
              (Bit(Joined(r), q) = 1 <=> PackedOf(rounded', Word * Words + q))
<1>1. /\ rounded \in Seq(0 .. Power(2, Bits)) /\ floatingBits \in 0 .. Word - 1
      /\ floating \in 0 .. Power(2, floatingBits + 1) - 1
      /\ Words \in Nat /\ Word * Words + floatingBits = Total /\ Len(rounded) \in Nat
  BY DEF PackingTyped
<1>2. floatingBits \in Nat /\ Word * Words \in Nat /\ Total \in Nat /\ Word \in Nat /\ Bits \in Nat
  BY <1>1, Widths DEF Total
<1>3. rounded' = Append(rounded, r)
  OBVIOUS
<1>4. /\ \A p \in 0 .. Total - 1: PackedOf(Append(rounded, r), p) <=> PackedOf(rounded, p)
      /\ \A j \in 0 .. Bits: PackedOf(Append(rounded, r), Total + j) <=>
                               Bit(r, j) = 1 \/ (j = 0 /\ PackedOf(rounded, Total))
  BY <1>1, PackedAppended DEF Total
<1>5. \A p \in 0 .. Total - 1: PackedOf(rounded', p) <=> IsPacked(p)
  BY <1>3, <1>4 DEF IsPacked
<1>6. \A j \in 0 .. Bits: PackedOf(rounded', Total + j) <=> Bit(r, j) = 1 \/ (j = 0 /\ IsPacked(Total))
  BY <1>3, <1>4 DEF IsPacked
<1>7. ASSUME NEW q \in 0 .. Word - 1, q <= floatingBits + Bits
      PROVE  Bit(Joined(r), q) = 1 <=> PackedOf(rounded', Word * Words + q)
  <2>1. Bit(Joined(r), q) = 1 <=> \/ q >= floatingBits /\ Bit(r, q - floatingBits) = 1
                                  \/ Bit(floating, q) = 1
    BY <1>1, JoinedBits
  <2>2. q \in Nat
    BY <1>2
  <2>3. q <= floatingBits => (Bit(floating, q) = 1 <=> IsPacked(Word * Words + q))
    BY <1>2, <2>2 DEF Afloat
  <2>4. CASE q < floatingBits
    <3>1. Word * Words + q \in 0 .. Total - 1
      BY <1>1, <1>2, <2>2, <2>4
    <3>2. ~(q >= floatingBits) /\ q <= floatingBits
      BY <1>2, <2>2, <2>4
    <3> QED
      BY <1>5, <2>1, <2>3, <3>1, <3>2
  <2>5. CASE q >= floatingBits
    <3> DEFINE j == q - floatingBits
    <3>1. j \in 0 .. Bits /\ Total + j = Word * Words + q
      BY <1>1, <1>2, <1>7, <2>2, <2>5
    <3>2. Bit(floating, q) = 1 <=> j = 0 /\ IsPacked(Total)
      <4>1. CASE j = 0
        <5>1. q = floatingBits /\ q <= floatingBits /\ Word * Words + q = Total
          BY <1>1, <1>2, <2>2, <4>1
        <5> QED
          BY <2>3, <4>1, <5>1
      <4>2. CASE j # 0
        <5>1. floatingBits + 1 \in Nat /\ floatingBits + 1 <= q
          BY <1>2, <2>2, <2>5, <4>2
        <5>2. Bit(floating, q) = 0
          BY <1>1, <2>2, <5>1, BitAbove
        <5> QED
          BY <4>2, <5>2
      <4> QED
        BY <4>1, <4>2
    <3>3. PackedOf(rounded', Total + j) <=> Bit(r, j) = 1 \/ (j = 0 /\ IsPacked(Total))
      BY <1>6, <3>1
    <3> QED
      BY <2>1, <2>5, <3>1, <3>2, <3>3
  <2> QED
    BY <1>2, <2>2, <2>4, <2>5
<1> QED
  BY <1>5, <1>6, <1>7

\* Places of the bits in the words.
LEMMA WordPlace ==
  ASSUME NEW w \in Nat, NEW q \in 0 .. Word - 1
  PROVE  (Word * w + q) \div Word = w /\ (Word * w + q) % Word = q
BY Widths, Quotient

\* Bits before a word are in an earlier one.
LEMMA EarlierWord ==
  ASSUME NEW w \in Nat, NEW p \in 0 .. Word * w - 1
  PROVE  p \div Word \in 0 .. w - 1 /\ p % Word \in 0 .. Word - 1
         /\ p = Word * (p \div Word) + (p % Word)
<1>1. Word \in Nat \ {0} /\ p \in Int /\ p \in Nat
  BY Widths
<1>2. p \div Word \in Nat /\ p % Word \in 0 .. Word - 1 /\ p = Word * (p \div Word) + (p % Word)
  BY <1>1, Divided
<1> DEFINE a == p \div Word
<1> HIDE DEF a
<1>3. a \in Nat /\ Word * a <= p
  BY <1>1, <1>2 DEF a
<1>4. a < w
  <2> SUFFICES ASSUME w <= a PROVE FALSE
    BY <1>3
  <2>1. PICK d \in Nat: a = w + d
    <3>1. a - w \in Nat /\ a = w + (a - w)
      BY <1>3
    <3> QED
      BY <3>1
  <2>2. Word * a = Word * w + Word * d /\ Word * d \in Nat /\ Word * w \in Nat
    BY <1>1, <2>1
  <2> QED
    BY <1>1, <1>3, <2>2
<1> QED
  BY <1>2, <1>3, <1>4 DEF a

\* While elements or bits are left there is room for their word.
LEMMA WordFits ==
  ASSUME PackingTyped, Len(rounded) < Len(matrix) \/ floatingBits > 0
  PROVE  4 * Words + 4 <= Length /\ Words \in 0 .. Length \div 4 - 1
<1> DEFINE n == Len(matrix)
           m == Len(rounded)
<1>1. /\ n \in Nat /\ m \in Nat /\ m <= n /\ Words \in Nat /\ floatingBits \in Nat
      /\ Word * Words + floatingBits = m * Bits
  BY Widths DEF PackingTyped, Total
<1>2. Bits \in Nat \ {0} /\ Word * Words \in Nat
  BY <1>1, Widths
<1>3. Word * Words < n * Bits
  <2>1. PICK d \in Nat: n = m + d
    <3>1. n - m \in Nat /\ n = m + (n - m)
      BY <1>1
    <3> QED
      BY <3>1
  <2>2. n * Bits = m * Bits + d * Bits /\ d * Bits \in Nat /\ m * Bits \in Nat
    BY <1>1, <1>2, <2>1
  <2>3. d # 0 => d * Bits > 0
    BY <1>2, <2>1
  <2>4. d # 0 \/ floatingBits > 0
    BY <1>1, <2>1
  <2> HIDE DEF n, m
  <2> QED
    BY <1>1, <1>2, <2>2, <2>3, <2>4
<1>4. 4 * Words + 4 <= Length /\ \E c \in Nat: Length = 4 * (c + 1)
  BY <1>1, <1>3, Room DEF Length
<1>5. PICK c \in Nat: Length = 4 * (c + 1)
  BY <1>4
<1>6. Length \div 4 - 1 = c
  BY <1>5
<1> QED
  BY <1>1, <1>4, <1>5, <1>6

\* A joined element, word by word or afloat.
LEMMA PackPackingInv == ASSUME PackingInv, Pack PROVE PackingInv'
<1>1. /\ PackingTyped /\ Written /\ Afloat /\ stage = "pack" /\ stage' = "pack"
      /\ Len(rounded) < Len(matrix) /\ UNCHANGED <<matrix, switched>>
  BY DEF PackingInv, Pack
<1>2. PICK r \in Roundings(matrix[Len(rounded) + 1]):
        /\ rounded' = Append(rounded, r)
        /\ IF floatingBits + Bits >= Word
             THEN /\ output' = [output EXCEPT ![outputIndex \div 4] = Joined(r)]
                  /\ floatingBits' = floatingBits + Bits - Word
                  /\ floating' = Rest(r, floatingBits')
                  /\ outputIndex' = outputIndex + 4
             ELSE /\ floating' = Joined(r)
                  /\ floatingBits' = floatingBits + Bits
                  /\ UNCHANGED <<output, outputIndex>>
  BY DEF Pack
<1> DEFINE n == Len(rounded)
<1>3. /\ matrix \in Seq(Values) /\ rounded \in Seq(0 .. Power(2, Bits)) /\ n \in Nat
      /\ Len(matrix) \in Nat /\ \A i \in 1 .. n: rounded[i] \in Roundings(matrix[i])
      /\ floatingBits \in 0 .. Word - 1 /\ floating \in 0 .. Power(2, floatingBits + 1) - 1
      /\ Words \in Nat /\ outputIndex = 4 * Words /\ Word * Words + floatingBits = Total
      /\ output \in [0 .. Length \div 4 - 1 -> 0 .. Power(2, Word) - 1]
  BY <1>1 DEF PackingTyped
<1>4. r \in 0 .. Power(2, Bits)
  <2>1. matrix[n + 1] \in Values
    BY <1>1, <1>3
  <2>2. matrix[n + 1] \in 0 .. Power(2, Word) - 1
    BY <2>1, WidthAssumption
  <2> QED
    BY <1>2, <2>2, RoundingType
<1>5. /\ rounded' \in Seq(0 .. Power(2, Bits)) /\ Len(rounded') = n + 1
      /\ \A i \in 1 .. n: rounded'[i] = rounded[i]
      /\ rounded'[n + 1] = r
  BY <1>2, <1>3, <1>4
<1>6. Len(rounded') <= Len(matrix') /\ \A i \in 1 .. n + 1: rounded'[i] \in Roundings(matrix'[i])
  <2>1. \A i \in 1 .. n + 1: i \in 1 .. n \/ i = n + 1
    BY <1>3
  <2> QED
    BY <1>1, <1>2, <1>3, <1>5, <2>1
<1>7. /\ Word \in Nat \ {0} /\ Bits \in Nat \ {0} /\ Bits <= Word /\ floatingBits \in Nat
      /\ floatingBits < Word /\ Word * Words \in Nat /\ Total \in Nat
      /\ Total' = Total + Bits /\ Length' = Length
  <2>1. /\ Word \in Nat \ {0} /\ Bits \in Nat \ {0} /\ Bits <= Word
    BY Widths
  <2>2. floatingBits \in Nat /\ floatingBits < Word /\ Word * Words \in Nat /\ Total \in Nat
    BY <1>3, <2>1 DEF Total
  <2>3. (n + 1) * Bits = n * Bits + Bits
    BY <1>3, <2>1
  <2>4. Total' = Total + Bits
    BY <1>5, <2>3 DEF Total
  <2>5. Length' = Length
    BY <1>1 DEF Length
  <2> QED
    BY <2>1, <2>2, <2>4, <2>5
<1>8. /\ \A p \in 0 .. Total - 1: PackedOf(rounded', p) <=> IsPacked(p)
      /\ \A j \in 0 .. Bits: PackedOf(rounded', Total + j) <=> Bit(r, j) = 1 \/ (j = 0 /\ IsPacked(Total))
      /\ \A q \in 0 .. Word - 1: q <= floatingBits + Bits =>
           (Bit(Joined(r), q) = 1 <=> PackedOf(rounded', Word * Words + q))
  BY <1>1, <1>2, <1>4, JoinedPacked
<1>9. /\ Joined(r) \in 0 .. Power(2, Word) - 1
      /\ floatingBits + Bits < Word => Joined(r) \in 0 .. Power(2, floatingBits + Bits + 1) - 1
  BY <1>3, <1>4, JoinedBits
<1>10. \A p \in 0 .. Word * Words - 1: OutputBit(p) = 1 <=> PackedOf(rounded', p)
  <2>1. \A p \in 0 .. Word * Words - 1: p \in 0 .. Total - 1
    BY <1>3, <1>7
  <2> QED
    BY <1>1, <1>8, <2>1 DEF Written
<1>11. CASE floatingBits + Bits >= Word
  <2>1. /\ output' = [output EXCEPT ![Words] = Joined(r)]
        /\ floatingBits' = floatingBits + Bits - Word
        /\ floating' = Rest(r, floatingBits')
        /\ outputIndex' = 4 * (Words + 1)
    BY <1>2, <1>3, <1>11 DEF Words
  <2>2. Words' = Words + 1
    BY <1>3, <2>1 DEF Words
  <2>3. Words \in 0 .. Length \div 4 - 1
    BY <1>1, WordFits
  <2>4. output' \in [0 .. Length' \div 4 - 1 -> 0 .. Power(2, Word) - 1]
    BY <1>3, <1>7, <1>9, <2>1
  <2>5. /\ output'[Words] = Joined(r)
        /\ \A w \in 0 .. Words - 1: output'[w] = output[w]
    BY <1>3, <2>1, <2>3
  <2> DEFINE m == floatingBits + Bits - Word
  <2>6. m \in 0 .. Bits - 1 /\ m \in 0 .. Word - 1
    BY <1>7, <1>11
  <2>7. floating' \in 0 .. Power(2, floatingBits' + 1) - 1
        /\ \A q \in Nat: Bit(floating', q) = Bit(r, Bits - m + q)
    BY <1>4, <2>1, <2>6, RestBits
  <2>8. /\ Words + 1 \in Nat /\ Word * (Words + 1) = Word * Words + Word
        /\ Word * (Words + 1) + m = Total + Bits
    BY <1>3, <1>7
  <2>9. PackingTyped'
    BY <1>1, <1>3, <1>5, <1>6, <1>7, <2>1, <2>2, <2>4, <2>6, <2>7, <2>8 DEF PackingTyped
  <2>10. ASSUME NEW p \in 0 .. Word * (Words + 1) - 1
         PROVE  Bit(output'[p \div Word], p % Word) = 1 <=> PackedOf(rounded', p)
    <3>1. CASE p < Word * Words
      <4>1. p \in 0 .. Word * Words - 1
        BY <1>7, <2>8, <3>1
      <4>2. p \div Word \in 0 .. Words - 1
        BY <1>3, <4>1, EarlierWord
      <4> QED
        BY <1>10, <2>5, <4>1, <4>2 DEF OutputBit
    <3>2. CASE p >= Word * Words
      <4> DEFINE q == p - Word * Words
      <4>1. q \in 0 .. Word - 1 /\ p = Word * Words + q /\ q <= floatingBits + Bits
        <5> DEFINE a == Word * Words
        <5>1. p \in Int /\ a \in Nat /\ p < a + Word /\ p >= a /\ q = p - a
          BY <1>7, <2>8, <3>2
        <5> HIDE DEF a, q
        <5>2. q \in 0 .. Word - 1 /\ p = a + q
          BY <1>7, <5>1
        <5>3. q <= floatingBits + Bits
          BY <1>7, <1>11, <5>2
        <5> QED
          BY <5>2, <5>3 DEF a
      <4> HIDE DEF q
      <4>2. p \div Word = Words /\ p % Word = q
        BY <1>3, <4>1, WordPlace
      <4>3. Bit(Joined(r), q) = 1 <=> PackedOf(rounded', Word * Words + q)
        BY <1>8, <4>1
      <4>4. output'[p \div Word] = Joined(r)
        BY <2>5, <4>2
      <4>5. PackedOf(rounded', p) <=> PackedOf(rounded', Word * Words + q)
        BY <4>1
      <4>6. Bit(output'[p \div Word], p % Word) = Bit(Joined(r), q)
        BY <4>2, <4>4
      <4> QED
        BY <4>3, <4>5, <4>6
    <3>3. p \in Int /\ Word * Words \in Int
      BY <1>7, <2>8
    <3>4. p < Word * Words \/ p >= Word * Words
      BY <3>3
    <3> QED
      BY <3>1, <3>2, <3>4, Zenon
  <2>11. Written'
    BY <2>2, <2>10 DEF Written, OutputBit, IsPacked
  <2>12. ASSUME NEW q \in 0 .. m
         PROVE  Bit(floating', q) = 1 <=> PackedOf(rounded', Word * (Words + 1) + q)
    <3> DEFINE j == Bits - m + q
    <3>1. j \in 0 .. Bits /\ j # 0 /\ Word * (Words + 1) + q = Total + j /\ q \in Nat
      BY <1>3, <1>7, <2>6, <2>8
    <3>2. PackedOf(rounded', Total + j) <=> Bit(r, j) = 1
      <4> HIDE DEF j
      <4> QED
        BY <1>8, <3>1
    <3> QED
      BY <2>7, <3>1, <3>2
  <2>13. Afloat'
    BY <2>1, <2>2, <2>12 DEF Afloat, IsPacked
  <2> QED
    BY <1>1, <2>9, <2>11, <2>13 DEF PackingInv, Complete, AllUnpacked
<1>12. CASE floatingBits + Bits < Word
  <2>1. /\ floating' = Joined(r) /\ floatingBits' = floatingBits + Bits
        /\ UNCHANGED <<output, outputIndex>>
    BY <1>2, <1>7, <1>12
  <2>2. Words' = Words
    BY <2>1 DEF Words
  <2>3. /\ floatingBits' \in 0 .. Word - 1 /\ Word * Words + floatingBits' = Total + Bits
        /\ floating' \in 0 .. Power(2, floatingBits' + 1) - 1
    BY <1>3, <1>7, <1>9, <1>12, <2>1
  <2>4. PackingTyped'
    BY <1>1, <1>3, <1>5, <1>6, <1>7, <2>1, <2>2, <2>3 DEF PackingTyped
  <2>5. Written'
    BY <1>10, <2>1, <2>2 DEF Written, OutputBit, IsPacked
  <2>6. \A q \in 0 .. floatingBits': q \in 0 .. Word - 1 /\ q <= floatingBits + Bits
    BY <1>7, <1>12, <2>1
  <2>7. Afloat'
    BY <1>8, <2>1, <2>2, <2>6 DEF Afloat, IsPacked
  <2> QED
    BY <1>1, <2>4, <2>5, <2>7 DEF PackingInv, Complete, AllUnpacked
<1> QED
  BY <1>7, <1>11, <1>12

\* The bits left over go into the last word, but for the carry.
LEMMA FlushPackingInv == ASSUME PackingInv, Flush PROVE PackingInv'
<1>1. /\ PackingTyped /\ Written /\ Afloat /\ stage = "pack" /\ stage' = "unpack"
      /\ Len(rounded) = Len(matrix)
      /\ UNCHANGED <<matrix, rounded, floating, floatingBits, outputIndex, switched>>
      /\ output' = IF floatingBits > 0 THEN [output EXCEPT ![outputIndex \div 4] = floating] ELSE output
  BY DEF PackingInv, Flush
<1>2. /\ floatingBits \in 0 .. Word - 1 /\ floating \in 0 .. Power(2, floatingBits + 1) - 1
      /\ Words \in Nat /\ outputIndex = 4 * Words /\ Word * Words + floatingBits = Total
      /\ output \in [0 .. Length \div 4 - 1 -> 0 .. Power(2, Word) - 1]
  BY <1>1 DEF PackingTyped
<1>3. /\ Word \in Nat \ {0} /\ floatingBits \in Nat /\ floatingBits < Word
      /\ Word * Words \in Nat /\ Total \in Nat
  BY <1>2, Widths
<1>4. /\ Words' = Words /\ Total' = Total /\ Length' = Length
      /\ \A p: PackedOf(rounded', p) <=> IsPacked(p)
  BY <1>1 DEF Words, Total, Length, IsPacked
<1>5. ASSUME floatingBits > 0
      PROVE  /\ output' \in [0 .. Length \div 4 - 1 -> 0 .. Power(2, Word) - 1]
             /\ output'[Words] = floating
             /\ \A w \in 0 .. Words - 1: output'[w] = output[w]
  <2>1. Words \in 0 .. Length \div 4 - 1
    BY <1>1, <1>5, WordFits
  <2>2. output' = [output EXCEPT ![Words] = floating]
    BY <1>1, <1>5 DEF Words
  <2>3. floating \in 0 .. Power(2, Word) - 1
    <3> DEFINE m == floatingBits + 1
               d == Word - m
    <3>1. m \in Nat /\ d \in Nat /\ Word = m + d
      BY <1>3
    <3> HIDE DEF d, m
    <3>2. /\ Power(2, m) \in Nat \ {0} /\ Power(2, d) \in Nat \ {0}
          /\ Power(2, m + d) = Power(2, m) * Power(2, d)
      <4>1. Power(2, m) \in Nat \ {0} /\ Power(2, d) \in Nat \ {0}
        BY <3>1, PowerType
      <4>2. Power(2, m + d) = Power(2, m) * Power(2, d)
        BY <3>1, PowerAdds
      <4> QED
        BY <4>1, <4>2
    <3>3. \A a, b \in Nat \ {0}: a <= a * b
      <4> TAKE a, b \in Nat \ {0}
      <4>1. PICK c \in Nat: b = c + 1
        <5>1. b - 1 \in Nat /\ b = (b - 1) + 1
          OBVIOUS
        <5> QED
          BY <5>1
      <4>2. a * b = a * c + a /\ a * c \in Nat
        BY <4>1
      <4> QED
        BY <4>2
    <3>4. Power(2, m) <= Power(2, Word)
      <4>1. Power(2, m) <= Power(2, m) * Power(2, d)
        BY <3>2, <3>3
      <4>2. Power(2, Word) = Power(2, m + d)
        BY <3>1
      <4>3. Power(2, Word) = Power(2, m) * Power(2, d)
        BY <3>2, <4>2, Zenon
      <4> QED
        BY <4>1, <4>3, Zenon
    <3>5. floating \in 0 .. Power(2, m) - 1
      BY <1>2 DEF m
    <3>6. Power(2, Word) \in Nat
      BY <1>3, PowerType
    <3> QED
      BY <3>2, <3>4, <3>5, <3>6
  <2>4. output' \in [0 .. Length \div 4 - 1 -> 0 .. Power(2, Word) - 1]
    BY <1>2, <2>2, <2>3
  <2>5. output'[Words] = floating /\ \A w \in 0 .. Words - 1: output'[w] = output[w]
    BY <1>2, <2>1, <2>2
  <2> QED
    BY <2>4, <2>5
<1>6. output' \in [0 .. Length \div 4 - 1 -> 0 .. Power(2, Word) - 1]
      /\ \A w \in 0 .. Words - 1: output'[w] = output[w]
  BY <1>1, <1>2, <1>5
<1>7. PackingTyped'
  BY <1>1, <1>4, <1>6 DEF PackingTyped
<1>8. ASSUME NEW p \in 0 .. Total - 1
      PROVE  Bit(output'[p \div Word], p % Word) = 1 <=> IsPacked(p)
  <2>1. CASE p < Word * Words
    <3>1. p \in 0 .. Word * Words - 1
      BY <1>3, <2>1
    <3>2. p \div Word \in 0 .. Words - 1
      BY <1>2, <3>1, EarlierWord
    <3> QED
      BY <1>1, <1>6, <3>1, <3>2 DEF Written, OutputBit
  <2>2. CASE p >= Word * Words
    <3> DEFINE q == p - Word * Words
    <3>1. q \in 0 .. Word - 1 /\ p = Word * Words + q /\ q \in 0 .. floatingBits /\ floatingBits > 0
      BY <1>2, <1>3, <2>2
    <3> HIDE DEF q
    <3>2. p \div Word = Words /\ p % Word = q
      BY <1>2, <3>1, WordPlace
    <3> QED
      BY <1>1, <1>5, <3>1, <3>2 DEF Afloat
  <2> QED
    BY <1>3, <2>1, <2>2
<1>9. Complete'
  BY <1>4, <1>8 DEF Complete, OutputBit, IsPacked
<1> QED
  BY <1>1, <1>7, <1>9 DEF PackingInv, Written, Afloat, AllUnpacked

\* Unpacking, ending and standing still change nothing that was packed.
LEMMA RestPackingInv ==
  ASSUME PackingInv, Unpack \/ PackingEnded \/ UNCHANGED packingVars
  PROVE  PackingInv'
<1>1. UNCHANGED <<matrix, rounded, floating, floatingBits, outputIndex, output>>
  BY DEF Unpack, PackingEnded, packingVars
<1>2. \/ stage' = stage /\ switched' = switched
      \/ /\ stage = "unpack" /\ stage' = "done"
         /\ switched' = [i \in 1 .. Len(matrix) |-> UnpackOne(i)]
  BY DEF Unpack, PackingEnded, packingVars
<1>3. Words' = Words /\ Total' = Total /\ Length' = Length
  BY <1>1 DEF Words, Total, Length
<1>4. PackingTyped'
  BY <1>1, <1>2, <1>3 DEF PackingInv, PackingTyped
<1>5. Written' /\ Afloat' /\ Complete'
  BY <1>1, <1>2, <1>3 DEF PackingInv, Written, Afloat, Complete, OutputBit, IsPacked
<1>6. \A i: UnpackOne(i)' = UnpackOne(i)
  BY <1>1 DEF UnpackOne, WordAt, ByteAt
<1>7. AllUnpacked'
  BY <1>1, <1>2, <1>6 DEF PackingInv, AllUnpacked
<1> QED
  BY <1>4, <1>5, <1>7 DEF PackingInv

\* The invariant holds throughout.
THEOREM PackingInvariant == PackingSpec => []PackingInv
<1>1. PackingInv /\ [PackingNext]_packingVars => PackingInv'
  BY PackPackingInv, FlushPackingInv, RestPackingInv DEF PackingNext
<1> QED
  BY PackingInitInv, <1>1, PTL DEF PackingSpec

\* Types: what is afloat has at most one bit more than is counted, and the
\* bits written and afloat are those of the elements so far.
THEOREM PackingTypes == PackingSpec => []PackingTypeOK
<1>1. PackingInv => PackingTypeOK
  <2> SUFFICES ASSUME PackingInv PROVE PackingTypeOK
    OBVIOUS
  <2>1. PackingTyped
    BY DEF PackingInv
  <2>2. outputIndex * Byte + floatingBits = Len(rounded) * Bits
    <3>1. /\ Words \in Nat /\ outputIndex = 4 * Words /\ floatingBits \in Nat
          /\ Word * Words + floatingBits = Len(rounded) * Bits
      BY <2>1, Widths DEF PackingTyped, Total
    <3>2. Word = 4 * Byte /\ Byte \in Nat
      BY Widths
    <3>3. (4 * Words) * Byte = (4 * Byte) * Words
      BY <3>1, <3>2
    <3>4. outputIndex * Byte = Word * Words
      BY <3>1, <3>2, <3>3, Zenon
    <3> QED
      BY <3>1, <3>4, Zenon
  <2>3. \A i \in 1 .. Len(rounded): rounded[i] \in 0 .. Power(2, Bits)
    <3> DEFINE all == 0 .. Power(2, Bits)
    <3>1. rounded \in Seq(all)
      BY <2>1 DEF PackingTyped
    <3> HIDE DEF all
    <3>2. \A i \in 1 .. Len(rounded): rounded[i] \in all
      BY <3>1
    <3> QED
      BY <3>2 DEF all
  <2> QED
    BY <2>1, <2>2, <2>3 DEF PackingTyped, PackingTypeOK
<1> QED
  BY PackingInvariant, <1>1, PTL

\* No word is written or read behind the end of the message, whose length both
\* sides compute on their own (ModuloSwitchLength).
THEOREM PackingStaysInside == PackingSpec => []StaysInside
<1>1. PackingInv => StaysInside
  <2> SUFFICES ASSUME PackingInv PROVE StaysInside
    OBVIOUS
  <2>1. PackingTyped /\ outputIndex = 4 * Words /\ Len(matrix) \in Nat
    BY DEF PackingInv, PackingTyped
  <2>2. Len(rounded) < Len(matrix) \/ floatingBits > 0 => outputIndex + 4 <= Length
    BY <2>1, WordFits
  <2>3. matrix # <<>> => StartBit(Len(matrix)) \div Byte + 4 <= Length
    <3>1. matrix # <<>> => Len(matrix) # 0
      BY <2>1 DEF PackingTyped
    <3> QED
      BY <2>1, <3>1, Room DEF Length
  <2> QED
    BY <2>2, <2>3 DEF StaysInside
<1> QED
  BY PackingInvariant, <1>1, PTL

\* The bits of a byte of the message.
LEMMA ByteBits ==
  ASSUME NEW k \in Nat, output[k \div 4] \in Nat
  PROVE  /\ ByteAt(k) \in 0 .. Power(2, Byte) - 1
         /\ \A q \in 0 .. Byte - 1: Bit(ByteAt(k), q) = OutputBit(Byte * k + q)
<1>1. PICK w \in Nat, v \in 0 .. 3: k = 4 * w + v /\ k \div 4 = w /\ k % 4 = v
  <2>1. k \div 4 \in Nat /\ k % 4 \in 0 .. 3 /\ k = 4 * (k \div 4) + (k % 4)
    OBVIOUS
  <2> QED
    BY <2>1
<1> DEFINE d == Byte * v
           y == output[w] \div Power(2, d)
<1>2. Byte \in Nat /\ Word = 4 * Byte /\ d \in Nat /\ d + Byte <= Word
  <2>1. Byte \in Nat /\ Word = 4 * Byte
    BY Widths
  <2>2. v = 0 \/ v = 1 \/ v = 2 \/ v = 3
    OBVIOUS
  <2> QED
    BY <2>1, <2>2
<1>3. output[w] \in Nat
  BY <1>1
<1> HIDE DEF d
<1>4. y \in Nat /\ \A q \in Nat: Bit(y, q) = Bit(output[w], d + q)
  <2> DEFINE o == output[w]
  <2>1. d \in Nat /\ o \in Nat
    BY <1>2, <1>3
  <2> HIDE DEF o
  <2>2. \A q \in Nat: o \div Power(2, d) \in Nat /\ Bit(o \div Power(2, d), q) = Bit(o, d + q)
    BY <2>1, BitDivided, Zenon
  <2> QED
    BY <2>1, <2>2 DEF o
<1> HIDE DEF y
<1>5. /\ y % Power(2, Byte) \in 0 .. Power(2, Byte) - 1
      /\ \A q \in Nat: Bit(y % Power(2, Byte), q) = IF q < Byte THEN Bit(y, q) ELSE 0
  <2>1. Byte \in Nat /\ y \in Nat
    BY <1>2, <1>4
  <2> QED
    BY <2>1, BitCut, Zenon
<1>6. ByteAt(k) = y % Power(2, Byte)
  BY <1>1 DEF ByteAt, y, d
<1>7. ASSUME NEW q \in 0 .. Byte - 1 PROVE Bit(output[w], d + q) = OutputBit(Byte * k + q)
  <2>1. d + q \in 0 .. Word - 1
    BY <1>2
  <2>2. Byte * k + q = Word * w + (d + q)
    <3>1. Byte * k = 4 * (Byte * w) + Byte * v
      BY <1>1, <1>2
    <3>2. (4 * Byte) * w = 4 * (Byte * w)
      BY <1>2
    <3>3. Byte * w \in Int
      BY <1>2
    <3> QED
      BY <1>2, <3>1, <3>2, <3>3 DEF d
  <2>3. (Word * w + (d + q)) \div Word = w /\ (Word * w + (d + q)) % Word = d + q
    BY <2>1, WordPlace
  <2> QED
    BY <2>2, <2>3, Zenon DEF OutputBit
<1>8. \A q \in 0 .. Byte - 1: q \in Nat /\ q < Byte
  BY <1>2
<1> QED
  BY <1>4, <1>5, <1>6, <1>7, <1>8

\* The bits of the four bytes from byte k on.
LEMMA WordBits ==
  ASSUME NEW k \in Nat, \A v \in 0 .. 3: output[(k + v) \div 4] \in Nat
  PROVE  /\ WordAt(k) \in Nat
         /\ \A q \in 0 .. Word - 1: Bit(WordAt(k), q) = OutputBit(Byte * k + q)
<1> DEFINE B(v) == ByteAt(k + v)
           p == Power(2, Byte)
<1>1. Byte \in Nat /\ Word = 4 * Byte /\ p \in Nat \ {0}
  BY Widths, PowerType
<1>2. ASSUME NEW v \in 0 .. 3
      PROVE  /\ B(v) \in 0 .. p - 1
             /\ \A q \in 0 .. Byte - 1: Bit(B(v), q) = OutputBit(Byte * (k + v) + q)
  BY ByteBits
<1> DEFINE a == B(0)
           b == B(1)
           c == B(2)
           d == B(3)
           z == c + p * d
           y == b + p * z
           x == a + p * y
<1>3. /\ a \in 0 .. p - 1 /\ b \in 0 .. p - 1 /\ c \in 0 .. p - 1 /\ d \in 0 .. p - 1
      /\ a \in Nat /\ b \in Nat /\ c \in Nat /\ d \in Nat
  <2>1. a \in 0 .. p - 1 /\ b \in 0 .. p - 1 /\ c \in 0 .. p - 1 /\ d \in 0 .. p - 1
    BY <1>2
  <2> QED
    BY <2>1, <1>1
<1>4. /\ \A q \in 0 .. Byte - 1: Bit(a, q) = OutputBit(Byte * (k + 0) + q)
      /\ \A q \in 0 .. Byte - 1: Bit(b, q) = OutputBit(Byte * (k + 1) + q)
      /\ \A q \in 0 .. Byte - 1: Bit(c, q) = OutputBit(Byte * (k + 2) + q)
      /\ \A q \in 0 .. Byte - 1: Bit(d, q) = OutputBit(Byte * (k + 3) + q)
  BY <1>2
<1>5. WordAt(k) = x
  <2>1. Power(2, 2 * Byte) = p * p /\ Power(2, 3 * Byte) = p * (p * p)
    <3>1. 2 * Byte = Byte + Byte /\ 3 * Byte = Byte + 2 * Byte /\ 2 * Byte \in Nat
      BY <1>1
    <3>2. Power(2, Byte + Byte) = p * p
      BY <1>1, PowerAdds
    <3>3. Power(2, Byte + 2 * Byte) = p * Power(2, 2 * Byte)
      <4> DEFINE n == 2 * Byte
      <4>1. n \in Nat
        BY <3>1
      <4> HIDE DEF n
      <4>2. Power(2, Byte + n) = p * Power(2, n)
        BY <1>1, <4>1, PowerAdds
      <4> QED
        BY <4>2 DEF n
    <3> QED
      BY <3>1, <3>2, <3>3
  <2>2. WordAt(k) = a + p * b + (p * p) * c + (p * (p * p)) * d
    <3>1. k + 0 = k
      OBVIOUS
    <3> QED
      BY <2>1, <3>1 DEF WordAt
  <2> HIDE DEF a, b, c, d, p
  <2>3. p * z = p * c + (p * p) * d /\ p * z \in Int
    BY <1>1, <1>3
  <2>4. p * y = p * b + p * (p * z)
    BY <1>1, <1>3, <2>3
  <2>5. p * (p * z) = (p * p) * c + (p * (p * p)) * d
    <3>1. p * (p * z) = (p * p) * z
      BY <1>1, <1>3
    <3>2. (p * p) * z = (p * p) * c + (p * p) * (p * d)
      BY <1>1, <1>3
    <3>3. (p * p) * (p * d) = (p * (p * p)) * d
      BY <1>1, <1>3
    <3> QED
      BY <3>1, <3>2, <3>3, Zenon
  <2>6. p * b \in Int /\ (p * p) * c \in Int /\ (p * (p * p)) * d \in Int
    BY <1>1, <1>3
  <2>7. x = a + (p * b + ((p * p) * c + (p * (p * p)) * d))
    BY <2>4, <2>5, Zenon
  <2> QED
    BY <1>3, <2>2, <2>6, <2>7
<1> HIDE DEF a, b, c, d
<1>6. z \in Nat /\ \A q \in Nat: Bit(z, q) = IF q < Byte THEN Bit(c, q) ELSE Bit(d, q - Byte)
  BY <1>1, <1>3, BitJoined
<1> HIDE DEF z
<1>7. y \in Nat /\ \A q \in Nat: Bit(y, q) = IF q < Byte THEN Bit(b, q) ELSE Bit(z, q - Byte)
  BY <1>1, <1>3, <1>6, BitJoined
<1> HIDE DEF y
<1>8. x \in Nat /\ \A q \in Nat: Bit(x, q) = IF q < Byte THEN Bit(a, q) ELSE Bit(y, q - Byte)
  BY <1>1, <1>3, <1>7, BitJoined
<1> HIDE DEF x, p
<1>9. ASSUME NEW q \in 0 .. Word - 1 PROVE Bit(x, q) = OutputBit(Byte * k + q)
  <2>1. q \in Nat /\ q < 4 * Byte
    BY <1>1
  <2>2. /\ Byte * (k + 1) = Byte * k + Byte /\ Byte * (k + 2) = Byte * k + 2 * Byte
        /\ Byte * (k + 3) = Byte * k + 3 * Byte /\ Byte * k \in Nat /\ k + 0 = k
    BY <1>1
  <2>3. CASE q < Byte
    <3>1. q \in 0 .. Byte - 1
      BY <1>1, <2>1, <2>3
    <3> QED
      BY <1>4, <1>8, <2>1, <2>2, <2>3, <3>1
  <2>4. CASE Byte <= q /\ q < 2 * Byte
    <3> DEFINE r == q - Byte
    <3>1. r \in 0 .. Byte - 1 /\ r \in Nat /\ r < Byte /\ ~(q < Byte) /\ Byte * (k + 1) + r = Byte * k + q
      BY <1>1, <2>1, <2>2, <2>4
    <3>2. Bit(x, q) = Bit(y, r)
      BY <1>8, <2>1, <3>1
    <3> HIDE DEF r
    <3>3. Bit(y, r) = Bit(b, r)
      BY <1>7, <3>1
    <3>4. Bit(b, r) = OutputBit(Byte * (k + 1) + r)
      BY <1>4, <3>1
    <3> QED
      BY <3>1, <3>2, <3>3, <3>4
  <2>5. CASE 2 * Byte <= q /\ q < 3 * Byte
    <3> DEFINE s == q - Byte
               r == s - Byte
    <3>1. /\ r \in 0 .. Byte - 1 /\ r \in Nat /\ r < Byte /\ ~(q < Byte)
          /\ s \in Nat /\ ~(s < Byte) /\ Byte * (k + 2) + r = Byte * k + q
      BY <1>1, <2>1, <2>2, <2>5
    <3>2. Bit(x, q) = Bit(y, s)
      BY <1>8, <2>1, <3>1
    <3> HIDE DEF s
    <3>3. Bit(y, s) = Bit(z, r)
      BY <1>7, <3>1
    <3> HIDE DEF r
    <3>4. Bit(z, r) = Bit(c, r)
      BY <1>6, <3>1
    <3>5. Bit(c, r) = OutputBit(Byte * (k + 2) + r)
      BY <1>4, <3>1
    <3> QED
      BY <3>1, <3>2, <3>3, <3>4, <3>5
  <2>6. CASE 3 * Byte <= q
    <3> DEFINE t == q - Byte
               s == t - Byte
               r == s - Byte
    <3>1. /\ r \in 0 .. Byte - 1 /\ ~(q < Byte) /\ t \in Nat /\ ~(t < Byte)
          /\ s \in Nat /\ ~(s < Byte) /\ Byte * (k + 3) + r = Byte * k + q
      BY <1>1, <2>1, <2>2, <2>6
    <3>2. Bit(x, q) = Bit(y, t)
      BY <1>8, <2>1, <3>1
    <3> HIDE DEF t
    <3>3. Bit(y, t) = Bit(z, s)
      BY <1>7, <3>1
    <3> HIDE DEF s
    <3>4. Bit(z, s) = Bit(d, r)
      BY <1>6, <3>1
    <3> HIDE DEF r
    <3>5. Bit(d, r) = OutputBit(Byte * (k + 3) + r)
      BY <1>4, <3>1
    <3> QED
      BY <3>1, <3>2, <3>3, <3>4, <3>5
  <2>7. q < Byte \/ (Byte <= q /\ q < 2 * Byte) \/ (2 * Byte <= q /\ q < 3 * Byte) \/ 3 * Byte <= q
    BY <1>1, <2>1
  <2> QED
    BY <2>3, <2>4, <2>5, <2>6, <2>7
<1> QED
  BY <1>5, <1>8, <1>9

\* The four bytes an element is read from are all there.
LEMMA ReadFits ==
  ASSUME PackingTyped, NEW i \in 1 .. Len(matrix)
  PROVE  /\ StartBit(i) \in Nat /\ StartBit(i) \div Byte \in Nat
         /\ StartBit(i) + Bits <= Len(matrix) * Bits
         /\ \A v \in 0 .. 3: output[(StartBit(i) \div Byte + v) \div 4] \in Nat
<1> DEFINE n == Len(matrix)
           s == StartBit(i)
           t == StartBit(n)
           k == s \div Byte
           l == t \div Byte
<1>1. n \in Nat /\ i \in Nat /\ i <= n /\ n # 0 /\ Byte \in Nat \ {0} /\ Bits \in Nat
  BY Widths DEF PackingTyped
<1> HIDE DEF n
<1>2. s \in Nat /\ t \in Nat /\ s <= t /\ t + Bits = n * Bits
  <2>1. PICK d \in Nat: n = i + d
    <3>1. n - i \in Nat /\ n = i + (n - i)
      BY <1>1
    <3> QED
      BY <3>1
  <2>2. i - 1 \in Nat /\ n - 1 \in Nat
    BY <1>1
  <2>3. (n - 1) * Bits = (i - 1) * Bits + d * Bits /\ d * Bits \in Nat
        /\ (i - 1) * Bits \in Nat /\ (n - 1) * Bits + Bits = n * Bits
    BY <1>1, <2>1, <2>2
  <2> QED
    BY <2>3 DEF StartBit
<1> HIDE DEF s, t
<1>3. k \in Nat /\ l \in Nat /\ k <= l
  <2>1. /\ k \in Nat /\ s % Byte \in 0 .. Byte - 1 /\ s = Byte * k + (s % Byte)
        /\ l \in Nat /\ t % Byte \in 0 .. Byte - 1 /\ t = Byte * l + (t % Byte)
    <3>1. s \in Int /\ t \in Int
      BY <1>2
    <3> QED
      BY <1>1, <1>2, <3>1, Divided
  <2> HIDE DEF k, l
  <2>2. k <= l
    <3> SUFFICES ASSUME l + 1 <= k PROVE FALSE
      BY <2>1
    <3>1. PICK d \in Nat: k = l + 1 + d
      <4>1. k - l - 1 \in Nat /\ k = l + 1 + (k - l - 1)
        BY <2>1
      <4> QED
        BY <4>1
    <3>2. Byte * k = Byte * l + Byte + Byte * d /\ Byte * d \in Nat /\ Byte * l \in Nat
      BY <1>1, <2>1, <3>1
    <3> QED
      BY <1>1, <1>2, <2>1, <3>2
  <2> QED
    BY <2>1, <2>2
<1>4. l + 4 <= Length /\ \E c \in Nat: Length = 4 * (c + 1)
  BY <1>1, Room DEF Length, n, l, t
<1> HIDE DEF k, l
<1>5. PICK c \in Nat: Length = 4 * (c + 1)
  BY <1>4
<1>6. ASSUME NEW v \in 0 .. 3 PROVE output[(k + v) \div 4] \in Nat
  <2>1. (k + v) \div 4 \in 0 .. c
    BY <1>3, <1>4, <1>5
  <2>2. Length \div 4 - 1 = c
    BY <1>5
  <2>3. output \in [0 .. c -> 0 .. Power(2, Word) - 1]
    BY <2>2 DEF PackingTyped
  <2>4. output[(k + v) \div 4] \in 0 .. Power(2, Word) - 1
    BY <2>1, <2>3
  <2>5. Power(2, Word) \in Nat
    BY Widths, PowerType
  <2> QED
    BY <2>4, <2>5
<1> QED
  BY <1>1, <1>2, <1>3, <1>6 DEF n, s, k

\* What comes back of an element has the bits found where it started.
LEMMA UnpackedBits ==
  ASSUME PackingTyped, NEW i \in 1 .. Len(matrix)
  PROVE  \E z \in 0 .. Power(2, Bits) - 1:
           /\ UnpackOne(i) = z * OneUnit
           /\ \A q \in 0 .. Bits - 1: Bit(z, q) = OutputBit(StartBit(i) + q)
<1> DEFINE s == StartBit(i)
           k == s \div Byte
           d == s % Byte
           x == WordAt(k)
           t == x \div Power(2, d)
           w == Power(2, Bits)
           u == OneUnit
           z == t % w
<1>1. /\ Byte \in Nat \ {0} /\ Bits \in Nat /\ Word \in Nat /\ Bits + Byte - 1 <= Word
      /\ s \in Nat /\ k \in Nat /\ \A v \in 0 .. 3: output[(k + v) \div 4] \in Nat
  BY Widths, ReadFits
<1>2. d \in 0 .. Byte - 1 /\ d \in Nat /\ s = Byte * k + d
  <2> HIDE DEF s
  <2>1. s \in Int
    BY <1>1
  <2>2. s % Byte \in 0 .. Byte - 1 /\ s = Byte * (s \div Byte) + (s % Byte)
    BY <1>1, <2>1, Divided
  <2> QED
    BY <1>1, <2>2
<1> HIDE DEF k, d
<1>3. x \in Nat /\ \A q \in 0 .. Word - 1: Bit(x, q) = OutputBit(Byte * k + q)
  BY <1>1, WordBits
<1> HIDE DEF x
<1>4. t \in Nat /\ \A q \in Nat: Bit(t, q) = Bit(x, d + q)
  BY <1>2, <1>3, BitDivided
<1> HIDE DEF t
<1>5. z \in 0 .. w - 1 /\ \A q \in Nat: Bit(z, q) = IF q < Bits THEN Bit(t, q) ELSE 0
  <2>1. Bits \in Nat /\ t \in Nat
    BY <1>1, <1>4
  <2> QED
    BY <2>1, BitCut, Zenon
<1>6. ASSUME NEW q \in 0 .. Bits - 1 PROVE Bit(z, q) = OutputBit(s + q)
  <2>1. q \in Nat /\ q < Bits /\ d + q \in 0 .. Word - 1
    BY <1>1, <1>2
  <2>2. Byte * k + (d + q) = s + q
    <3>1. Byte * k \in Int
      BY <1>1
    <3> HIDE DEF s
    <3> QED
      BY <1>1, <1>2, <2>1, <3>1
  <2>3. Bit(x, d + q) = OutputBit(Byte * k + (d + q))
    BY <1>3, <2>1
  <2>4. Bit(z, q) = Bit(x, d + q)
    BY <1>4, <1>5, <2>1
  <2> QED
    BY <2>2, <2>3, <2>4
<1>7. u \in Nat \ {0} /\ w \in Nat \ {0} /\ Power(2, Word) = w * u
  <2>1. Power(2, Word) \in Nat \ {0}
    BY Widths, PowerType
  <2>2. 0 \in 0 .. Power(2, Word) - 1
    BY <2>1
  <2>3. OneUnit \in Nat \ {0} /\ Power(2, Word) = Power(2, Bits) * OneUnit
    BY <2>2, RoundingType
  <2> QED
    BY <1>1, <2>3, PowerType
<1>8. UnpackOne(i) = (t * u) % Power(2, Word)
  BY DEF UnpackOne, Shift, t, x, k, d, u, s
<1>9. (t * u) % (w * u) = z * u
  <2> HIDE DEF u, w
  <2>1. PICK c \in Nat: t = w * c + z
    <3>1. t \in Int
      BY <1>4
    <3>2. t \div w \in Nat /\ t = w * (t \div w) + (t % w)
      BY <1>4, <1>7, <3>1, Divided
    <3> QED
      BY <3>2
  <2> HIDE DEF z
  <2>2. z \in Nat /\ z <= w - 1
    BY <1>5, <1>7
  <2>3. t * u = (w * u) * c + z * u
    <3>1. (w * c + z) * u = (w * c) * u + z * u
      BY <1>7, <2>2
    <3>2. (w * c) * u = (w * u) * c
      BY <1>7
    <3> QED
      BY <2>1, <3>1, <3>2
  <2>4. z * u \in 0 .. w * u - 1 /\ w * u \in Nat \ {0}
    <3>1. PICK e \in Nat: w = z + 1 + e
      <4>1. w - z - 1 \in Nat /\ w = z + 1 + (w - z - 1)
        BY <1>7, <2>2
      <4> QED
        BY <4>1
    <3>2. w * u = z * u + u + e * u /\ e * u \in Nat /\ z * u \in Nat
      BY <1>7, <2>2, <3>1
    <3> QED
      BY <1>7, <3>2
  <2> DEFINE m == w * u
             r == z * u
  <2> HIDE DEF m, r
  <2>5. m \in Nat \ {0} /\ r \in 0 .. m - 1
    BY <2>4 DEF m, r
  <2>6. (m * c + r) % m = r
    BY <2>5, Quotient
  <2> QED
    BY <2>3, <2>6 DEF m, r
<1>10. UnpackOne(i) = z * u
  BY <1>7, <1>8, <1>9
<1> QED
  BY <1>5, <1>6, <1>10

\* The modulus keeps the bits below it.
LEMMA SameCut ==
  ASSUME NEW x \in Nat, NEW z \in 0 .. Power(2, Bits) - 1,
         \A q \in 0 .. Bits - 1: Bit(z, q) = 1 <=> Bit(x, q) = 1
  PROVE  z = x % Power(2, Bits)
<1> DEFINE y == x % Power(2, Bits)
<1>1. Bits \in Nat /\ Power(2, Bits) \in Nat
  BY Widths, PowerType
<1>2. z \in Nat
  BY <1>1
<1>3. y \in 0 .. Power(2, Bits) - 1 /\ \A q \in Nat: Bit(y, q) = IF q < Bits THEN Bit(x, q) ELSE 0
  BY <1>1, BitCut
<1> HIDE DEF y
<1>4. ASSUME NEW q \in 0 .. Bits - 1 PROVE Bit(z, q) = Bit(y, q)
  <2>1. q \in Nat /\ q < Bits
    BY <1>1
  <2>2. Bit(z, q) \in {0, 1} /\ Bit(x, q) \in {0, 1} /\ (Bit(z, q) = 1 <=> Bit(x, q) = 1)
    BY <1>2, <2>1, BitType
  <2>3. Bit(y, q) = Bit(x, q)
    BY <1>3, <2>1
  <2> QED
    BY <2>2, <2>3
<1>5. z = y
  BY <1>1, <1>3, <1>4, SameBits
<1> QED
  BY <1>5 DEF y

\* Each element comes back as its rounding, with the carry of the one before.
LEMMA CameBack ==
  ASSUME PackingInv, stage = "done", NEW i \in 1 .. Len(matrix)
  PROVE  \/ switched[i] = (rounded[i] % Power(2, Bits)) * OneUnit
         \/ /\ i > 1 /\ rounded[i - 1] = Power(2, Bits)
            /\ switched[i] = (Or(rounded[i], 1) % Power(2, Bits)) * OneUnit
<1> DEFINE n == Len(matrix)
           r == rounded[i]
<1>1. /\ PackingTyped /\ Len(rounded) = n /\ Total = n * Bits /\ switched[i] = UnpackOne(i)
      /\ \A p \in 0 .. Total - 1: OutputBit(p) = 1 <=> IsPacked(p)
  BY DEF PackingInv, PackingTyped, Complete, AllUnpacked, Total
<1>2. n \in Nat /\ i \in Nat /\ i >= 1 /\ i <= n /\ Bits \in Nat \ {0}
  BY <1>1, Widths DEF PackingTyped
<1>3. r \in 0 .. Power(2, Bits) /\ r \in Nat
  <2> DEFINE all == 0 .. Power(2, Bits)
  <2>1. rounded \in Seq(all) /\ i \in 1 .. Len(rounded)
    BY <1>1 DEF PackingTyped
  <2> HIDE DEF all
  <2>2. rounded[i] \in all
    BY <2>1
  <2>3. Power(2, Bits) \in Nat
    BY <1>2, PowerType
  <2> QED
    BY <2>2, <2>3 DEF all
<1>4. PICK z \in 0 .. Power(2, Bits) - 1:
        /\ UnpackOne(i) = z * OneUnit
        /\ \A q \in 0 .. Bits - 1: Bit(z, q) = OutputBit(StartBit(i) + q)
  BY <1>1, UnpackedBits
<1> DEFINE e == i - 1
           carry == e \in 1 .. n /\ rounded[e] = Power(2, Bits)
<1>5. e \in Nat /\ e + 1 = i /\ StartBit(i) = e * Bits /\ e * Bits \in Nat
      /\ e * Bits + Bits <= Total
  <2>1. StartBit(i) \in Nat /\ StartBit(i) + Bits <= n * Bits
    BY <1>1, ReadFits
  <2>2. StartBit(i) = e * Bits
    BY DEF StartBit
  <2> QED
    BY <1>1, <1>2, <2>1, <2>2
<1> HIDE DEF e, n
<1>6. ASSUME NEW q \in 0 .. Bits - 1 PROVE Bit(z, q) = 1 <=> Bit(r, q) = 1 \/ (q = 0 /\ carry)
  <2>1. e * Bits + q \in 0 .. Total - 1
    <3>1. Total \in Int
      BY <1>1, <1>2
    <3> QED
      BY <1>2, <1>5, <3>1
  <2>2. OutputBit(e * Bits + q) = 1 <=> PackedOf(rounded, e * Bits + q)
    BY <1>1, <2>1 DEF IsPacked
  <2>3. PackedOf(rounded, e * Bits + q) <=>
           \/ e + 1 \in 1 .. Len(rounded) /\ Bit(rounded[e + 1], q) = 1
           \/ q = 0 /\ e \in 1 .. Len(rounded) /\ rounded[e] = Power(2, Bits)
    BY <1>5, PackedPlace
  <2>4. e + 1 \in 1 .. Len(rounded)
    BY <1>1, <1>2, <1>5
  <2>5. PackedOf(rounded, e * Bits + q) <=> Bit(r, q) = 1 \/ (q = 0 /\ carry)
    BY <1>1, <1>5, <2>3, <2>4
  <2>6. Bit(z, q) = OutputBit(e * Bits + q)
    BY <1>4, <1>5
  <2> QED
    BY <2>2, <2>5, <2>6
<1> HIDE DEF r
<1>7. CASE ~carry
  <2>1. z = r % Power(2, Bits)
    BY <1>3, <1>6, <1>7, SameCut
  <2> QED
    BY <1>1, <1>4, <2>1 DEF r
<1>8. CASE carry
  <2> DEFINE one == 1
             y == Or(r, one)
  <2>1. one \in Nat /\ Word \in Nat /\ Bits <= Word
    BY Widths
  <2> HIDE DEF one
  <2>2. y \in 0 .. Power(2, Word + 1) - 1 /\ \A q \in 0 .. Word: Bit(y, q) = 1 <=> Bit(r, q) = 1 \/ Bit(one, q) = 1
    BY <1>3, <2>1, OrBits
  <2> HIDE DEF y
  <2>3. y \in Nat
    <3>1. Power(2, Word + 1) \in Nat
      BY <2>1, TwoOneMore
    <3> QED
      BY <2>2, <3>1
  <2>4. ASSUME NEW q \in 0 .. Bits - 1 PROVE Bit(z, q) = 1 <=> Bit(y, q) = 1
    <3>1. q \in 0 .. Word /\ q \in Nat
      BY <1>2, <2>1
    <3>2. Bit(one, q) = 1 <=> q = 0
      BY <3>1, BitOfOne DEF one
    <3> QED
      BY <1>6, <1>8, <2>2, <3>1, <3>2
  <2>5. z = y % Power(2, Bits)
    BY <2>3, <2>4, SameCut
  <2>6. i > 1 /\ rounded[i - 1] = Power(2, Bits)
    BY <1>2, <1>8 DEF e
  <2> QED
    BY <1>1, <1>4, <2>5, <2>6 DEF y, one, r
<1> QED
  BY <1>7, <1>8

\* Only the last bit of an element is ever disturbed, and only by a carry; what
\* follows is not.
THEOREM PackingComesBackRounded == PackingSpec => []ComesBackRounded
<1>1. PackingInv => ComesBackRounded
  BY CameBack DEF ComesBackRounded
<1> QED
  BY PackingInvariant, <1>1, PTL

\* Setting the last bit adds at most one.
LEMMA OrOne ==
  ASSUME NEW r \in 0 .. Power(2, Bits)
  PROVE  Or(r, 1) \in {r, r + 1}
<1> DEFINE one == 1
           none == 0
           y == Or(r, one)
           m == Word + 1
           h == r \div 2
<1>1. /\ one \in Nat /\ none \in Nat /\ Word \in Nat \ {0} /\ Bits \in Nat /\ Bits <= Word
      /\ r \in Nat /\ m \in Nat
  BY Widths, RoundedBits
<1>2. /\ y \in 0 .. Power(2, m) - 1
      /\ \A k \in 0 .. m - 1: Bit(y, k) = 1 <=> Bit(r, k) = 1 \/ k = 0
  <2>1. \A k \in 0 .. Word: Bit(one, k) = 1 <=> k = 0
    BY <1>1, BitOfOne
  <2> HIDE DEF one
  <2>2. /\ y \in 0 .. Power(2, Word + 1) - 1
        /\ \A k \in 0 .. Word: Bit(y, k) = 1 <=> Bit(r, k) = 1 \/ Bit(one, k) = 1
    BY <1>1, OrBits
  <2>3. \A k \in 0 .. m - 1: k \in 0 .. Word
    BY <1>1
  <2> QED
    BY <2>1, <2>2, <2>3
<1>3. Power(2, 1) = 2 /\ h \in Nat
  BY <1>1, PowerOne
<1>4. ASSUME NEW a \in {0, 1}
      PROVE  /\ a + 2 * h \in Nat
             /\ \A k \in Nat: Bit(a + 2 * h, k) = IF k < 1 THEN Bit(a, k) ELSE Bit(h, k - 1)
  <2>1. a \in 0 .. Power(2, one) - 1
    BY <1>3
  <2> HIDE DEF one, h
  <2>2. /\ a + Power(2, one) * h \in Nat
        /\ \A k \in Nat: Bit(a + Power(2, one) * h, k) = IF k < one THEN Bit(a, k) ELSE Bit(h, k - one)
    BY <1>1, <1>3, <2>1, BitJoined
  <2> QED
    BY <1>3, <2>2 DEF one
<1>5. r = 0 + 2 * h \/ r = 1 + 2 * h
  BY <1>1
<1>6. 1 + 2 * h \in 0 .. Power(2, m) - 1 /\ 1 + 2 * h \in {r, r + 1}
  <2>1. r <= Power(2, Word) /\ Power(2, m) = 2 * Power(2, Word) /\ Power(2, Word) \in Nat \ {0}
    <3>1. Power(2, Word) = Power(2, Bits) * OneUnit /\ OneUnit \in Nat \ {0}
      <4>1. Power(2, Word) \in Nat \ {0}
        BY <1>1, PowerType
      <4>2. none \in 0 .. Power(2, Word) - 1
        BY <4>1
      <4> QED
        BY <4>2, RoundingType
    <3> DEFINE w == Power(2, Bits)
               u == OneUnit
    <3>2. w \in Nat \ {0} /\ r <= w /\ u \in Nat \ {0}
      BY <1>1, <3>1, PowerType
    <3> HIDE DEF w, u
    <3>3. PICK c \in Nat: u = c + 1
      <4>1. u - 1 \in Nat /\ u = (u - 1) + 1
        BY <3>2
      <4> QED
        BY <4>1
    <3>4. w * u = w * c + w /\ w * c \in Nat
      BY <3>2, <3>3
    <3>5. r <= w * u
      BY <1>1, <3>2, <3>4
    <3>6. r <= Power(2, Word)
      BY <3>1, <3>5, Zenon DEF w, u
    <3> QED
      BY <1>1, <3>6, TwoOneMore
  <2> DEFINE v == Power(2, Word)
             b == Power(2, m)
  <2>2. v \in Nat \ {0} /\ b = 2 * v /\ r <= v
    BY <2>1
  <2>3. PICK c \in Nat: Word = c + 1
    <3>1. Word - 1 \in Nat /\ Word = (Word - 1) + 1
      BY <1>1
    <3> QED
      BY <3>1
  <2>4. v >= 2
    <3>1. Power(2, c) \in Nat \ {0} /\ Power(2, c + 1) = 2 * Power(2, c)
      BY TwoOneMore
    <3>2. v = 2 * Power(2, c)
      BY <2>3, <3>1
    <3> QED
      BY <3>1, <3>2
  <2> HIDE DEF v, b, h
  <2>5. 1 + 2 * h \in {r, r + 1} /\ 1 + 2 * h <= r + 1
    BY <1>1, <1>3, <1>5
  <2>6. 1 + 2 * h \in 0 .. b - 1
    BY <1>1, <1>3, <2>2, <2>4, <2>5
  <2> QED
    BY <2>5, <2>6 DEF b
<1>7. \A k \in 0 .. m - 1: Bit(y, k) = Bit(1 + 2 * h, k)
  <2> TAKE k \in 0 .. m - 1
  <2>1. k \in Nat /\ (k < 1 <=> k = 0)
    BY <1>1
  <2>2. y \in Nat
    <3>1. Power(2, m) \in Nat
      BY <1>1, PowerType
    <3> QED
      BY <1>2, <3>1
  <2> HIDE DEF y, h, m
  <2>3. Bit(y, k) \in {0, 1} /\ Bit(r, k) \in {0, 1}
    BY <1>1, <2>1, <2>2, BitType
  <2>4. CASE k = 0
    <3>1. Bit(1 + 2 * h, k) = Bit(1, k)
      BY <1>4, <2>1, <2>4
    <3>2. Bit(1, k) = 1
      BY <2>4, <2>1, BitOfOne
    <3> QED
      BY <1>2, <2>4, <3>1, <3>2
  <2>5. CASE k # 0
    <3>1. Bit(1 + 2 * h, k) = Bit(h, k - 1) /\ Bit(0 + 2 * h, k) = Bit(h, k - 1)
      BY <1>4, <2>1, <2>5
    <3>2. Bit(r, k) = Bit(h, k - 1)
      BY <1>5, <3>1
    <3>3. Bit(y, k) = 1 <=> Bit(r, k) = 1
      BY <1>2, <2>5
    <3> QED
      BY <2>3, <3>1, <3>2, <3>3
  <2> QED
    BY <2>4, <2>5
<1> HIDE DEF h, m, y
<1>8. y = 1 + 2 * h
  BY <1>1, <1>2, <1>6, <1>7, SameBits
<1> QED
  BY <1>6, <1>8 DEF y, one

\* A remainder is no more than the number.
LEMMA ModBelow ==
  ASSUME NEW m \in Nat \ {0}, NEW y \in Nat, NEW c \in Int
  PROVE  (y - m * c) % m <= y
<1>1. y \in Int /\ y \div m \in Nat /\ y % m \in 0 .. m - 1 /\ y = m * (y \div m) + (y % m)
  <2> y \in Int
    OBVIOUS
  <2> QED
    BY Divided
<1> DEFINE q == y \div m
           r == y % m
<1> HIDE DEF q, r
<1>2. q \in Nat /\ r \in 0 .. m - 1 /\ y = m * q + r
  BY <1>1 DEF q, r
<1>3. m * (q - c) = m * q - m * c /\ m * q \in Nat /\ m * c \in Int
  BY <1>2
<1>4. y - m * c = m * (q - c) + r /\ q - c \in Int
  BY <1>2, <1>3
<1> DEFINE d == q - c
<1> HIDE DEF d
<1>5. (m * d + r) % m = r
  BY <1>2, <1>4, Quotient DEF d
<1>6. (y - m * c) % m = r
  BY <1>4, <1>5 DEF d
<1> QED
  BY <1>2, <1>3, <1>6

\* Rounded, perhaps disturbed, and cut, an element is less than two units away.
LEMMA NoiseOf ==
  ASSUME NEW x \in 0 .. Power(2, Word) - 1, NEW r \in Roundings(x), NEW o \in {r, r + 1}
  PROVE  LET s == (o % Power(2, Bits)) * OneUnit
         IN  \/ (s - x) % Power(2, Word) < 2 * OneUnit
             \/ (x - s) % Power(2, Word) < OneUnit
<1> DEFINE u == OneUnit
           w == Power(2, Bits)
           m == Power(2, Word)
           a == x \div u
           b == x % u
<1>1. u \in Nat \ {0} /\ w \in Nat \ {0} /\ m = w * u /\ m \in Nat \ {0} /\ x \in Nat
  BY RoundingType, Widths, PowerType
<1>2. r = a \/ (b # 0 /\ r = a + 1)
  BY DEF Roundings
<1> HIDE DEF u, w, m
<1>3. a \in Nat /\ b \in 0 .. u - 1 /\ x = u * a + b
  <2> x \in Int
    BY <1>1
  <2> QED
    BY <1>1, Divided
<1> HIDE DEF a, b
<1>4. o = a \/ o = a + 1 \/ (b # 0 /\ o = a + 2)
  BY <1>2, <1>3
<1>5. o \in Nat
  BY <1>3, <1>4
<1>6. PICK c \in Nat: o % w = o - w * c /\ w * c \in Int
  <2>1. o \in Int
    BY <1>5
  <2>2. /\ o \div w \in Int /\ o % w \in 0 .. w - 1 /\ o = w * (o \div w) + (o % w)
        /\ o \in Nat => o \div w \in Nat
    BY <1>1, <2>1, Divided, Zenon
  <2>3. w * (o \div w) \in Int
    BY <1>1, <2>2
  <2> QED
    BY <1>1, <1>5, <2>2, <2>3
<1> DEFINE s == (o % w) * u
<1>7. s = o * u - m * c /\ m * c \in Int /\ o * u \in Int
  <2>1. (o - w * c) * u = o * u - (w * c) * u
    BY <1>1, <1>5, <1>6
  <2>2. (w * c) * u = (w * u) * c
    BY <1>1
  <2> QED
    BY <1>1, <1>5, <1>6, <2>1, <2>2
<1> HIDE DEF s
<1>8. u * a \in Nat /\ a * u = u * a /\ (a + 1) * u = u * a + u /\ (a + 2) * u = u * a + 2 * u
  BY <1>1, <1>3
<1>9. CASE o = a
  <2> DEFINE c2 == 0 - c
  <2>1. x - s = b - m * c2 /\ c2 \in Int
    <3>1. m * (0 - c) = 0 - m * c
      BY <1>1
    <3>2. x - s = b + m * c
      BY <1>1, <1>3, <1>7, <1>8, <1>9
    <3> QED
      BY <1>1, <1>3, <1>7, <3>1, <3>2
  <2>2. b \in Nat /\ b < u
    BY <1>1, <1>3
  <2> HIDE DEF c2
  <2>3. (b - m * c2) % m <= b /\ (b - m * c2) % m \in Int
    <3>1. b - m * c2 \in Int
      BY <1>1, <2>1, <2>2
    <3>2. (b - m * c2) % m <= b
      BY <1>1, <2>1, <2>2, ModBelow, Zenon
    <3>3. (b - m * c2) % m \in 0 .. m - 1
      BY <1>1, <3>1, Divided, Zenon
    <3> QED
      BY <1>1, <3>2, <3>3
  <2>4. (x - s) % m < u
    BY <1>1, <2>1, <2>2, <2>3
  <2> QED
    BY <2>4 DEF s, u, w, m
<1>10. CASE o # a
  <2>1. PICK y \in Nat: s - x = y - m * c /\ y < 2 * u
    <3>1. CASE o = a + 1
      <4>1. u - b \in Nat /\ s - x = (u - b) - m * c /\ u - b < 2 * u
        BY <1>1, <1>3, <1>7, <1>8, <3>1
      <4> QED
        BY <4>1
    <3>2. CASE b # 0 /\ o = a + 2
      <4>1. 2 * u - b \in Nat /\ s - x = (2 * u - b) - m * c /\ 2 * u - b < 2 * u
        BY <1>1, <1>3, <1>7, <1>8, <3>2
      <4> QED
        BY <4>1
    <3> QED
      BY <1>4, <1>10, <3>1, <3>2
  <2>2. (y - m * c) % m <= y /\ (y - m * c) % m \in Int
    <3>1. y - m * c \in Int /\ c \in Int
      BY <1>7
    <3>2. (y - m * c) % m <= y
      BY <1>1, <3>1, ModBelow, Zenon
    <3>3. (y - m * c) % m \in 0 .. m - 1
      BY <1>1, <3>1, Divided, Zenon
    <3> QED
      BY <1>1, <3>2, <3>3
  <2>3. (s - x) % m < 2 * u
    BY <1>1, <2>1, <2>2
  <2> QED
    BY <2>3 DEF s, u, w, m
<1> QED
  BY <1>9, <1>10

\* So packing adds less than two units of noise to an element.
THEOREM PackingNoise == PackingSpec => []NoiseBelowTwoUnits
<1>1. PackingInv => NoiseBelowTwoUnits
  <2> SUFFICES ASSUME PackingInv, stage = "done", NEW i \in 1 .. Len(matrix)
               PROVE  \/ (switched[i] - matrix[i]) % Power(2, Word) < 2 * OneUnit
                      \/ (matrix[i] - switched[i]) % Power(2, Word) < OneUnit
    BY DEF NoiseBelowTwoUnits
  <2> DEFINE r == rounded[i]
             x == matrix[i]
  <2>1. x \in 0 .. Power(2, Word) - 1 /\ r \in Roundings(x)
    <3>1. PackingTyped /\ Len(rounded) = Len(matrix)
      BY DEF PackingInv, PackingTyped
    <3>2. x \in Values /\ r \in Roundings(x)
      BY <3>1 DEF PackingTyped
    <3> QED
      BY <3>2, WidthAssumption
  <2>2. r \in 0 .. Power(2, Bits)
    BY <2>1, RoundingType
  <2>3. PICK o \in {r, r + 1}: switched[i] = (o % Power(2, Bits)) * OneUnit
    BY <2>2, CameBack, OrOne
  <2> HIDE DEF r, x
  <2>4. LET s == (o % Power(2, Bits)) * OneUnit
        IN  \/ (s - x) % Power(2, Word) < 2 * OneUnit
            \/ (x - s) % Power(2, Word) < OneUnit
    BY <2>1, NoiseOf
  <2> QED
    BY <2>3, <2>4 DEF x
<1> QED
  BY PackingInvariant, <1>1, PTL
=============================================================================
