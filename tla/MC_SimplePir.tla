--------------------------- MODULE MC_SimplePir ---------------------------
(***************************************************************************)
(* SimplePir with 10-bit words, entries of two bits and a table of three   *)
(* lines: of its moduli two are above the entries, one even and one odd,   *)
(* and one is too small for them.                                          *)
(***************************************************************************)
EXTENDS SimplePir

MCTable == <<[m |-> 2, p |-> 6], [m |-> 3, p |-> 5], [m |-> 4, p |-> 3]>>

Geometry(buckets, size, perCol) == [buckets |-> buckets, size |-> size, perCol |-> perCol]

MCGeometries == { Geometry(2, 2, 1), Geometry(4, 1, 2), Geometry(3, 1, 1), Geometry(4, 2, 1),
                  Geometry(2, 0, 1), Geometry(3, 1, 2), Geometry(6, 1, 1),
                  Geometry(4, 1, 1) }

MCModuli == {Unset, 4, 16}

Extremes == {0, Power(2, RowLength) - 1}

\* All extreme datasets where they are small, else one that tells places apart.
MCDatasets(n) == IF n <= 4 THEN [1 .. n -> Extremes] ELSE {[i \in 1 .. n |-> (i * i + i \div 3) % Power(2, RowLength)]}

MCStream(s, i) == (s * (i \div LweN + 1) + 389 * (i % LweN) + 77 * (i \div LweN)^2) % Q

Draw(x) == [x |-> IF x < 0 THEN -x ELSE x, negative |-> x < 0]

\* Small errors, and large ones that may leave the tolerable range.
MCDraws(m) == {[c \in 0 .. m - 1 |-> Draw(IF c % 2 = 0 THEN 1 ELSE -2)],
               [c \in 0 .. m - 1 |-> Draw(IF c = 0 THEN -25 ELSE 1)],
               [c \in 0 .. m - 1 |-> Draw(14)]}
=============================================================================
