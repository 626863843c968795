------------------------------- MODULE Sums -------------------------------
(***************************************************************************)
(* The loops that add up and multiply (matMul in src/go/pir.c,             *)
(* Reconstruct_from_base_p in src/go/utils.go), as functions.              *)
(***************************************************************************)
EXTENDS Integers

\* The sum of f[0], ..., f[n - 1], and b to the power n.
Sum(n, f) == LET s[k \in 0 .. n] == IF k = 0 THEN 0 ELSE s[k - 1] + f[k - 1] IN s[n]
Power(b, n) == LET w[k \in 0 .. n] == IF k = 0 THEN 1 ELSE b * w[k - 1] IN w[n]
=============================================================================
