--------------------------------- MODULE Sums ---------------------------------
(***************************************************************************)
(* Finite sums as a recursive function, so that theorems about them stay   *)
(* within the prover's reach.                                              *)
(***************************************************************************)
EXTENDS Integers

(* f[1] + ... + f[n]                                                       *)
SumTo(f, n) ==
  LET total[k \in 0..n] == IF k = 0 THEN 0 ELSE total[k - 1] + f[k]
  IN  total[n]

=============================================================================
