----------------------------- MODULE MCPayments -----------------------------
(* Instances of Payments. *)
EXTENDS Payments, TLC

CONSTANTS o1, o2, r1, r2, r3, w1, w2

Symmetry == Permutations({w1, w2}) \cup Permutations({o1, o2})
=============================================================================
