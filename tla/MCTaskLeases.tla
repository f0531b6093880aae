---------------------------- MODULE MCTaskLeases ----------------------------
(* TLC instances of TaskLeases. *)
EXTENDS TaskLeases, TLC

CONSTANTS r1, r2, t1, t2, w1, w2, l1, l2, k1, k2

Symmetry == Permutations({l1, l2}) \cup Permutations({w1, w2})
=============================================================================
