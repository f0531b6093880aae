------------------------ MODULE MCLeaseTransactions ------------------------
(* TLC instances of LeaseTransactions. *)
EXTENDS LeaseTransactions, TLC

CONSTANTS s1, s2, a1, a2, t1, l1, l2, k1

LeaseSymmetry == Permutations({l1, l2}) \cup Permutations({a1, a2})
=============================================================================
