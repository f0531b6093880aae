------------------------- MODULE MCRunFinalization -------------------------
(* Instances of RunFinalization for TLC. *)
EXTENDS RunFinalization, TLC

Symmetry == Permutations(Tasks) \cup Permutations(Finalizers)
=============================================================================
