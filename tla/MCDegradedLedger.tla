-------------------------- MODULE MCDegradedLedger --------------------------
(* Instances of DegradedLedger for TLC. *)
EXTENDS DegradedLedger, TLC

Symmetry == Permutations(Reconcilers)
=============================================================================
