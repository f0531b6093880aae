-------------------------- MODULE MCSpawnDispatch --------------------------
(* Instances of SpawnDispatch for TLC. *)
EXTENDS SpawnDispatch, TLC

Symmetry == Permutations(Tasks) \cup Permutations(Dispatchers)
=============================================================================
