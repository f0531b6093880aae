-------------------------- MODULE MCSessionMemory --------------------------
(* Instances of SessionMemory for TLC. *)
EXTENDS SessionMemory

\* The agent appends a line; then the file is rewritten in another shape.
MCShapes == << [lines |-> {1, 2}, said |-> {1, 2}],
               [lines |-> {1, 2, 3}, said |-> {1, 3}] >>

Symmetry == Permutations(Importers) \cup Permutations(Workspaces)
=============================================================================
