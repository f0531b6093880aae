--------------------------- MODULE MCControlLoop ---------------------------
(* Instances of ControlLoop for TLC: a template of two tasks, and an LLM that *)
(* may propose a circle, a plan without evidence, or the two the other way     *)
(* round.                                                                     *)
EXTENDS ControlLoop

CONSTANTS a, b, c1, c2

MCControllers == {c1, c2}
MCMaxSteps == c1 :> 1 @@ c2 :> 2
MCKeys == {a, b}
MCTemplate == [needs |-> a :> {} @@ b :> {a}, evidence |-> FALSE]
MCProposals == {[needs |-> a :> {b} @@ b :> {a}, evidence |-> TRUE],
                [needs |-> a :> {} @@ b :> {a}, evidence |-> FALSE],
                [needs |-> a :> {b} @@ b :> {}, evidence |-> TRUE]}
=============================================================================
