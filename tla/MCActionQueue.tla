--------------------------- MODULE MCActionQueue ---------------------------
(* TLC instances of ActionQueue. *)
EXTENDS ActionQueue

CONSTANTS q1, r1, r2, x, y, sig1, sig2

\* The run proposes x and y, then x alone and for another reason; and back.
XAndY == {[i \in {x, y} |-> sig1], [i \in {x, y} |-> IF i = x THEN sig2 ELSE Nil]}

\* Bound: both runners work at once only while y was never queued.
Bounded == items[y] = Nil \/ \E r \in Runners : \A o \in Runners \ {r} : pc[o] = "idle"
=============================================================================
