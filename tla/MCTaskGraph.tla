---------------------------- MODULE MCTaskGraph ----------------------------
(* TLC instances of TaskGraph: a chain of two tasks, and the same with the  *)
(* second task reworded.                                                    *)
EXTENDS TaskGraph, TLC

CONSTANTS p1, p2, w1, w2, i1, i2, i3, i4, design, build, old, new

Content(d, b) == design :> d @@ build :> b

Chain    == [order |-> << design, build >>, text |-> Content(old, old), needs |-> {<< design, build >>}]
Reworded == [Chain EXCEPT !.text = Content(old, new)]
\* One planner holds to the first version, the other has the new one.
Versions == p1 :> {Chain} @@ p2 :> {Reworded}
=============================================================================
