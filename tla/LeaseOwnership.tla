--------------------------- MODULE LeaseOwnership ---------------------------
(***************************************************************************)
(* What the lease tables promise to workers, with no statement, clock or    *)
(* status in sight: a task is held through at most one lease, a lease is    *)
(* granted once, and a lease that has ended is never held again.            *)
(*                                                                         *)
(* TaskLeases (one transaction per operation) and LeaseTransactions (the    *)
(* statements of those transactions, interleaved) both implement it.        *)
(***************************************************************************)


CONSTANTS Tasks, Leases

VARIABLES held,      \* held[t]: the leases through which task t is held
          granted    \* the leases that were ever granted

vars == << held, granted >>

TypeOK ==
    /\ held \in [Tasks -> SUBSET Leases]
    /\ granted \subseteq Leases

Init ==
    /\ held = [t \in Tasks |-> {}]
    /\ granted = {}

(***************************************************************************)
(* The leases of a set of tasks end: a release, a finish, or an expiry      *)
(* sweep that ends many leases in one transaction.                          *)
(***************************************************************************)
End(D) ==
    /\ held' = [t \in Tasks |-> IF t \in D THEN {} ELSE held[t]]
    /\ UNCHANGED granted

(***************************************************************************)
(* A claim: its expiry sweep ends the leases of D, possibly the one on t,   *)
(* and t is granted through a lease never granted before.                   *)
(***************************************************************************)
Grant(D, t, l) ==
    /\ l \notin granted
    /\ t \in D \/ held[t] = {}
    /\ held' = [u \in Tasks |-> IF u = t THEN {l}
                                ELSE IF u \in D THEN {} ELSE held[u]]
    /\ granted' = granted \cup {l}

Next ==
    \E D \in SUBSET Tasks :
        \/ End(D)
        \/ \E t \in Tasks, l \in Leases : Grant(D, t, l)

Spec == Init /\ [][Next]_vars
=============================================================================
