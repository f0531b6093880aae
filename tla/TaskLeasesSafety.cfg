CONSTANTS
    r1 = r1  r2 = r2  t1 = t1  t2 = t2  w1 = w1  w2 = w2  l1 = l1  l2 = l2  k1 = k1  k2 = k2
    Nil = Nil
    Runs = {r1, r2}
    Tasks = {t1}
    Workers = {w1, w2}
    Leases = {l1, l2}
    Keys = {k1}
    KeyedOps = {"claim_task", "finish_task_with_handoff"}
    TTLs = {1, Nil}
    MaxClock = 2
SPECIFICATION Spec
SYMMETRY Symmetry
CHECK_DEADLOCK FALSE
INVARIANTS
    OneActiveLease
    OneHandoffPerResult
PROPERTY OwnershipSpec
