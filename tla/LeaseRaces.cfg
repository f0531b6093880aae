CONSTANTS
    s1 = s1  s2 = s2  a1 = a1  a2 = a2  t1 = t1  l1 = l1  l2 = l2  k1 = k1
    Nil = Nil
    Sessions = {s1, s2}
    Agents = {a1, a2}
    Tasks = {t1}
    Leases = {l1, l2}
    Keys = {k1}
    KeyedOps = {"claim"}
    KeyUsers = {s1}
    TTLs = {1}
    Finals = {"done"}
    ManualStatuses = {"ready"}
    MaxClock = 1
SPECIFICATION Spec
INVARIANTS
    NoStrandedTask
    KeyedOnce
    LocksInOrder
PROPERTIES
    NoResurrection
    OwnershipSpec
SYMMETRY LeaseSymmetry
