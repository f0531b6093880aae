CONSTANTS
    s1 = s1  s2 = s2  a1 = a1  a2 = a2  f = f  g = g  foo = foo  mfoo = mfoo
    i1 = i1  i2 = i2  i3 = i3
    Nil = Nil
    Sessions = {s1, s2}
    Agents = {a1}
    Names = {foo, mfoo}
    Qualified <- Symbols
    Ids = {i1, i2}
    Policies = {"strict", "override-with-reason"}
    TTLs = {1}
    MaxClock = 2
SPECIFICATION Spec
SYMMETRY IdSymmetry
INVARIANT OneEndingEvent
PROPERTY NoKnownConflict
