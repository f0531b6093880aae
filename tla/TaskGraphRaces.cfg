CONSTANTS
    p1 = p1  p2 = p2  w1 = w1  w2 = w2  i1 = i1  i2 = i2  i3 = i3  i4 = i4
    design = design  build = build  old = old  new = new
    Placeholder = Placeholder
    Nil = Nil
    Planners = {p1, p2}
    Workers = {w1}
    Ids = {i1, i2, i3}
    Keys = {design, build}
    Proposals <- Versions
SPECIFICATION FairSpec
INVARIANTS
    OneTaskPerKey
    PublishedPlanGates
PROPERTY PlanWorkedOff
