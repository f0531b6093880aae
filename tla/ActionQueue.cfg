CONSTANTS
    q1 = q1  r1 = r1  r2 = r2  x = x  y = y  sig1 = sig1  sig2 = sig2
    Nil = Nil
    Queuers = {q1}
    Runners = {r1, r2}
    ActionIds = {x, y}
    Manual = {}
    Signatures = {sig1, sig2}
    Unreviewed = {sig2}
    Bundles <- XAndY
    MaxActions = 2
    Budgets = {1, Nil}
    Scheduler = r1
    Budget = 1
SPECIFICATION FairSpec
CONSTRAINT Bounded
INVARIANT OneRunPerApproval
PROPERTIES
    StartsOnStandingApproval
    ApprovedIsHandled
