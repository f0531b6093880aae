SPECIFICATION FairSpec
CONSTANTS
    Commands = 2
    Dispatcher = dispatcher
    Reconcilers = {r1, r2}
    MaxFailures = 2
    MaxCrashes = 1
    Nil = Nil
INVARIANTS
    NothingLost
    RecordedOnce
PROPERTY EvidenceArrives
CHECK_DEADLOCK FALSE
