SPECIFICATION Spec
CONSTANTS
    Dispatchers = {d1}
    Tasks = {t1, t2}
    MaxWorkers = 1
    MaxFaults = 4
    Nobody = Nobody
    Other = Other
INVARIANTS
    ReviewedBeforeDone
    NothingHeldOnReturn
    CompletedIsTrue
SYMMETRY Symmetry
CHECK_DEADLOCK FALSE
