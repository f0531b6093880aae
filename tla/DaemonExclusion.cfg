CONSTANTS
    d1 = d1  d2 = d2  d3 = d3
    Torn = Torn
    NoFile = NoFile
    Daemons = {d1, d2, d3}
    TTL = 2
    MaxClock = 4
SPECIFICATION DaemonSpec
SYMMETRY DaemonSymmetry
INVARIANT ExclusiveDrain
CHECK_DEADLOCK FALSE
