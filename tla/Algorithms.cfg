SPECIFICATION Spec
CONSTANTS
    MaxLines = 2
    MaxSteps = 2
    Depth = 3
    Nesting = 2
    PackageLimit = 2
    MaxPeek = 2
    Gains <- LogGains
INVARIANTS
    TranscriptsStand
    SecretsStayOut
    GraphIsExact
    ChangesLinked
    SearchesAreSound
    EvidenceAgrees
    UsageIsAccounted
    MovesAreFollowed
    BenchmarksTell
    ReportsAgree
