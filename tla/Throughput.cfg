SPECIFICATION Spec
CONSTANTS
    Ring = 3
    Window = 2
    SparkLen = 2
    LatencyRing = 3
    Latencies = {0, 1, 3}
    Skew = Skew
    MaxSeq = 3
    MaxSec = 5
    FaultLimit = 2
INVARIANTS
    GapsAreReal
    NeverUnderstated
    SparkTrue
    LatencyRanks
CHECK_DEADLOCK FALSE
