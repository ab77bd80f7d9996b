SPECIFICATION OtelSpec
CONSTANTS
    Brokers = {b1, b2}
    MaxCount = 2
    MaxPasses = 3
    OutageLimit = 2
SYMMETRY Symmetry
CHECK_DEADLOCK FALSE
INVARIANTS
    RatesNeverOverstate
    DeltaNeverOverstates
