SPECIFICATION FairSweepSpec
CONSTANTS
    Modes <- AllModes
    Cells = 3
    Wall = 4
    MaxDeliv = 3
    FailureLimit = 3
    None = None
CHECK_DEADLOCK FALSE
INVARIANTS
    SeparateCells
    StopsAtFirstCeiling
PROPERTIES
    RunEnds
