SPECIFICATION LoadFairSpec
CONSTANTS
    w1 = w1
    Clients = 2
    HeartbeatEvery = 2
    StatsTtl = 8
    MaxLag = 2
    Workers = {w1}
    Ramp <- Steps
    RampHold = 3
    MaxInterval = 2
    MaxLate = 1
    MaxDebt = 6
INVARIANTS
    LiveShown
    NoBurst
    KeepsPace
PROPERTIES
    DeadLeaves
