SPECIFICATION FairSpec
CONSTANTS
    Brokers = {b1, b2}
    MaxTries = 2
    Principal = Principal
    Nobody = Nobody
    FaultLimit = 3
CHECK_DEADLOCK FALSE
INVARIANTS
    ServingIsProbed
    ServingLeavesNoClaim
PROPERTIES
    AllServe
