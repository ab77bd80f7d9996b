SPECIFICATION FairSpec
CONSTANTS
    b1 = b1
    b2 = b2
    b3 = b3
    NoBroker = NoBroker
    Brokers = {b1, b2, b3}
    Planes <- ConsumerPlanes
    FaultLimit = 4
INVARIANTS
    OnePump
CHECK_DEADLOCK FALSE
PROPERTIES
    ImplementsAttachments
    FollowsScaling
