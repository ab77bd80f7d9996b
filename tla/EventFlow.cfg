SPECIFICATION FairSpec
CONSTANTS
    p1 = p1
    w1 = w1
    w2 = w2
    c1 = c1
    b1 = b1
    b2 = b2
    NoBroker = NoBroker
    NoSub = NoSub
    Producers = {p1}
    Workers = {w1, w2}
    Consumers = {c1}
    Brokers = {b1, b2}
    ClaimOrder <- Catalog
    PoisonEvery = 2
    MaxAttempts = 2
    QueueLimit = 1
    MaxSeq = 2
    FaultLimit = 1
CHECK_DEADLOCK FALSE
INVARIANTS
    TypeOK
    OneIsland
    GroundTruth
PROPERTIES
    Settles
    Covered
