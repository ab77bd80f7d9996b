SPECIFICATION StreamSpec
CONSTANTS
    b1 = b1
    b2 = b2
    w1 = w1
    w2 = w2
    c1 = c1
    NoBroker = NoBroker
    Brokers = {b1, b2}
    Workers = {w1, w2}
    Consumers = {c1}
    MaxSeq = 2
    FaultLimit = 2
INVARIANTS
    CountsAreReal
    RegisteredFirst
    FullStream
PROPERTIES
    FollowsOrStranded
    DeliveryContinues
