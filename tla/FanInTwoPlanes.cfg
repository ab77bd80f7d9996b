SPECIFICATION Spec
CONSTANTS
    b1 = b1
    NoBroker = NoBroker
    Brokers = {b1}
    Planes <- IngressObserverPlanes
    FaultLimit = 2
INVARIANTS
    OnePump
CHECK_DEADLOCK FALSE
