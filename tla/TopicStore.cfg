SPECIFICATION Spec
CONSTANTS
    Brokers = {b1, b2}
    Topics = {t1, t2}
    Principals = {p1, p2}
    MaxMessages = 2
    FaultLimit = 2
    NoOwner = NoOwner
SYMMETRY Symmetry
INVARIANTS TypeOK OneOwner ReplayKept ShownIsTrue
