SPECIFICATION FairSpec
CONSTANTS
    m1 = m1
    m2 = m2
    w1 = w1
    Msgs = {m1, m2}
    Tasks = {w1}
    MaxWriters = 1
    SyncCommit = TRUE
PROPERTIES
    QueuedWorkIsCommitted
