SPECIFICATION FairSpec
CONSTANTS
    m1 = m1
    m2 = m2
    m3 = m3
    w1 = w1
    w2 = w2
    w3 = w3
    Msgs = {m1, m2, m3}
    Tasks = {w1, w2, w3}
    MaxWriters = 2
    SyncCommit = TRUE
INVARIANTS
    PublishAfterDurable
    SingleInsert
    WaiterAccounted
    WriterCap
PROPERTIES
    ImplementsDurableLog
    ClaimedResolves
    CloseCompletes
