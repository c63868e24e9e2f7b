SPECIFICATION FairSpec
CONSTANTS
    p1 = p1
    p2 = p2
    Partitions = {p1, p2}
    Log <- SinkLog
    Instances = {c1, c2}
    NoInstance = NoInstance
    MaxFaults = 2
    BatchSize = 2
    Unreadable = Unreadable
    Refusable = {"a"}
    StrikesBeforeRejoin = 2
INVARIANTS
    TypeOK
    CommittedStored
PROPERTIES
    ImplementsGuarantee
    AllCommitted
    GroupSettles
CHECK_DEADLOCK FALSE
