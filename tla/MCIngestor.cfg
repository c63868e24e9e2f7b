SPECIFICATION FairSpec
CONSTANTS
    StreamLen = 4
    Kind <- MixedKind
    WithId <- MixedIds
    QueueCap = 2
    SaveEvery = 2
    MaxFaults = 3
    MaxSeq = 16
INVARIANTS
    TypeOK
    CheckpointCovered
PROPERTIES
    StartFixed
    EventuallyLanded
    FailureStops
CHECK_DEADLOCK FALSE
