SPECIFICATION FairSpec
CONSTANTS
    p1 = p1
    Partitions = {p1}
    Instances = {c1, c2}
    NoInstance = NoInstance
    NoState = NoState
    Tombstone = Tombstone
    Log <- PageLog
    Fresh <- NoPages
    Absorb <- PageAbsorb
    Raises <- PageRaises
    Emits <- PageEmits
    Restore <- PageRestore
    SeqState <- RunState
    SeqOut <- RunOut
    Agreeing <- RunAgreeing
    MaxBatch = 2
    CallbacksMidBatch = FALSE
    MaxFaults = 3
INVARIANT LatestShown
PROPERTY AllProcessed
CHECK_DEADLOCK FALSE
