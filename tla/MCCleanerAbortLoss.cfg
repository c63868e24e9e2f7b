SPECIFICATION AbortingSpec
CONSTANTS
    p1 = p1
    p2 = p2
    Partitions = {p1, p2}
    Instances = {c1, c2}
    NoInstance = NoInstance
    NoState = NoState
    Log <- ShortLog
    Fresh <- EmptyCache
    Absorb <- CleanAbsorb
    Raises <- CleanRaises
    Emits <- CleanEmits
    Restore <- CleanRestore
    SeqState <- RunState
    SeqOut <- RunOut
    Agreeing <- RunAgreeing
    MaxBatch = 2
    MaxRecords = 10
    WindowMs = 6
    Buckets = 3
    MaxIds = 10
    CallbacksMidBatch = FALSE
    MaxFaults = 1
SYMMETRY Symmetry
INVARIANT NothingLost
CHECK_DEADLOCK FALSE
