SPECIFICATION FairSpec
CONSTANTS
    p1 = p1
    p2 = p2
    Partitions = {p1}
    Log <- LineLog
    Instances = {c1, c2}
    NoInstance = NoInstance
    MaxFaults = 3
    MinuteMs = 10
    LatenessMs = 10
    MaxWindows = 3
    Unreadable = Unreadable
    Refusable = {"A"}
INVARIANTS
    TypeOK
    NeverOvercounted
    CommittedCounted
PROPERTIES
    OffsetsNeverRegress
    TotalsCorrected
CHECK_DEADLOCK FALSE
