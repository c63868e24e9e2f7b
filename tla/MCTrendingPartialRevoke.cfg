SPECIFICATION FairSpec
CONSTANTS
    p1 = p1
    p2 = p2
    Partitions = {p1, p2}
    Log <- PairLog
    Instances = {c1, c2}
    NoInstance = NoInstance
    MaxFaults = 1
    MinuteMs = 10
    LatenessMs = 10
    MaxWindows = 9
    Unreadable = Unreadable
    Refusable = {}
PROPERTY TotalsCorrected
CHECK_DEADLOCK FALSE
