SPECIFICATION FairSpec
CONSTANTS
    p1 = p1
    p2 = p2
    Partitions = {p1, p2}
    Log <- ViewLog
    Tombstone = Tombstone
    TombstoneMs = 5
    MaxMoves = 2
    MaxBreaks = 1
INVARIANTS
    TypeOK
    NewestKept
    ShowsRecent
PROPERTY EventuallyNewest
CHECK_DEADLOCK FALSE
