SPECIFICATION FairSpec
CONSTANTS
    Views = {"trending", "edits"}
    Asks <- TwoViews
    Cached = {"hour", "day"}
    Statements <- StatementCounts
    CacheSeconds = 2
    MaxEntries = 1
    PoolSize = 1
    Timeout = 1
    MaxLoads = 3
    MaxTime = 4
INVARIANTS
    TypeOK
    AnswersRecent
    OldDataFlagged
    RefusedOnlyWhenBusy
PROPERTIES
    NeverOverwritten
    RefreshEnds
CHECK_DEADLOCK FALSE
