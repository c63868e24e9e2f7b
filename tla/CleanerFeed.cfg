SPECIFICATION Spec
CONSTANTS
    WindowMs = 4
    Buckets = 2
    MaxIds = 2
    MaxRecords = 3
    EventIds = {0, 1, 3, 6}
    InvalidIds = {3}
    Stamps = {0, 1, 4, 5, 8}
    MaxEvents = 5
    MaxRestarts = 2
INVARIANTS
    CopiesFound
    NothingSwallowed
    BoundedByBuckets
CHECK_DEADLOCK FALSE
