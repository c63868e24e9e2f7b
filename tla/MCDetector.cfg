SPECIFICATION Spec
CONSTANTS
    WarWindowMs = 2
    MinReverts = 3
    MinUsers = 2
    MaxRecords = 3
    Users = {u1, u2}
    Edits <- WarEdits
    Times = {0, 1, 3}
    Lags = {0, 2}
    MaxLateMs = 1
    MaxEvents = 4
    MaxRestarts = 2
SYMMETRY Symmetry
INVARIANTS
    OneAlertPerWar
    NoWarMissed
    InsideWindow
CHECK_DEADLOCK FALSE
