SPECIFICATION Spec
CONSTANTS
    SyncPolicy = "SyncAlways"
    MaxSegmentSize = 10
    InsertSizes = {6}
    DeleteSize = 3
    CrashPoints = {"idle", "first", "rotate", "create", "header", "write", "tear", "sync"}
    PowerLoss = TRUE
    IOErrors = {"close", "create", "header", "write", "sync"}
    MaxSegments = 5
    MaxAppends = 4
    MaxStops = 2
    MaxErrors = 2
INVARIANTS
    TypeOK
    PromisedDurable
    RecoveredInOrder
    SegmentLsnAscending
    TornTailDiscarded
CHECK_DEADLOCK FALSE
