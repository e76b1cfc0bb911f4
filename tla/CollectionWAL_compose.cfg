SPECIFICATION Spec
CONSTANTS
    ExternalIDs = {e1, e2, e3}
    Items = {v1}
    SyncPolicy = "SyncAlways"
    MaxSegmentSize = 8
    InsertSizes = {4}
    DeleteSize = 3
    CrashPoints = {"idle", "first", "rotate", "create", "header", "write", "sync"}
    IOErrors = {"close", "create", "header", "sync"}
    MaxSegments = 5
    MaxAppends = 4
    MaxStops = 2
    MaxErrors = 1
INVARIANTS
    TypeOK
    AckedOnDisk
PROPERTIES
    ImplementsCollection
CHECK_DEADLOCK FALSE
