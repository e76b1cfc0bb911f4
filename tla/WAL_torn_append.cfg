SPECIFICATION Spec
CONSTANTS
    SyncPolicy = "SyncAlways"
    MaxSegmentSize = 8
    InsertSizes = {4}
    DeleteSize = 3
    CrashPoints = {"idle", "tear"}
    PowerLoss = FALSE
    IOErrors = {}
    MaxSegments = 4
    MaxAppends = 3
    MaxStops = 2
    MaxErrors = 1
INVARIANTS
    RecoversEveryAck
CHECK_DEADLOCK FALSE
