SPECIFICATION FairSpec
CONSTANTS
    SyncPolicy = "SyncEverySec"
    MaxSegmentSize = 8
    InsertSizes = {4, 5}
    DeleteSize = 3
    CrashPoints = {"idle", "rotate"}
    PowerLoss = FALSE
    IOErrors = {}
    MaxSegments = 5
    MaxAppends = 4
    MaxStops = 2
    MaxErrors = 1
INVARIANTS
    RecoversEveryAck
    LsnAscending
    SegmentBound
    ReopenAppends
PROPERTIES
    ActiveEventuallySynced
CHECK_DEADLOCK FALSE
