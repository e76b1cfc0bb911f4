SPECIFICATION Spec
CONSTANTS
    ExternalIDs = {e1, e2, e3}
    Items = {v1, v2}
    LogFaults = {"absent", "present"}
    AllowReload = TRUE
    LossyStop = TRUE
    MaxLog = 5
    MaxStops = 2
    MaxFaults = 1
SYMMETRY Interchangeable
INVARIANTS
    TypeOK
    WriteAhead
    OwnVector
CHECK_DEADLOCK FALSE
