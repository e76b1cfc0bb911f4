SPECIFICATION Spec
CONSTANTS
    ExternalIDs = {e1, e2, e3}
    Items = {v1, v2}
    LogFaults = {"present"}
    AllowReload = FALSE
    LossyStop = FALSE
    MaxLog = 5
    MaxStops = 2
    MaxFaults = 1
SYMMETRY Interchangeable
INVARIANTS
    OpenSucceeds
CHECK_DEADLOCK FALSE
