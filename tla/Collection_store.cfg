SPECIFICATION Spec
CONSTANTS
    ExternalIDs = {e1, e2, e3}
    Items = {v1, v2}
    LogFaults = {"absent"}
    AllowReload = FALSE
    LossyStop = FALSE
    MaxLog = 5
    MaxStops = 2
    MaxFaults = 1
INVARIANTS
    MapsAgree
    CounterCoversLog
    IdsUnique
    OpenSucceeds
    AckedServed
PROPERTIES
    ImplementsStore
CHECK_DEADLOCK FALSE
