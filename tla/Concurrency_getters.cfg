SPECIFICATION Spec
CONSTANTS
    Clients = {c1, c2}
    Nobody = Nobody
    Calls = {"insert", "delete", "search", "peek"}
    ThroughCollection = TRUE
    SyncPolicy = "SyncEverySec"
    MaxCalls = 3
INVARIANTS
    NoRace
CHECK_DEADLOCK FALSE
