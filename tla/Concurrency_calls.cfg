SPECIFICATION FairSpec
CONSTANTS
    Clients = {c1, c2}
    Nobody = Nobody
    Calls = {"insert", "delete", "search", "get", "close", "peek"}
    ThroughCollection = TRUE
    SyncPolicy = "SyncEverySec"
    MaxCalls = 4
INVARIANTS
    TypeOK
    SearchTranslates
    ClosedDurable
PROPERTIES
    EveryCallReturns
CHECK_DEADLOCK FALSE
