SPECIFICATION Spec
CONSTANTS
    Payloads <- MCPayloads
    MaxSegment = 40
    LooksLikeOp = {14}
    MaxRecords = 3
    MaxTorn = 1
    MaxCuts = 1
    MaxDamage = 1
INVARIANTS
    TypeOK
    NoForgery
    TornTailDiscarded
    DamageRefused
    LsnFresh
    ChunksSuffice
CHECK_DEADLOCK FALSE
