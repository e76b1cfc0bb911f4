SPECIFICATION Spec
CONSTANTS
    Ids = {1, 2, 3}
    Raw <- MCRaw
    Ks = {0, 1, 2, 3, 4}
    Configs <- MCConfigs
    One = 5
    Epsilon = 1
    MaxFloat = 10
INVARIANTS
    TypeOK
    BestK
    ClosestFirst
    MetricsAgree
PROPERTIES
    Immutable
