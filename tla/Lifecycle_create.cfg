SPECIFICATION Spec
CONSTANTS
    Callers = {p1, p2}
    Dimensions = {2, 3}
    IndexTypes = {"Linear", "HNSW"}
    DataTypes = {"Text"}
    MaxStops = 3
INVARIANTS
    TypeOK
    CreatedOpens
PROPERTIES
    SchemaLocked
CHECK_DEADLOCK FALSE
