SPECIFICATION Spec
CONSTANTS
    Schemas <- AllSchemas
    MaxDepth = 12
    Clients = {"psql", "apsql", "apsql direct"}
    MaxMessages = 2
    Messages <- ValuesOfTop
INVARIANTS
    TypeOK
    CreatedAsDeclared
    NeverAnotherValue
    StoredAndLoaded
    NothingLeftBehind
CHECK_DEADLOCK FALSE
