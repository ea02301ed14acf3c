CONSTANTS
    MaxI64 = 1000
    ReservedWords <- TheReservedWords
    Schemas <- TheSchemas
SPECIFICATION Spec
CHECK_DEADLOCK FALSE
INVARIANTS
    CompiledAsDeclared
    NamesMeet
