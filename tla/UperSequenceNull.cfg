SPECIFICATION Spec
CONSTANTS
    Schemas <- NullPeers
    Absent = Absent
    Null = Null
INVARIANTS
    ScopeExhausted
CHECK_DEADLOCK FALSE
