SPECIFICATION Spec
CONSTANTS
    Schemas <- NewerPeers
    Absent = Absent
    Null = Null
INVARIANTS
    FurtherFieldsAbsent
CHECK_DEADLOCK FALSE
