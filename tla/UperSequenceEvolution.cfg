SPECIFICATION Spec
CONSTANTS
    Schemas <- SamePeers
    Absent = Absent
    Null = Null
INVARIANTS
    TypeOK
    RoundTrip
    KnownFieldsRead
    FailsOnlyInconsistent
CHECK_DEADLOCK FALSE
