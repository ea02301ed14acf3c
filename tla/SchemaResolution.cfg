SPECIFICATION FairSpec
CONSTANTS
    Programs <- AllPrograms
    MaxDepth = 8
    UsizeModulus = 1000
INVARIANTS
    TypeOK
    FoundAsDeclared
    TagsAsMeant
    ComponentsAsPromised
PROPERTY
    ResolutionEnds
CHECK_DEADLOCK FALSE
