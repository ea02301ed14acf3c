SPECIFICATION FairSpec
CONSTANTS
    Tasks = {t1, t2, t3}
    Keys = {k1, k2}
    Statements = {s1, s2}
    NoTask = NoTask
    NoStatement = NoStatement
    MaxLosses = 1
INVARIANTS
    TypeOK
    OnePreparationAtATime
    MapsAreDisjoint
PROPERTIES
    StoredForever
    PromiseKept
    CallsEndUnlessLooping
