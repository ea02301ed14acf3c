SPECIFICATION FairestSpec
CONSTANTS
    Tasks = {t1, t2}
    Keys = {k1}
    Statements = {s1}
    NoTask = NoTask
    NoStatement = NoStatement
    MaxLosses = 1
PROPERTIES
    CallsEnd
