SPECIFICATION FairSpec
CONSTANTS
    NoBound = NoBound
    Unlimited = 2000000000
    Cases <- AllCases
INVARIANTS TypeOK FragmentsInOrder ReversibleWithinLimits
PROPERTY LoopsEnd
CHECK_DEADLOCK FALSE
