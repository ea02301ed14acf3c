SPECIFICATION Spec
CONSTANTS
    OctetBits = 2
    Open = Open
    Nothing = Nothing
    Ranges <- Ordered
    Values <- EdgeValues
    Variants <- SomeVariants
INVARIANTS TypeOK TypesHoldTheirRange SentNumbersArrive VariantsAgree
CHECK_DEADLOCK FALSE
