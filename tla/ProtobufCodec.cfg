SPECIFICATION FairSpec
CONSTANTS
    Messages <- AllMessages
    Types <- AllTypes
    Values <- AllValues
    MaxKept = 3
INVARIANTS
    TypeOK
    TagsAreCounted
    PeersUnderstand
    OthersAreLost
PROPERTY
    ReadingEnds
