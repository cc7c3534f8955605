SPECIFICATION Spec
CONSTANTS
    Text <- SmallTexts
    MaxTexts = 3
INVARIANTS
    ReadAsSent
    NeverStarves
PROPERTIES
    AllRead
    IsChannel
CHECK_DEADLOCK FALSE
