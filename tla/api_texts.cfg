SPECIFICATION Spec
CONSTANTS
    Word <- TwoWords
    MaxEdits = 2
INVARIANTS
    ReadAsSent
    NothingInvented
    RepliesAreToldApart
    RepliesFit
CHECK_DEADLOCK FALSE
