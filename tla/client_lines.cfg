SPECIFICATION FairSpec
CONSTANT MaxLines <- FourLines
INVARIANTS
    WriteUnderWay
    RepliesPairUp
    LostCommandsHadReplies
    NoWaitInVain
PROPERTIES
    LinesInOrder
    ReadWaitReturns
    Joins
CHECK_DEADLOCK FALSE
