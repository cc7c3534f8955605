SPECIFICATION Spec
CONSTANT MaxTests <- ThreeTests
INVARIANTS
    OwnServer
    ServedWhenWired
    NoWaitInVain
PROPERTY TestEnds
CHECK_DEADLOCK FALSE
