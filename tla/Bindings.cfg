CONSTANTS
    Ids = {"a", "b"}
    Capacity = 1
    MaxLogs = 3
SPECIFICATION Spec
CHECK_DEADLOCK FALSE
INVARIANTS TypeOK InOrder IteratorComplete
PROPERTIES CloseReturns IteratorEnds
