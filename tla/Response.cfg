SPECIFICATION Spec
CONSTANTS
    Programs <- MCPrograms
    IntLimit = 8
    MaxCalls = 3
INVARIANTS
    BodyAlive
    FreedOnce
    AnswerComplete
    RangeRight
CHECK_DEADLOCK FALSE
