SPECIFICATION Spec
CONSTANTS
    Limit = 44
    LeftLimit = 10
    RANGE_BINARY_SIZE = 2
    Digit = 4
    Inputs <- MCInputs
INVARIANTS
    ListsStored
    EncodedExact
    DagKept
    AnswersExact
    RangesExact
CHECK_DEADLOCK FALSE
