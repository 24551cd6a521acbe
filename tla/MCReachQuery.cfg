CONSTANTS
    maxID = 6
    Graphs <- MCLayeredGraphs
SPECIFICATION QuerySpec
INVARIANTS
    QueryCorrect
    IndexExact
CHECK_DEADLOCK FALSE
