CONSTANTS
    maxID = 3
    Edges <- MCEdges
    Limit = 24
SPECIFICATION Spec
INVARIANTS
    RecordsFound
    ListsFound
PROPERTIES
    FoundStays
CHECK_DEADLOCK FALSE
