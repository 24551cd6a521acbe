CONSTANTS
    maxID = 4
    Graphs <- MCGraphs
SPECIFICATION Spec
INVARIANTS
    TopoSorted
    ScanComplete
    Layered
PROPERTIES
    ImplementsPeeling
    Terminates
CHECK_DEADLOCK FALSE
