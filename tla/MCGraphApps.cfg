CONSTANTS
    w1 = w1
    w2 = w2
    Inputs <- MCInputs
    maxID = 6
    pagesize = 80
    Digit = 2
    maxRunChunk = 2
    cacheSize = 3
    dropSize = 2
    UNIT_SIZE = 2
SPECIFICATION FairSpec
INVARIANTS
    SweepExact
    ForestComplete
    LabelsSound
    LabelsExact
PROPERTIES
    MatrixExact
    WorkersFinish
CHECK_DEADLOCK FALSE
