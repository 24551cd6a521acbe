SPECIFICATION Spec
CONSTANTS
    Base = 8
    PageSize = 4
    splitID <- MCsplitID
    InitPages = 1
    IncPages = 3
    MetaSize = 3
    IdHash = 4
    IndexSize = 20
    StatInit = 12
    StatInc = 16
    THREAD_NUMBER = 2
    Inputs <- MCInputs
    Strays = {0, 3}
    RunLength = 2
INVARIANTS StoreKept ScansExact  StatisticsExact SortedFile
CHECK_DEADLOCK FALSE
