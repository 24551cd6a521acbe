CONSTANTS
    Threads = 2
    SpecialRoots = 3
    MaxIndex = 6
    Increment = 2
    WordSize = 8
    Spurious = TRUE
SPECIFICATION Spec
INVARIANTS
    RootOnce
    RoundExact
CHECK_DEADLOCK FALSE
