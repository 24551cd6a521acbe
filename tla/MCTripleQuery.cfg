SPECIFICATION Spec
CONSTANTS
    THREAD_NUMBER = 2
    HashKeys = 2
    INIT_BUFFERS = 3
    INCREASE_BUFFERS = 3
    Inputs <- MCInputs
    Lucks <- MCLucks
    Misread = {0}
    MaxRounds = 2
INVARIANT NothingLost PlanWellFormed PoolWhole PrintedComplete PrintedSound
CHECK_DEADLOCK FALSE
