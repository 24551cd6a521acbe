CONSTANTS
    Main = Main
    Owner = Owner
    Thieves = {t1}
    NoOne = NoOne
    InitSizes = {4}
    MaxTasks = 2
SPECIFICATION Spec
INVARIANTS
    TakenOnce
CHECK_DEADLOCK FALSE
