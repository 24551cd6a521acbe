CONSTANTS
    Main = Main
    Owner = Owner
    Thieves = {t1, t2}
    NoOne = NoOne
    InitSizes = {3, 5}
    MaxTasks = 7
SPECIFICATION Spec
PROPERTIES
    ImplementsDeque
CONSTRAINT
    Bounded
SYMMETRY
    AnyThief
CHECK_DEADLOCK FALSE
