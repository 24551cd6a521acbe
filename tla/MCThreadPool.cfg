CONSTANTS
    Workers = {w1, w2}
    Clients = {c1, c2}
    MaxTasks = 2
    NoOne = NoOne
SPECIFICATION Spec
INVARIANTS
    ThreadLists
    WaitComplete
PROPERTIES
    ImplementsPool
    Progress
CHECK_DEADLOCK FALSE
