CONSTANTS
    maxID = 3
    Inputs <- MCCondenseInputs
SPECIFICATION Spec
INVARIANTS
    IdsExact
    DagExact
CHECK_DEADLOCK FALSE
