SPECIFICATION Spec
CONSTANTS
    Value = {v1, v2}
    UniqueKey = TRUE
    MaxId = 3
    MaxNesting = 3
    MaxUndo = 2
    MaxStack = 2
SYMMETRY ValueSymmetry
INVARIANTS
    OpenSessionsKeepTheirState
PROPERTIES
    ImplementsCopies
CHECK_DEADLOCK FALSE
