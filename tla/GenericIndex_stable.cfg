SPECIFICATION Spec
CONSTANTS
    Key = {k1, k2}
    Value = {v1, v2}
    none = none
    KeyStable = TRUE
    MaxId = 2
    MaxDepth = 3
    MaxRevision = 3
CHECK_DEADLOCK FALSE
INVARIANTS
    StackRestores
PROPERTIES
    UndoRestores
    Refines
