SPECIFICATION Spec
CONSTANTS
    PageSize = 2
    MaxTotal = 4
INVARIANT
    FindingsComplete
CHECK_DEADLOCK FALSE
