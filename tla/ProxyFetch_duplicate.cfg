SPECIFICATION Spec
CONSTANTS
    MaxBody = 2
    MayBreak = FALSE
INVARIANT ServesContent
CHECK_DEADLOCK FALSE
