SPECIFICATION Spec
CONSTANTS
    N = 3
    Keep = 1
    Events = 3
    None = None
INVARIANTS PrunedRestoreIsNoOp
CHECK_DEADLOCK FALSE
