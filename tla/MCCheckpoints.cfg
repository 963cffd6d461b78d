SPECIFICATION Spec
CONSTANTS
    N = 3
    Keep = 1
    Events = 3
    None = None
CONSTRAINT Timely
INVARIANTS TypeOK RetentionBound AnchorsHold MemoryMatches
PROPERTIES StoreSpec OnlyOwnTab
CHECK_DEADLOCK FALSE
