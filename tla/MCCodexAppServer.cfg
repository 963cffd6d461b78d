SPECIFICATION FairSpec
CONSTANTS
    N = 3
    Extras = 1
    Faults = 1
    None = None
INVARIANTS TypeOK WaiterIsRegistered ResultsAreNotStray TextIsWhole StopFindsTurn
PROPERTIES Settles
CHECK_DEADLOCK FALSE
