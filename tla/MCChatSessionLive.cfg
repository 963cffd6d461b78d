SPECIFICATION FairSpec
CONSTANTS
    t1 = t1
    t2 = t2
    Turns = {t1, t2}
    None = None
    Overlap = FALSE
    Background = FALSE
    Budget <- OneFault
PROPERTY TurnSettles
CHECK_DEADLOCK FALSE
