SPECIFICATION Spec
CONSTANTS
    t1 = t1
    t2 = t2
    Turns = {t1, t2}
    None = None
    Overlap = FALSE
    Background = FALSE
    Budget <- Quiet
SYMMETRY AnyTurn
INVARIANT StopKeepsConversation
CHECK_DEADLOCK FALSE
