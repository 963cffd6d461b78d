SPECIFICATION Spec
CONSTANTS
    t1 = t1
    t2 = t2
    Turns = {t1, t2}
    None = None
    Overlap = FALSE
    Background = TRUE
    Budget <- Lifecycle
CONSTRAINT FewRare
SYMMETRY AnyTurn
INVARIANT TypeOK
INVARIANT ActiveIsPersistent
PROPERTY FreshSidFresh
INVARIANT NoHungAgent
INVARIANT ConfigCurrent
CHECK_DEADLOCK FALSE
