SPECIFICATION FairSpec
CONSTANTS
    Releases = 1
    Boots = 3
    Instances = 2
    Updates = 1
    Rare = 1
    None = None
INVARIANTS TypeOK AttemptsBound
PROPERTIES AckSticks ProbationResolves
CHECK_DEADLOCK FALSE
