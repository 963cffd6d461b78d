SPECIFICATION FairSpec
CONSTANTS
    First = w1
    Home = b1
    Workspaces = {w1, w2}
    Branches = {b1, b2}
    Client = c
    Stamps = {TRUE, FALSE}
    DeleteBranch = {TRUE, FALSE}
    Events = 2
    None = None
INVARIANTS TypeOK ArchiveHasEvidence OneFixPerFailure
PROPERTIES NeverUnmerges OutageKeepsPr MergedIsArchived
CHECK_DEADLOCK FALSE
