SPECIFICATION Spec
CONSTANTS
    First = w1
    Home = b1
    Workspaces = {w1, w2}
    Branches = {b1}
    Client = c
    Stamps = {TRUE}
    DeleteBranch = {TRUE}
    Events = 3
    None = None
INVARIANT CollisionDeclined
CHECK_DEADLOCK FALSE
