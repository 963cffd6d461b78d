SPECIFICATION FairSpec
CONSTANTS
    Tasks = {t1, t2}
    w1 = w1
    Workspaces = {w1}
    Clients = {}
    Loop = Loop
    Wakeups <- MCLateWakeup
    Routines <- MCPlainLoop
    Managed = {}
    Horizon = 3
    MinWait = 0
    MaxWait = 1
    MaxArms = 1
    MaxFaults = 1
PROPERTY OverdueFires
