SPECIFICATION Spec
CONSTANTS
    Tasks = {t1}
    w1 = w1
    Workspaces = {w1}
    Clients = {c1}
    Loop = Loop
    Wakeups <- MCWakeups
    Routines <- MCRoutines
    Managed = {w1}
    Horizon = 3
    MinWait = 0
    MaxWait = 1
    MaxArms = 2
    MaxFaults = 1
INVARIANTS TypeOK ArmedIsClean OneShotOnce NoBlankTabs
PROPERTIES RecurringCoalesced PausedNeverFires
