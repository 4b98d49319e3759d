CONSTANTS
    o = o
    r = r
    Once = {o}
    Repeating = {r}
    Interval = 2
    LastInstant = 3
    MaxTurns = 1
    MaxCalls = 2
    MaxFailures = 1
    MaxCrashes = 1
SPECIFICATION FairSpec
INVARIANTS
    NothingLost
    DeletionHolds
    PresentedOnce
PROPERTIES
    DueIsPresented
    WaitsEnd
CHECK_DEADLOCK FALSE
