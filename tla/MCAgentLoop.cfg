SPECIFICATION FairSpec
CONSTANTS
    MaxMessages = 2
    MaxSteps = 2
    MaxDepth = 2
    LastTurn = 1
INVARIANTS
    ExactlyOnce
    QuietOwesNothing
PROPERTIES
    AbortedOpensNothing
    TeardownFindsQuiet
    LogFollowsTrace
    OwedIsDriven
    ActivitiesEnd
CHECK_DEADLOCK FALSE
