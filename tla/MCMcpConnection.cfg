CONSTANTS
    MaxAttempts = 2
    MaxStable = 1
    MaxChanges = 2
SPECIFICATION FairSpec
INVARIANTS
    OneServer
    NoStrayTools
    Supervised
PROPERTY DisposeEnds
CHECK_DEADLOCK FALSE
