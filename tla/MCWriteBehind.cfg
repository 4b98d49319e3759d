SPECIFICATION FairSpec
CONSTANTS
    MaxEvents = 4
    MaxFlushers = 2
INVARIANTS
    NoForgottenWork
PROPERTIES
    FlushIsDurable
    EventuallyStored
    ImplementsQueue
