\* Two jobs of one owner, two waits, a limit of one.
CONSTANTS
    Ids = {j1, j2}
    Agents = {a1}
    Waits = {w1, w2}
    MaxConcurrentJobsPerOwner = 1
    NoJob = none
    NoAgent = nobody
SPECIFICATION FairSpec
CHECK_DEADLOCK FALSE
INVARIANTS
    NoSwallowedEnd
    NoUntendedWork
    CapacityHeld
PROPERTIES
    OneVoice
    DrainEnds
