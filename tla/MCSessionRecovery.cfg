CONSTANTS
    MaxTurns = 2
    MaxSteps = 1
    MaxCalls = 2
    MaxCrashes = 2
    MaxFaults = 1
    Compressions = {"none", "zstd"}
SPECIFICATION FairSessionSpec
INVARIANTS
    Replayable
    HonestRecovery
    Kept
PROPERTY ComesBack
CHECK_DEADLOCK FALSE
