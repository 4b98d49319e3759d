SPECIFICATION Spec
CONSTANTS
    MaxMessages = 2
    MaxSteps = 1
    MaxDepth = 1
    LastTurn = 0
INVARIANTS
    RunningDriverConsumes
CHECK_DEADLOCK FALSE
