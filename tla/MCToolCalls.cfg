SPECIFICATION FairSpec
CONSTANTS
    Planned = 3
    MaxParallel = 2
INVARIANTS
    ModelOrder
    Barriers
    HonestOutcome
PROPERTIES
    AbortStartsNothing
    BatchEnds
