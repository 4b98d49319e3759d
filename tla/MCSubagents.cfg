CONSTANTS
    Root = Root
    a = a
    b = b
    Kids = {a, b}
    ParentOf <- Chain
    Calls = {c1, c2, c3}
    MaxInputs = 3
SPECIFICATION FairSpec
INVARIANTS
    ChildFirst
    Heard
PROPERTY EpochsEnd
CHECK_DEADLOCK FALSE
