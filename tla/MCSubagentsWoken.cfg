CONSTANTS
    Root = Root
    a = a
    b = b
    Kids = {a, b}
    ParentOf <- Chain
    Calls = {c1, c2, c3}
    MaxInputs = 3
SPECIFICATION Spec
INVARIANTS
    NotWoken
CHECK_DEADLOCK FALSE
