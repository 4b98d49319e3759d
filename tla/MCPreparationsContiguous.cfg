CONSTANTS
    Preparers = {}
    Loaders = {l}
    Inspectors = {}
    Appenders = {a, b}
    Entries = {e1, e2, e3, e4, e5}
    MaxRevision = 4
    MaxInputs = 3
    None = None
SPECIFICATION Spec
INVARIANT Contiguous
