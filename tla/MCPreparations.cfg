CONSTANTS
    Preparers = {p, q}
    Loaders = {l}
    Inspectors = {i}
    Appenders = {a}
    Entries = {e1, e2, e3, e4, e5}
    MaxRevision = 2
    MaxInputs = 4
    None = None
SPECIFICATION FairSpec
INVARIANTS
    OneOwner
    Truthful
PROPERTY CallsEnd
