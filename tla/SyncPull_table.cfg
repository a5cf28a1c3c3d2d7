SPECIFICATION PullSpec
CONSTANTS
    Changes = {c1}
    NumTables = 1
    Pullers = {p1}
    MaxTime = 4
    MaxPullFaults = 0
    MaxCopies = 1
    c1 = c1
    p1 = p1
INVARIANTS
    NoMissingUpdates
