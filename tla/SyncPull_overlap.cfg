SPECIFICATION FairPullSpec
CONSTANTS
    Changes = {c1}
    NumTables = 3
    Pullers = {p1, p2}
    MaxTime = 3
    MaxPullFaults = 1
    MaxCopies = 1
    c1 = c1
    p1 = p1
    p2 = p2
INVARIANTS
    PullTypeOK
    MissingOnlyIfSkipped
PROPERTIES
    EventuallyPulled
