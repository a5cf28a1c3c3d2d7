SPECIFICATION Spec
CONSTANTS
    Engines = {e1}
    Types = {added, removed}
    Listeners = {l1}
    MaxBatch = 3
    MaxEvents = 3
    MaxSubscribes = 3
    MaxDepth = 1
    e1 = e1
    added = added
    removed = removed
    l1 = l1
INVARIANTS
    LatestIsApplied
CHECK_DEADLOCK FALSE
