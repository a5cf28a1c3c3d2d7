SPECIFICATION FairSpec
CONSTANTS
    Engines = {e1, e2}
    Types = {changed}
    Listeners = {l1, l2}
    MaxBatch = 2
    MaxEvents = 3
    MaxSubscribes = 3
    MaxDepth = 2
    e1 = e1
    e2 = e2
    changed = changed
    l1 = l1
    l2 = l2
INVARIANTS
    TypeOK
    RestShowsNewest
    QueueIsScheduled
    LatestIsApplied
PROPERTIES
    NeverOlder
    EventuallyFlushed
CHECK_DEADLOCK FALSE
