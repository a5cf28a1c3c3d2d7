SPECIFICATION FairSpec
CONSTANTS
    NumOps = 2
    Pushers = {p1, p2}
    Retriers = {t1}
    MaxBatch = 2
    MaxFaults = 1
    MaxAborts = 1
    ManualConfirm = TRUE
    p1 = p1
    p2 = p2
    t1 = t1
INVARIANTS
    ConfirmedWasAnswered
    SentIsInHand
PROPERTIES
    EventuallyConfirmed
CHECK_DEADLOCK FALSE
