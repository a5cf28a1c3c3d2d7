SPECIFICATION FairSpec
CONSTANTS
    NumOps = 1
    Pushers = {p1}
    Retriers = {t1}
    MaxBatch = 2
    MaxFaults = 0
    MaxAborts = 1
    ManualConfirm = FALSE
    p1 = p1
    t1 = t1
PROPERTIES
    ResumedAfterCrash
CHECK_DEADLOCK FALSE
