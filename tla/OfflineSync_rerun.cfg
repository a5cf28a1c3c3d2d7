SPECIFICATION Spec
CONSTANTS
    NumOps = 1
    Pushers = {p1, p2}
    Retriers = {t1}
    MaxBatch = 2
    MaxFaults = 0
    MaxAborts = 0
    ManualConfirm = FALSE
    p1 = p1
    p2 = p2
    t1 = t1
PROPERTIES
    ConfirmedIsFinal
CHECK_DEADLOCK FALSE
