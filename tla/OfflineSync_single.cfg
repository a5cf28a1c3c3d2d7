SPECIFICATION Spec
CONSTANTS
    NumOps = 3
    Pushers = {p1}
    Retriers = {t1}
    MaxBatch = 2
    MaxFaults = 2
    MaxAborts = 1
    ManualConfirm = FALSE
    p1 = p1
    t1 = t1
INVARIANTS
    TypeOK
    AppliedWithinAttempts
    OvertakenOnlyAfterFailure
PROPERTIES
    ConfirmedIsFinal
    AttemptsNeverDecrease
    ImplementsLedger
CHECK_DEADLOCK FALSE
