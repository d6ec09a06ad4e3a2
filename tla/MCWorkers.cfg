CONSTANTS
    Worker = {w1, w2}
    None = None
    Key = {k}
    MaxJob = 2
    MaxAttempts = 2
    DlqCap = 1
    Visibility = 2
    MaxOps = 1
SPECIFICATION FairSpec
INVARIANTS OnePlace ReservationHonoured IdempotentWhileLive
PROPERTIES JobsSettle Implements
CHECK_DEADLOCK FALSE
