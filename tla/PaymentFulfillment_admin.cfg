CONSTANTS
    w1 = w1
    w2 = w2
    Worker = {w1, w2}
    OrderType = "balance"
    Jobs = {"webhook", "retry", "manual"}
    Cancelable = FALSE
    OrderTTL = 1
    Grace = 1
    LeaseDuration = 1
    MaxFaults = 1
    MaxCrashes = 1
SPECIFICATION Spec
SYMMETRY WorkerSymmetry
CHECK_DEADLOCK FALSE
INVARIANTS GrantedAtMostOnce GrantOnlyIfPaid CompletedIsSettled
PROPERTY LeaseIsRespected
