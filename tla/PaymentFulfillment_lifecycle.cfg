CONSTANTS
    w1 = w1
    w2 = w2
    Worker = {w1, w2}
    OrderType = "subscription"
    Jobs = {"webhook", "cancel", "expire", "verify"}
    Cancelable = TRUE
    OrderTTL = 1
    Grace = 1
    LeaseDuration = 1
    MaxFaults = 1
    MaxCrashes = 0
SPECIFICATION FairSpec
CHECK_DEADLOCK FALSE
INVARIANTS TypeOK GrantedAtMostOnce CompletedIsSettled
PROPERTIES CompletedIsFinal RechargingEnds PendingEnds
