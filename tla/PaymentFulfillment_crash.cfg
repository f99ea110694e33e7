CONSTANTS
    w1 = w1
    w2 = w2
    Worker = {w1, w2}
    OrderType = "balance"
    Jobs = {"webhook"}
    Cancelable = TRUE
    OrderTTL = 1
    Grace = 1
    LeaseDuration = 1
    MaxFaults = 0
    MaxCrashes = 1
SPECIFICATION FairSpec
CHECK_DEADLOCK FALSE
PROPERTY PaidIsCredited
