CONSTANTS
    w1 = w1
    w2 = w2
    Worker = {w1, w2}
    Hold = 2
    Balance = 3
    OtherFrozen = 2
    Cost = {1, 3}
    MaxRetries = 3
    MaxTrouble = 2
    LeaseTrouble = 2
SPECIFICATION FairSpec
CHECK_DEADLOCK FALSE
INVARIANTS TypeOK HoldEndsOnce BalanceIsExact ChargedIsDelivered RefundedIsDead QueuedIsNotLost
PROPERTIES QueuedJobEnds KeepsContract
