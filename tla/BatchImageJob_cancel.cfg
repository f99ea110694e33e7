CONSTANTS
    w1 = w1
    w2 = w2
    Worker = {w1, w2}
    Hold = 2
    Balance = 3
    OtherFrozen = 2
    Cost = {1, 3}
    MaxRetries = 3
    MaxTrouble = 0
    LeaseTrouble = 2
SPECIFICATION Spec
CHECK_DEADLOCK FALSE
INVARIANT RefundedIsNotRunning
