CONSTANTS
    a1 = a1
    a2 = a2
    Admin = {a1, a2}
    Ops = {"request", "refund", "finalize"}
    Deduct = {TRUE, FALSE}
    Amount = 2
    InitialBalance = 2
    MaxCalls = 4
    MaxSpend = 1
    MaxFaults = 1
    MaxCrashes = 1
SPECIFICATION Spec
SYMMETRY AdminSymmetry
CHECK_DEADLOCK FALSE
INVARIANTS TypeOK OneRefundAtATime UserIsWhole SequentialDeductsOnce RefundedWasPaidOut
PROPERTY RefundedIsFinal
