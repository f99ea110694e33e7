CONSTANTS
    a1 = a1
    a2 = a2
    Admin = {a1, a2}
    Ops = {"refund", "finalize"}
    Deduct = {FALSE}
    Amount = 2
    InitialBalance = 3
    MaxCalls = 3
    MaxSpend = 0
    MaxFaults = 0
    MaxCrashes = 0
SPECIFICATION Spec
SYMMETRY AdminSymmetry
CHECK_DEADLOCK FALSE
INVARIANT DeductedAtMostOnce
