CONSTANTS
    o1 = o1
    o2 = o2
    o3 = o3
    Op = {o1, o2, o3}
    Lease = 3
    RenewInterval = 1
    TTL = 5
    MaxClaim = 1
    MaxRun = 6
    MaxClock = 9
    MaxFaults = 0
    MaxCrashes = 0
SPECIFICATION Spec
SYMMETRY OpSymmetry
CHECK_DEADLOCK FALSE
INVARIANT OneSystemOperation
