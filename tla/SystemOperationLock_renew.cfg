CONSTANTS
    o1 = o1
    o2 = o2
    o3 = o3
    Op = {o1, o2, o3}
    Lease = 6
    RenewInterval = 2
    TTL = 7
    MaxClaim = 1
    MaxRun = 9
    MaxClock = 11
    MaxFaults = 1
    MaxCrashes = 1
SPECIFICATION Spec
SYMMETRY OpSymmetry
CHECK_DEADLOCK FALSE
INVARIANTS TypeOK FreshLockIsKept
PROPERTY FreshHolderIsAlone
