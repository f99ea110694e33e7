CONSTANTS
    r1 = r1
    r2 = r2
    r3 = r3
    p1 = p1
    p2 = p2
    Request = {r1, r2}
    Payload = {p1, p2}
    TTL = 3
    ProcessingTimeout = 2
    Backoff = 1
    MaxClaim = 1
    MaxRun = 2
    MaxClock = 7
    MaxFaults = 1
    MaxCrashes = 1
SPECIFICATION Spec
SYMMETRY IdempotencySymmetry
CHECK_DEADLOCK FALSE
INVARIANTS TypeOK OneExecutionAtATime ReplayIsOwnResponse
PROPERTY RetryDoesNotRepeat
