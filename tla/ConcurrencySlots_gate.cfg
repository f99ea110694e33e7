CONSTANTS
    h1 = h1
    h2 = h2
    v1 = v1
    Request = {h1, h2}
    Call = {v1}
    MaxConcurrency = 1
    ExtraWait = 1
    ShortWaitTTL = TRUE
    MaxTrouble = 2
SPECIFICATION FairSpec
INVARIANTS TypeOK WorkIsBounded QueueIsBounded
PROPERTIES FullQueueHeals DeadSlotsGo
