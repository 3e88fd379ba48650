\* A login beside the reaper.
CONSTANTS
    NULL = NULL
    Sids = {s1}
    Workers = {w1}
    Sweeper = sweeper
    Durable = TRUE
    GenTtl = 2
    Grace = 1
    Coalesce = 1
    IdleTtl = 3
    AbsoluteTtl = 4
    MaxLiveGens = 2
    RetiredMemory = 1
    KillOnRevoke = TRUE
    MaxTokens = 3
    MaxTime = 5
    MaxStall = 0
    ReapAfter = 1
    StoreFaults = FALSE
    MaxRestarts = 0
    MaxQueue = 4
SPECIFICATION StoreSpec
INVARIANT AcknowledgedCustodyKept
CHECK_DEADLOCK FALSE
