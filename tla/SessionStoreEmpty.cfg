\* Two workers, one crash, and the reaper afterwards.
CONSTANTS
    NULL = NULL
    Sids = {s1}
    Workers = {w1, w2}
    Sweeper = sweeper
    Durable = TRUE
    GenTtl = 2
    Grace = 1
    Coalesce = 1
    IdleTtl = 3
    AbsoluteTtl = 4
    MaxLiveGens = 2
    RetiredMemory = 1
    KillOnRevoke = TRUE
    MaxTokens = 3
    MaxTime = 5
    MaxStall = 0
    ReapAfter = 1
    StoreFaults = FALSE
    MaxRestarts = 1
    MaxQueue = 4
SPECIFICATION StoreSpec
SYMMETRY Symmetry
INVARIANT SomeGeneration
CHECK_DEADLOCK FALSE
