\* Two workers straddling a second before a clean restart.
CONSTANTS
    NULL = NULL
    Sids = {s1}
    Workers = {w1, w2}
    Sweeper = sweeper
    Durable = TRUE
    GenTtl = 2
    Grace = 1
    Coalesce = 1
    IdleTtl = 3
    AbsoluteTtl = 4
    MaxLiveGens = 2
    RetiredMemory = 1
    KillOnRevoke = TRUE
    MaxTokens = 3
    MaxTime = 5
    MaxStall = 1
    ReapAfter = 0
    StoreFaults = FALSE
    MaxRestarts = 1
    MaxQueue = 4
SPECIFICATION StoreSpec
SYMMETRY Symmetry
PROPERTY RestartKeepsCookies
CHECK_DEADLOCK FALSE
