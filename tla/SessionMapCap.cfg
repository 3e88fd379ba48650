\* A cap narrower than the grace window, and a fair sweeper;
\* and the audit record with two recorders and a fair writer.
CONSTANTS
    NULL = NULL
    Sids = {s1}
    Workers = {w1}
    Sweeper = sweeper
    Durable = FALSE
    GenTtl = 4
    Grace = 3
    Coalesce = 1
    IdleTtl = 4
    AbsoluteTtl = 6
    MaxLiveGens = 2
    RetiredMemory = 1
    KillOnRevoke = TRUE
    MaxTokens = 4
    MaxTime = 6
    MaxStall = 1
    Threads = {"t1", "t2"}
    Tenants = {"acme"}
    Pairs = {"p1"}
    Capacity = 1
    Window = 2
    SeenMax = 1
    Retention = 1
    Limit = 1
    Outcomes = {"success"}
    MaxInputs = 4
SPECIFICATION MCSpec
INVARIANT LiveGenerationsBounded
PROPERTIES CapTakesTheOldest TombstonedIsForgotten
PROPERTIES
    StallEnds
CHECK_DEADLOCK FALSE
