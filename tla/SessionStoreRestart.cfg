\* Two workers on one session, crashes and clean restarts;
\* one beside the reaper and a full disk;
\* and the audit record with two recorders.
CONSTANTS
    NULL = NULL
    Sids = {s1}
    Workers = {w1, w2}
    Sweeper = sweeper
    Durable = TRUE
    GenTtl = 2
    Grace = 1
    Coalesce = 1
    IdleTtl = 3
    AbsoluteTtl = 4
    MaxLiveGens = 2
    RetiredMemory = 1
    KillOnRevoke = TRUE
    MaxTokens = 3
    MaxTime = 6
    MaxStall = 0
    ReapAfter = 1
    StoreFaults = TRUE
    MaxRestarts = 2
    MaxQueue = 4
    Threads = {"t1", "t2"}
    Tenants = {"acme"}
    Pairs = {"p1"}
    Capacity = 1
    Window = 2
    SeenMax = 1
    Retention = 1
    Limit = 1
    Outcomes = {"success"}
    MaxInputs = 5
SPECIFICATION MCSpec
SYMMETRY Symmetry
INVARIANTS
    RaceFailsNoBatch
    StoreTypeOK
    TombstoneSurvives
    WriteBehindConverges
PROPERTIES
    RestartKeepsCookies
    ReapSparesTheLiving
INVARIANTS
    SinkKeepsCount
    RecordTellsAll
CHECK_DEADLOCK FALSE
