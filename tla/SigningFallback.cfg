\* A restart after which the newest seed does not open.
CONSTANTS
    NULL = NULL
    Threads = {t1}
    Cli = cli
    PublishLead = 2
    Leads = {}
    MaxTtl = 2
    RetireMargin = 0
    ReloadInterval = 2
    RefreshPeriod = 1
    Lag = 0
    MaxStale = 1
    KeyFaults = {"seed"}
    MaxKeys = 3
    MaxClock = 6
    MaxReboots = 1
SPECIFICATION SigningSpec
INVARIANT FallbackVerifies
CHECK_DEADLOCK FALSE
