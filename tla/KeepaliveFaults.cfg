\* Everything that can fail, and a restart;
\* and signing keys: a rotation by a thread and by the command, a restart;
\* and the keyring, with two rows and four keys at most.
CONSTANTS
    NULL = NULL
    Custodies = {c1}
    Lifetime = 4
    Lead = 60
    Jitter = 10
    BaseBackoff = 1
    MaxBackoff = 4
    MaxConcurrent = 1
    IdleTick = 1
    Spread = 2
    KillOnRevoke = TRUE
    MaxCall = 1
    Events = {"other_login", "logout", "reap", "revoke"}
    Faults = {"busy", "lost", "read", "boot_read", "store", "panic"}
    MaxTime = 7
    LoginBy = 0
    MaxTok = 3
    MaxRestarts = 1
    Threads = {t1}
    Cli = cli
    PublishLead = 3
    Leads = {0}
    MaxTtl = 1
    RetireMargin = 1
    ReloadInterval = 2
    RefreshPeriod = 1
    Lag = 0
    MaxStale = 1
    KeyFaults = {"read", "seed"}
    MaxKeys = 3
    MaxClock = 4
    MaxReboots = 1
    Rows = {r1, r2}
    MaxId = 4
    MaxInputs = 14
SPECIFICATION MCSpec
INVARIANTS TypeOK GrantKept DeadStaysDead DegradedMeansExpired
INVARIANTS
    RotationIsSeamless
    EmergencyTakesEffect
INVARIANTS
    NoRowStranded
CHECK_DEADLOCK FALSE
