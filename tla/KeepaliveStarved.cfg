\* A steady stream of other logins.
CONSTANTS
    NULL = NULL
    Custodies = {c1}
    Lifetime = 10
    Lead = 60
    Jitter = 10
    BaseBackoff = 1
    MaxBackoff = 4
    MaxConcurrent = 1
    IdleTick = 2
    Spread = 2
    KillOnRevoke = TRUE
    MaxCall = 1
    Events = {"other_login"}
    Faults = {}
    MaxTime = 12
    LoginBy = 0
    MaxTok = 1
    MaxRestarts = 0
SPECIFICATION Spec
INVARIANT KeptWarm
CHECK_DEADLOCK FALSE
