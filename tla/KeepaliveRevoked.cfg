\* A crash between two commands of one result.
CONSTANTS
    NULL = NULL
    Custodies = {c1}
    Lifetime = 4
    Lead = 60
    Jitter = 10
    BaseBackoff = 1
    MaxBackoff = 4
    MaxConcurrent = 1
    IdleTick = 1
    Spread = 2
    KillOnRevoke = TRUE
    MaxCall = 1
    Events = {"revoke"}
    Faults = {}
    MaxTime = 6
    LoginBy = 0
    MaxTok = 1
    MaxRestarts = 1
SPECIFICATION Spec
INVARIANT RevokedStaysOut
CHECK_DEADLOCK FALSE
