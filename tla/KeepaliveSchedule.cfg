\* A provider that answers: deadlines;
\* and principals, grants and tokens.
CONSTANTS
    NULL = NULL
    Custodies = {c1, c2}
    Lifetime = 10
    Lead = 60
    Jitter = 10
    BaseBackoff = 1
    MaxBackoff = 4
    MaxConcurrent = 1
    IdleTick = 1
    Spread = 2
    KillOnRevoke = TRUE
    MaxCall = 1
    Events = {"revoke"}
    LoginBy = 2
    Faults = {}
    MaxTime = 18
    MaxTok = 1
    MaxRestarts = 0
    Tenants = {"acme", "default"}
    DefaultTenant = "default"
    Roles = {"reader"}
    DefaultRoles = "viewer"
    Requests <- MCRequests
    Audiences = {"search"}
    Lives = {NULL, 1}
    OldLives = {NULL, 0, 1}
    MaxTtl = 2
    MachineTtl = 2
    UserTtl = 2
    Asked = {NULL, 2}
    IdleTtl = 1
    TouchInterval = 2
    Lag = 1
    MaxPrincipals = 1
    MaxSecrets = 3
    MaxKeys = 1
    MaxWrites = 3
    MaxRequests = 2
    MaxInputs = 4
    MaxClock = 2
SPECIFICATION MCSpec
SYMMETRY Symmetry
INVARIANTS KeptWarm RevocationPropagates StaysScheduled OneRefreshAtATime
INVARIANTS
    CredentialsAsShown
    TokensAreDue
PROPERTIES
    SecretsAreCredentials
CHECK_DEADLOCK FALSE
