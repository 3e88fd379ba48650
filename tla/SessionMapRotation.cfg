\* One session, two workers racing beside the sweeper;
\* and logins, two at once, beside an administrator, and two administrators.
CONSTANTS
    NULL = NULL
    Sids = {s1}
    Workers = {w1, w2}
    Sweeper = sweeper
    Durable = FALSE
    GenTtl = 3
    Grace = 2
    Coalesce = 1
    IdleTtl = 4
    AbsoluteTtl = 5
    MaxLiveGens = 3
    RetiredMemory = 1
    KillOnRevoke = TRUE
    MaxTokens = 5
    MaxTime = 6
    MaxStall = 1
    Nobody = NULL
    Default = "default"
    Ids = {"entra"}
    Issuers = {i0, i1, i2}
    DefaultIssuer = i0
    Admins = {"a1", "a2"}
    MaxKeys = 2
    MaxInputs = 4
    Attempts = {"k1"}
    AttemptTtl = 1
    AttemptsHeld = 2
    Browsers = {b1, b2}
    TxnTtl = 1
    RefetchMin = 1
    MaxTxns = 2
SPECIFICATION MCSpec
SYMMETRY Symmetry
INVARIANTS
    TypeOK
    OneCurrentGeneration
    MintsAreSpaced
    GenerationsIndexed
    KilledOnce
PROPERTIES
    RotationInvalidatesNothing
    RefusalIsFinal
    AbsoluteEndFixed
INVARIANTS
    LoginsAreEarned
    DisableHolds
    ProvidersServed
    EarlierPeopleKeepIssuer
CHECK_DEADLOCK FALSE
