\* A provider is disabled during a callback.
CONSTANTS
    NULL = NULL
    Nobody = NULL
    Default = "default"
    Ids = {"entra"}
    Issuers = {i0, i1, i2}
    DefaultIssuer = i0
    Admins = {"a1"}
    MaxKeys = 1
    MaxInputs = 3
    Attempts = {"k1"}
    AttemptTtl = 1
    AttemptsHeld = 2
    Browsers = {b1}
    TxnTtl = 1
    RefetchMin = 1
    MaxTxns = 2
SPECIFICATION LoginSpec
INVARIANT NoSessionAfterDisable
CHECK_DEADLOCK FALSE
