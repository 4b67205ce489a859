\* One sender, one receiver, no attacker, asserts compiled in.
CONSTANTS
    Method = 0
    SendLens <- MCSendLens
    MaxSends = 3
    NDEBUG = FALSE
    MODULE_REMOTE = TRUE
    Receivers <- MCOneReceiver
    Tamper = FALSE
    MaxTamper = 0
    Salt = Salt
    NoKey = NoKey
    SealMayFail = FALSE
    CallerRetries = FALSE
    FilterMayErr = FALSE
    SaltForger = FALSE
    r1 = r1
    r2 = r2
SPECIFICATION Spec
INVARIANTS TypeOK StreamConserved
PROPERTIES AllDelivered
\* The stream stops when the application stops sending.
CHECK_DEADLOCK FALSE
