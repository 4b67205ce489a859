\* Asserts compiled in; plaintext lengths of 64 KiB and more.
CONSTANTS
    Method = 0
    SendLens <- MCWrapLens
    MaxSends = 1
    NDEBUG = FALSE
    MODULE_REMOTE = TRUE
    Receivers <- MCOneReceiver
    Tamper = FALSE
    MaxTamper = 0
    Salt = Salt
    NoKey = NoKey
    SealMayFail = FALSE
    CallerRetries = FALSE
    FilterMayErr = FALSE
    SaltForger = FALSE
    r1 = r1
    r2 = r2
SPECIFICATION Spec
PROPERTIES ChannelRefinement
\* The stream stops when the application stops sending.
CHECK_DEADLOCK FALSE
