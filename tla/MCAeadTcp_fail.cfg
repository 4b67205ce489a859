\* AES-GCM: the mbed TLS seal may fail once, the caller calls aead_encrypt()
\* again on the same context, and the salt filter may return errors.
CONSTANTS
    Method = 0
    SendLens = {1, 2}
    MaxSends = 3
    NDEBUG = FALSE
    MODULE_REMOTE = TRUE
    Receivers <- MCOneReceiver
    Tamper = FALSE
    MaxTamper = 0
    Salt = Salt
    NoKey = NoKey
    SealMayFail = TRUE
    CallerRetries = TRUE
    FilterMayErr = TRUE
    SaltForger = FALSE
    r1 = r1
    r2 = r2
SPECIFICATION Spec
INVARIANTS TcpNonceUnique
PROPERTIES ChannelRefinement
\* The stream stops when the application stops sending.
CHECK_DEADLOCK FALSE
