\* One sender, one receiver, an attacker with two steps on the bytes in flight.
CONSTANTS
    Method = 4
    SendLens = {1, 2}
    MaxSends = 2
    NDEBUG = FALSE
    MODULE_REMOTE = TRUE
    Receivers <- MCOneReceiver
    Tamper = TRUE
    MaxTamper = 2
    Salt = Salt
    NoKey = NoKey
    SealMayFail = FALSE
    CallerRetries = FALSE
    FilterMayErr = FALSE
    SaltForger = FALSE
    r1 = r1
    r2 = r2
SPECIFICATION Spec
PROPERTIES ChannelRefinement
\* The stream stops when the application stops sending or a check fails.
CHECK_DEADLOCK FALSE
