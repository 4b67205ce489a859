\* A server whose salt filter may fail a check or an add, with a stream
\* replayed to a second connection.
CONSTANTS
    Method = 0
    SendLens = {1}
    MaxSends = 1
    NDEBUG = FALSE
    MODULE_REMOTE = TRUE
    Receivers <- MCTwoReceivers
    Tamper = FALSE
    MaxTamper = 0
    Salt = Salt
    NoKey = NoKey
    SealMayFail = FALSE
    CallerRetries = FALSE
    FilterMayErr = TRUE
    SaltForger = FALSE
    r1 = r1
    r2 = r2
SPECIFICATION Spec
INVARIANTS ReplayRejected
\* The stream stops when the application stops sending.
CHECK_DEADLOCK FALSE
