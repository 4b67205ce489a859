\* Server build: the recorded stream of one client is read by two decrypting
\* contexts, the client's own connection and an attacker's replay of it, to
\* which the attacker may send the salt with bytes altered (AES-256-GCM: a
\* 32-byte salt, of which the subkey derivation reads 16 bytes).
CONSTANTS
    Method = 2
    SendLens <- MCReplayLens
    MaxSends = 2
    NDEBUG = FALSE
    MODULE_REMOTE = TRUE
    Receivers <- MCTwoReceivers
    Tamper = FALSE
    MaxTamper = 2
    SealMayFail = FALSE
    CallerRetries = FALSE
    FilterMayErr = FALSE
    SaltForger = TRUE
    Salt = Salt
    NoKey = NoKey
    r1 = r1
    r2 = r2
SPECIFICATION Spec
INVARIANTS ReplayRejected
\* The stream stops when the application stops sending or a check fails.
CHECK_DEADLOCK FALSE
