\* Server build: one datagram, which the attacker may resend under another
\* salt.
CONSTANTS
    Method = 0
    SendLens = {1}
    MaxSends = 1
    MODULE_REMOTE = TRUE
    Salts <- MCSalts
    Master = Master
    MaxAttacks = 1
    FilterMayErr = FALSE
    SaltRewrite = TRUE
    s1 = s1
    s2 = s2
    s3 = s3
SYMMETRY MCSaltSymmetry
SPECIFICATION Spec
INVARIANTS UdpReplayRejected
\* Once every datagram has been sent, opened and corrupted up to the bounds,
\* the remaining steps repeat states; nothing is left that must happen.
CHECK_DEADLOCK FALSE
