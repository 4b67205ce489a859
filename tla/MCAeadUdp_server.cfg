\* Server build: three datagrams of one or two bytes, a network that
\* duplicates and reorders, and an attacker injecting two corrupted or
\* resalted ones.
CONSTANTS
    Method = 5
    SendLens = {1, 2}
    MaxSends = 3
    MODULE_REMOTE = TRUE
    Salts <- MCSalts
    Master = Master
    MaxAttacks = 2
    FilterMayErr = FALSE
    SaltRewrite = TRUE
    s1 = s1
    s2 = s2
    s3 = s3
SYMMETRY MCSaltSymmetry
SPECIFICATION Spec
INVARIANTS TypeOK UdpSaltOnce RoundTrip
\* Once every datagram has been sent, opened and corrupted up to the bounds,
\* the remaining steps repeat states; nothing is left that must happen.
CHECK_DEADLOCK FALSE
