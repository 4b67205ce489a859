\* Two datagrams: the key and nonce each is sealed under.
CONSTANTS
    Method = 5
    SendLens = {1}
    MaxSends = 2
    MODULE_REMOTE = TRUE
    Salts <- MCSalts
    Master = Master
    MaxAttacks = 0
    FilterMayErr = FALSE
    SaltRewrite = FALSE
    s1 = s1
    s2 = s2
    s3 = s3
SYMMETRY MCSaltSymmetry
SPECIFICATION Spec
INVARIANTS NoNonceReuse
\* Once every datagram has been sent, opened and corrupted up to the bounds,
\* the remaining steps repeat states; nothing is left that must happen.
CHECK_DEADLOCK FALSE
