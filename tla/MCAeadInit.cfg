\* Two clients and a server, two passwords, every kind of method string;
\* the server's mbed TLS has no GCM.
CONSTANTS
    Peers <- MCPeers
    Passwords <- MCPasswords
    Names <- MCNames
    NULL = NULL
    MbedTLS <- MCMbedTLS
    client1 = client1
    client2 = client2
    server = server
    pw1 = pw1
    pw2 = pw2
SYMMETRY MCSymmetry
SPECIFICATION Spec
INVARIANTS TypeOK ConfigAgreement
PROPERTIES NoLateFatal
\* A process that ended in FATAL() takes no further step.
CHECK_DEADLOCK FALSE
