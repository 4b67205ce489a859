\* Server build, one request and one reply of one byte; the recorded reply
\* is sent back to the server on a second connection.
CONSTANTS
    Method = 0
    SendLens = {1}
    MaxSends = 1
    ClientSalt = ClientSalt
    ServerSalt = ServerSalt
    NoKey = NoKey
    Upstream = Upstream
    Reflected = Reflected
SPECIFICATION Spec
INVARIANTS NoReflection
\* The connection ends when both sides stop sending.
CHECK_DEADLOCK FALSE
