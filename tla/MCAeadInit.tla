----------------------------- MODULE MCAeadInit -----------------------------
(* Model-checking instance of AeadInit.                                    *)
EXTENDS AeadInit, TLC

CONSTANTS client1, client2, server, pw1, pw2

MCPeers     == {client1, client2, server}
MCPasswords == {pw1, pw2}
\* The six names of the table, the first one upper-cased (strcmp() is case
\* sensitive), a name that is no AEAD method, and no name at all.
MCNames     == {"aes-128-gcm", "aes-192-gcm", "aes-256-gcm", "chacha20-poly1305",
                "chacha20-ietf-poly1305", "xchacha20-ietf-poly1305",
                "AES-128-GCM", "rc4-md5", NULL}
\* The clients link a full mbed TLS, the server an mbed TLS built without GCM.
MCMbedTLS   == [p \in MCPeers |-> IF p = server THEN {} ELSE MbedTLSAes]
\* Passwords are interchangeable, and so are the two clients.
MCSymmetry  == Permutations(MCPasswords) \cup Permutations({client1, client2})
=============================================================================
