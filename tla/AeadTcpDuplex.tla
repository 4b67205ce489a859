--------------------------- MODULE AeadTcpDuplex ---------------------------
(***************************************************************************)
(* One proxied TCP connection seen from the server: the client's request   *)
(* stream up to the server and the server's reply stream back, each one    *)
(* AeadTcp with its own encrypting context and salt, both under the master *)
(* key of the one password, and both read by server connections that      *)
(* share the server's salt filter.  The reply stream is read here by the   *)
(* connection an attacker opens to send the recorded reply back to the     *)
(* server; the client's own reading of it (a build without the filter) is  *)
(* AeadTcp's single-stream case and is left out.                           *)
(***************************************************************************)
EXTENDS Naturals

CONSTANTS
    Method,         \* cipher_t.method of both ends
    SendLens,       \* values of plaintext->len given to aead_encrypt()
    MaxSends,       \* bound: aead_encrypt() calls per direction
    ClientSalt,     \* the salt of the client's encrypting context
    ServerSalt,     \* the salt of the server's encrypting context
    NoKey,          \* the "salt" read from bytes that are not a salt
    Upstream,       \* the server connection the client talks to
    Reflected       \* the server connection the attacker talks to

VARIABLES
    u_einit, u_enonce, u_aborted, u_eerror, u_sent, u_wire,
    u_dinit, u_dnonce, u_dsalt, u_shifted, u_clen, u_status, u_delivered,
    u_tampered, u_forged,
    d_einit, d_enonce, d_aborted, d_eerror, d_sent, d_wire,
    d_dinit, d_dnonce, d_dsalt, d_shifted, d_clen, d_status, d_delivered,
    d_tampered, d_forged,
    filter          \* the server's salt filter, shared by its connections

upVars   == << u_einit, u_enonce, u_aborted, u_eerror, u_sent, u_wire, u_dinit,
              u_dnonce, u_dsalt, u_shifted, u_clen, u_status, u_delivered,
              u_tampered, u_forged >>
downVars == << d_einit, d_enonce, d_aborted, d_eerror, d_sent, d_wire, d_dinit,
              d_dnonce, d_dsalt, d_shifted, d_clen, d_status, d_delivered,
              d_tampered, d_forged >>
vars     == << upVars, downVars, filter >>

\* The client's aead_encrypt() calls and the server's aead_decrypt() calls
\* on the request stream; asserts on, no failures, no attacker.
Up == INSTANCE AeadTcp WITH
    Receivers <- {Upstream}, Salt <- ClientSalt, MODULE_REMOTE <- TRUE,
    NDEBUG <- FALSE, Tamper <- FALSE, MaxTamper <- 0, SealMayFail <- FALSE,
    CallerRetries <- FALSE, FilterMayErr <- FALSE, SaltForger <- FALSE,
    einit <- u_einit, enonce <- u_enonce, aborted <- u_aborted,
    eerror <- u_eerror, sent <- u_sent, wire <- u_wire, dinit <- u_dinit,
    dnonce <- u_dnonce, dsalt <- u_dsalt, shifted <- u_shifted, clen <- u_clen,
    status <- u_status, delivered <- u_delivered, tampered <- u_tampered,
    forged <- u_forged

\* The server's aead_encrypt() calls on its reply, whose stream is sent back
\* to the server on a connection of its own.
Down == INSTANCE AeadTcp WITH
    Receivers <- {Reflected}, Salt <- ServerSalt, MODULE_REMOTE <- TRUE,
    NDEBUG <- FALSE, Tamper <- FALSE, MaxTamper <- 0, SealMayFail <- FALSE,
    CallerRetries <- FALSE, FilterMayErr <- FALSE, SaltForger <- FALSE,
    einit <- d_einit, enonce <- d_enonce, aborted <- d_aborted,
    eerror <- d_eerror, sent <- d_sent, wire <- d_wire, dinit <- d_dinit,
    dnonce <- d_dnonce, dsalt <- d_dsalt, shifted <- d_shifted, clen <- d_clen,
    status <- d_status, delivered <- d_delivered, tampered <- d_tampered,
    forged <- d_forged

Init == Up!Init /\ Down!Init

\* A step of one direction leaves the other as it is; the filter is the
\* one state they share.  The server replies only once a request arrived.
Next ==
    \/ Up!Next /\ UNCHANGED downVars
    \/ Down!Next /\ UNCHANGED upVars /\ (d_sent' # d_sent => u_delivered[Upstream] # << >>)

Spec == Init /\ [][Next]_vars

-----------------------------------------------------------------------------
(* Reflection: the server returns as requests only plaintext a client      *)
(* encrypted -- its own reply stream, sent back to it, is rejected.  The   *)
(* salt filter that aead_decrypt() consults holds the salts the server     *)
(* received; aead_encrypt() does not add the salt it sends.                *)
NoReflection == d_delivered[Reflected] = << >>
=============================================================================
