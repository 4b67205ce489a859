------------------------------ MODULE AeadInit ------------------------------
(***************************************************************************)
(* Start-up of the processes at the two ends of a tunnel: aead_init()      *)
(* resolves the configured method name, aead_key_init() builds the         *)
(* cipher_t (method, master key derived from the password, key, nonce and  *)
(* tag lengths), and every connection then makes and releases session      *)
(* contexts with aead_ctx_init() and aead_ctx_release().  Each process is  *)
(* configured on its own and links its own mbed TLS; the two can talk only *)
(* if they end up with the same method and master key.                     *)
(*                                                                         *)
(* Data abstraction: the BLAKE2b digest of a password, key_len bytes long, *)
(* is the pair << password, key_len >> (digests of different lengths       *)
(* differ); an mbed TLS cipher info is its name.                           *)
(***************************************************************************)
EXTENDS AeadCatalog, FiniteSets

CONSTANTS
    Peers,      \* the processes: the local and the remote end
    Passwords,  \* passwords a configuration may give
    Names,      \* method strings a configuration may give
    NULL,       \* a NULL pointer: no method configured, no cipher yet
    MbedTLS     \* per process: the mbed TLS cipher names its library has

MbedTLSAes == {"AES-128-GCM", "AES-192-GCM", "AES-256-GCM"}

ASSUME MbedTLS \in [Peers -> SUBSET MbedTLSAes]

VARIABLES
    phase,      \* per process: "down", "up" (aead_init() returned), "fatal"
    conf,       \* per process: the password and method string it started with
    cipher,     \* per process: the cipher_t aead_init() returned, or NULL
    ctxs        \* per process: directions (enc = 1, dec = 0) with a live context

vars == << phase, conf, cipher, ctxs >>

-----------------------------------------------------------------------------
CIPHER_UNSUPPORTED == "unsupported"

\* supported_aead_ciphers_mbedtls[]
supported_aead_ciphers_mbedtls ==
    [m \in Methods |-> IF UsesMbedTLS(m) THEN << "AES-128-GCM", "AES-192-GCM",
                                                "AES-256-GCM" >>[m + 1]
                       ELSE CIPHER_UNSUPPORTED]

\* mbedtls_cipher_info_from_string() in the library process p links.
InfoFromString(p, s) == IF s \in MbedTLS[p] THEN s ELSE NULL

aead_get_cipher_type(p, method) ==
    IF method < AES128GCM \/ method >= AEAD_CIPHER_NUM THEN NULL
    ELSE IF method >= CHACHA20POLY1305 THEN NULL
    ELSE IF supported_aead_ciphers_mbedtls[method] = CIPHER_UNSUPPORTED THEN NULL
    ELSE InfoFromString(p, supported_aead_ciphers_mbedtls[method])

\* crypto_generichash() of the password into key_len bytes.
aead_derive_key(pass, key_len) == << pass, key_len >>

\* aead_key_init() ends in FATAL() ("Cannot initialize cipher").
Fatal == [fatal |-> TRUE]

\* Mutant: key_len taken in bits, as cipher->info->key_bitlen is.
CipherT_keyBits(method, pass, info, key_len) ==
    [fatal |-> FALSE, method |-> method, info |-> info,
     key |-> aead_derive_key(pass, KeySize[method]), key_len |-> key_len * 8,
     nonce_len |-> NonceSize[method], tag_len |-> TagSize[method]]

\* The cipher_t aead_key_init() fills in.
CipherT(method, pass, info, key_len) ==
    [fatal |-> FALSE, method |-> method, info |-> info,
     key |-> aead_derive_key(pass, KeySize[method]), key_len |-> key_len,
     nonce_len |-> NonceSize[method], tag_len |-> TagSize[method]]

\* Mutant: the "cipher not found" test is made after the key is derived,
\* when key_len is no longer 0.
aead_key_init_lateCheck(p, method, pass) ==
    IF method < AES128GCM \/ method >= AEAD_CIPHER_NUM THEN NULL
    ELSE LET info    == IF method >= CHACHA20POLY1305 THEN "libsodium"
                        ELSE aead_get_cipher_type(p, method)
             key_len == KeySize[method]
         IN  IF info = NULL /\ key_len = 0 THEN Fatal
             ELSE CipherT(method, pass, info, key_len)

\* aead_key_init(): the libsodium methods get a cipher_kt_t of their own,
\* the AES-GCM ones the mbed TLS info, which the test makes while key_len is
\* still 0 from the memset().
aead_key_init(p, method, pass) ==
    IF method < AES128GCM \/ method >= AEAD_CIPHER_NUM THEN NULL
    ELSE LET info    == IF method >= CHACHA20POLY1305 THEN "libsodium"
                        ELSE aead_get_cipher_type(p, method)
             key_len == 0
         IN  IF info = NULL /\ key_len = 0 THEN Fatal
             ELSE CipherT(method, pass, info, KeySize[method])

\* Mutant: the loop stops one name short of the end of the table.
RECURSIVE FindMethod_stopsShort(_, _)
FindMethod_stopsShort(name, m) ==
    IF m >= AEAD_CIPHER_NUM - 1 THEN AEAD_CIPHER_NUM
    ELSE IF supported_aead_ciphers[m] = name THEN m
    ELSE FindMethod_stopsShort(name, m + 1)

\* for (m = AES128GCM; m < AEAD_CIPHER_NUM; m++) if (strcmp(...) == 0) break;
RECURSIVE FindMethod(_, _)
FindMethod(name, m) ==
    IF m >= AEAD_CIPHER_NUM THEN m
    ELSE IF supported_aead_ciphers[m] = name THEN m
    ELSE FindMethod(name, m + 1)

\* The method aead_init() passes on: AES128GCM when none is configured,
\* AES256GCM for a name not in the table.
ResolveName(name) ==
    IF name = NULL THEN AES128GCM
    ELSE IF FindMethod(name, AES128GCM) >= AEAD_CIPHER_NUM THEN AES256GCM
    ELSE FindMethod(name, AES128GCM)

-----------------------------------------------------------------------------
(* Actions.                                                                *)

\* Process p starts with a password and a method string: aead_init().
aead_init(p, pass, name) ==
    LET c == aead_key_init(p, ResolveName(name), pass) IN
    /\ phase[p] = "down"
    /\ conf'   = [conf EXCEPT ![p] = [pass |-> pass, name |-> name]]
    /\ phase'  = [phase EXCEPT ![p] = IF c.fatal THEN "fatal" ELSE "up"]
    /\ cipher' = [cipher EXCEPT ![p] = IF c.fatal THEN NULL ELSE c]
    /\ UNCHANGED ctxs

\* A connection of p makes its context for direction enc: aead_ctx_init()
\* with aead_cipher_ctx_init(), which FATAL()s when the AES-GCM method has
\* no mbed TLS info.  Bound: one live context per direction.
aead_ctx_init(p, enc) ==
    LET m == cipher[p].method IN
    /\ phase[p] = "up" /\ enc \notin ctxs[p]
    /\ IF UsesMbedTLS(m) /\ aead_get_cipher_type(p, m) = NULL
       THEN phase' = [phase EXCEPT ![p] = "fatal"] /\ UNCHANGED ctxs
       ELSE ctxs' = [ctxs EXCEPT ![p] = @ \cup {enc}] /\ UNCHANGED phase
    /\ UNCHANGED << conf, cipher >>

\* The connection closes: aead_ctx_release().
aead_ctx_release(p, enc) ==
    /\ phase[p] = "up" /\ enc \in ctxs[p]
    /\ ctxs' = [ctxs EXCEPT ![p] = @ \ {enc}]
    /\ UNCHANGED << phase, conf, cipher >>

Init ==
    /\ phase  = [p \in Peers |-> "down"]
    /\ conf   = [p \in Peers |-> NULL]
    /\ cipher = [p \in Peers |-> NULL]
    /\ ctxs   = [p \in Peers |-> {}]

Next ==
    \E p \in Peers :
        \/ \E pass \in Passwords, name \in Names : aead_init(p, pass, name)
        \/ \E enc \in {0, 1} : aead_ctx_init(p, enc) \/ aead_ctx_release(p, enc)

Spec == Init /\ [][Next]_vars

-----------------------------------------------------------------------------
(* Properties.                                                             *)

TypeOK ==
    /\ phase \in [Peers -> {"down", "up", "fatal"}]
    /\ ctxs \in [Peers -> SUBSET {0, 1}]
    /\ \A p \in Peers : phase[p] = "up" =>
          /\ cipher[p].method \in Methods
          /\ cipher[p].key_len = KeySize[cipher[p].method]

\* Spec section 4.1: the literal name table, and the fallback of an unknown
\* name to aes-256-gcm.  The spec says nothing of a missing name; aead_init()
\* takes aes-128-gcm then.
SpecMethod ==
    [n \in {"aes-128-gcm", "aes-192-gcm", "aes-256-gcm", "chacha20-poly1305",
            "chacha20-ietf-poly1305", "xchacha20-ietf-poly1305"} |->
        CASE n = "aes-128-gcm"            -> AES128GCM
          [] n = "aes-192-gcm"            -> AES192GCM
          [] n = "aes-256-gcm"            -> AES256GCM
          [] n = "chacha20-poly1305"      -> CHACHA20POLY1305
          [] n = "chacha20-ietf-poly1305" -> CHACHA20POLY1305IETF
          [] OTHER                        -> XCHACHA20POLY1305IETF]
SpecResolve(name) ==
    IF name = NULL THEN AES128GCM
    ELSE IF name \in DOMAIN SpecMethod THEN SpecMethod[name] ELSE AES256GCM

Interoperable(p, q) ==
    cipher[p].method = cipher[q].method /\ cipher[p].key = cipher[q].key

(* Configuration agreement (spec sections 4.1, 4.2): two processes that    *)
(* both started can read each other's traffic -- same method, same master  *)
(* key -- exactly when they were given the same password and method names  *)
(* the spec's table resolves to the same method.  Checks aead_init()'s     *)
(* strcmp loop and fallback, and aead_key_init()'s key and sizes, over all *)
(* configured names, a wrongly cased one, an unknown one and none.         *)
ConfigAgreement ==
    \A p, q \in Peers :
        p # q /\ cipher[p] # NULL /\ cipher[q] # NULL =>
            (Interoperable(p, q) <=>
                /\ conf[p].pass = conf[q].pass
                /\ SpecResolve(conf[p].name) = SpecResolve(conf[q].name))

(* Configuration errors are fatal at initialisation (spec section 7): a    *)
(* process that aead_init() let start never dies later in aead_ctx_init()  *)
(* when a connection comes -- aead_key_init() rejects a method whose mbed  *)
(* TLS cipher is missing before it derives the key.                        *)
NoLateFatal ==
    [][\A p \in Peers : phase[p] = "up" => phase'[p] = "up"]_vars
=============================================================================
