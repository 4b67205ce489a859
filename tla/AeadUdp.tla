------------------------------ MODULE AeadUdp ------------------------------
(***************************************************************************)
(* The UDP one-shot codec of src/aead.c: aead_encrypt_all() seals each     *)
(* datagram on a fresh cipher_ctx_t, aead_decrypt_all() opens one on a     *)
(* fresh context and, in the server build, checks its salt against the     *)
(* replay filter.  The network may lose, duplicate, reorder and corrupt    *)
(* datagrams; every datagram ever sent stays available to an attacker.     *)
(*                                                                         *)
(* As in AeadTcp the AEAD is perfect: a datagram opens exactly when its    *)
(* body is a sealed item under the key and nonce the receiver uses.        *)
(***************************************************************************)
EXTENDS AeadCatalog, Integers, Sequences, FiniteSets

CONSTANTS
    Method,         \* cipher_t.method
    SendLens,       \* values of plaintext->len passed to aead_encrypt_all()
    MaxSends,       \* bound: number of aead_encrypt_all() calls
    MODULE_REMOTE,  \* TRUE for the server build, which checks salts
    Salts,          \* values rand_bytes() may draw for a salt
    Master,         \* cipher->key, derived from the password
    MaxAttacks,     \* bound: number of corrupted datagrams injected
    FilterMayErr,   \* TRUE: fs_sbf_check()/fs_sbf_add() may return an error
    SaltRewrite     \* TRUE: the attacker may also resend a datagram under a new salt

ASSUME Method \in Methods /\ SendLens \subseteq Nat
ASSUME {MODULE_REMOTE, FilterMayErr, SaltRewrite} \subseteq BOOLEAN

KeyLen == KeySize[Method]
TagLen == TagSize[Method]

VARIABLES
    net,        \* datagrams on the network: sent ones and injected ones
    sealed,     \* history: (key, nonce) of every aead_cipher_encrypt() call
    filter,     \* salts added to the replay filter
    delivered,  \* history: plaintext id and salt of each datagram aead_decrypt_all() opened
    last,       \* the last aead_decrypt_all() call: datagram and outcome
    attacks     \* number of corrupted datagrams injected

vars == << net, sealed, filter, delivered, last, attacks >>

UsedSalts == {d.salt : d \in net}

\* The key both ends use for UDP: aead_cipher_ctx_udp_set_key() installs
\* the master key in the mbed TLS context for AES-GCM; the libsodium calls
\* get cipher->key directly.  Either way no per-salt subkey is derived.
UdpKey == Master

\* cipher_ctx.nonce after sodium_memzero() in aead_ctx_init(): never set.
UdpNonce == 0

Datagram(kind, salt, plen, id) ==
    [kind |-> kind, salt |-> salt, len |-> KeyLen + plen + TagLen,
     key |-> UdpKey, nonce |-> UdpNonce, id |-> id]

-----------------------------------------------------------------------------
\* Mutant: the context is set up with enc = 0, so rand_bytes() is skipped
\* and the salt stays all zero.
aead_encrypt_all_saltNotDrawn(plen) ==
    /\ Cardinality(sealed) < MaxSends
    /\ LET id == Cardinality(sealed) + 1 IN
          /\ net'    = net \cup {Datagram("sealed", "zero", plen, id)}
          /\ sealed' = sealed \cup {[key |-> UdpKey, nonce |-> UdpNonce, id |-> id]}
    /\ UNCHANGED << filter, delivered, last, attacks >>

\* aead_encrypt_all(): a fresh encrypting context draws a salt; the output is
\* salt || AEAD(key, nonce, plaintext) || tag.
aead_encrypt_all(plen) ==
    /\ Cardinality(sealed) < MaxSends
    /\ \E salt \in Salts \ UsedSalts :
          LET id == Cardinality(sealed) + 1 IN
          /\ net'    = net \cup {Datagram("sealed", salt, plen, id)}
          /\ sealed' = sealed \cup {[key |-> UdpKey, nonce |-> UdpNonce, id |-> id]}
    /\ UNCHANGED << filter, delivered, last, attacks >>

\* fs_sbf_check() of salt s: 1 if the filter has it, 0 if not, or an error.
SbfCheck(s) == {IF s \in filter THEN 1 ELSE 0} \cup (IF FilterMayErr THEN {-1} ELSE {})

\* History: a datagram with salt s was opened earlier.
Accepted(s) == \E i \in 1 .. Len(delivered) : delivered[i].salt = s

\* Mutant: the filter is consulted but the salt is never added.
UdpSbfAdd_noAdd(ok, salt) == filter' = filter

\* Mutant: the salt is added as soon as it passed the check, before the
\* datagram is opened, as aead_decrypt() does for TCP.
UdpSbfAdd_beforeOpen(ok, salt) ==
    IF MODULE_REMOTE THEN filter' = filter \cup {salt} ELSE filter' = filter

\* MODULE_REMOTE, after the datagram opened: fs_sbf_add() adds the salt, or
\* fails and the failure is only logged.
UdpSbfAdd(ok, salt) ==
    IF ok /\ MODULE_REMOTE
    THEN filter' \in {filter \cup {salt}} \cup (IF FilterMayErr THEN {filter} ELSE {})
    ELSE filter' = filter

\* Mutant: one byte more than salt + tag is also taken as too short.
aead_decrypt_all_offByOne(d) ==
    \E chk \in SbfCheck(d.salt) :
    LET short  == d.len <= KeyLen + TagLen + 1
        seen   == MODULE_REMOTE /\ chk = 1
        opens  == d.kind = "sealed" /\ d.key = UdpKey /\ d.nonce = UdpNonce
        ok     == ~short /\ ~seen /\ opens
    IN
    /\ UdpSbfAdd(ok, d.salt)
    /\ delivered' = IF ok THEN Append(delivered, [id |-> d.id, salt |-> d.salt]) ELSE delivered
    /\ last'      = [dg |-> d, ok |-> ok, prior |-> Accepted(d.salt)]
    /\ UNCHANGED << net, sealed, attacks >>

\* aead_decrypt_all() on datagram d: reject one not longer than salt + tag,
\* reject a salt fs_sbf_check() reports (server; a check error is only
\* logged), open the body with the zero nonce, and only then add the salt.
aead_decrypt_all(d) ==
    \E chk \in SbfCheck(d.salt) :
    LET short  == d.len <= KeyLen + TagLen
        seen   == MODULE_REMOTE /\ chk = 1
        opens  == d.kind = "sealed" /\ d.key = UdpKey /\ d.nonce = UdpNonce
        ok     == ~short /\ ~seen /\ opens
    IN
    /\ UdpSbfAdd(ok, d.salt)
    /\ delivered' = IF ok THEN Append(delivered, [id |-> d.id, salt |-> d.salt]) ELSE delivered
    /\ last'      = [dg |-> d, ok |-> ok, prior |-> Accepted(d.salt)]
    /\ UNCHANGED << net, sealed, attacks >>

\* The attacker flips bits in the body of a datagram it has seen, or cuts
\* it down to salt and tag, and sends the result.
Corrupt(d) ==
    /\ attacks < MaxAttacks
    /\ d.kind = "sealed"
    /\ \/ net' = net \cup {[d EXCEPT !.kind = "junk"]}
       \/ net' = net \cup {[d EXCEPT !.kind = "junk", !.len = KeyLen + TagLen]}
    /\ attacks' = attacks + 1
    /\ UNCHANGED << sealed, filter, delivered, last >>

\* The attacker resends a datagram it has seen with its salt bytes replaced:
\* the salt is sent in the clear and enters neither the key nor the nonce.
Resalt(d, s) ==
    /\ SaltRewrite /\ attacks < MaxAttacks
    /\ d.kind = "sealed" /\ s # d.salt
    /\ net' = net \cup {[d EXCEPT !.salt = s]}
    /\ attacks' = attacks + 1
    /\ UNCHANGED << sealed, filter, delivered, last >>

Init ==
    /\ net = {} /\ sealed = {} /\ filter = {} /\ delivered = << >>
    /\ last = [dg |-> [kind |-> "none"], ok |-> TRUE, prior |-> FALSE]
    /\ attacks = 0

Next ==
    \/ \E plen \in SendLens : aead_encrypt_all(plen)
    \/ \E d \in net : aead_decrypt_all(d) \/ Corrupt(d)
    \/ \E d \in net, s \in Salts : Resalt(d, s)

Spec == Init /\ [][Next]_vars

-----------------------------------------------------------------------------
(* Properties.                                                             *)

TypeOK ==
    /\ net \subseteq [kind : {"sealed", "junk"}, salt : Salts, len : Nat,
                      key : {UdpKey}, nonce : {UdpNonce}, id : 1 .. MaxSends]
    /\ filter \subseteq Salts
    /\ delivered \in Seq([id : 1 .. MaxSends, salt : Salts])
    /\ attacks \in 0 .. MaxAttacks

(* Replay rejection (spec 4.5, scenario S6): in the server build the       *)
(* plaintext of a datagram is returned at most once, however often the     *)
(* network or an attacker delivers it, and in whatever order.              *)
UdpReplayRejected ==
    \A i, j \in 1 .. Len(delivered) : i # j => delivered[i].id # delivered[j].id

(* Salt guard (spec 4.7): in the server build aead_decrypt_all() opens at  *)
(* most one datagram per salt, whatever the order of duplicates and        *)
(* rewritten copies, since a datagram's salt enters the filter only after  *)
(* it opened and is checked before every later one.                        *)
UdpSaltOnce ==
    \A i, j \in 1 .. Len(delivered) : i # j => delivered[i].salt # delivered[j].salt

(* Round trip (spec section 8, property 1): aead_decrypt_all() returns the *)
(* plaintext of any untampered datagram aead_encrypt_all() produced whose  *)
(* salt no datagram was opened under before -- also after corrupted or    *)
(* truncated copies of it with the same salt came first, since the salt    *)
(* enters the filter only once a datagram under it has opened.             *)
RoundTrip ==
    last.dg.kind = "sealed" /\ ~last.prior => last.ok

(* Nonce discipline (spec section 2 (b); comment "For UDP, nonces are      *)
(* generated randomly"): no two datagrams are sealed under the same key    *)
(* and nonce.                                                              *)
NoNonceReuse ==
    \A a, b \in sealed : a.id # b.id => << a.key, a.nonce >> # << b.key, b.nonce >>
=============================================================================
