------------------------------ MODULE AeadTcp ------------------------------
(***************************************************************************)
(* The TCP stream codec of src/aead.c: one encrypting cipher_ctx_t fed by  *)
(* aead_encrypt(), the ciphertext byte stream it produces, and one or more *)
(* decrypting cipher_ctx_t's fed by aead_decrypt() with that stream cut    *)
(* into arbitrary segments.  The salt replay filter (fs_sbf_check/add) is  *)
(* shared by all decrypting contexts of a server process.                  *)
(*                                                                         *)
(* Data abstraction.  The stream is a sequence of items, each standing for *)
(* a run of bytes with its true length in bytes: the salt, a sealed length *)
(* field, a sealed payload, or junk (bytes that are no AEAD output under   *)
(* the receiver's key and nonce).  aead_cipher_decrypt() of a byte range   *)
(* succeeds exactly when the range is one sealed item of that length made  *)
(* under the same subkey and nonce: the AEAD is modelled as perfect.  A    *)
(* salt is the pair << its first 16 bytes, the rest >>; the subkey derived *)
(* from (master key, salt) is identified with the first component, the     *)
(* only bytes of the salt aead_cipher_ctx_set_subkey() reads.              *)
(* A payload is identified by the index of the aead_encrypt() call that    *)
(* sealed it.                                                              *)
(***************************************************************************)
EXTENDS AeadCatalog, Integers, Sequences, SequencesExt, FiniteSets

CONSTANTS
    Method,         \* cipher_t.method shared by both ends
    SendLens,       \* values of plaintext->len passed to aead_encrypt()
    MaxSends,       \* bound: number of aead_encrypt() calls
    NDEBUG,         \* TRUE when the build compiles assert() out
    MODULE_REMOTE,  \* TRUE for the server build, which checks salts
    Receivers,      \* decrypting contexts reading the recorded stream
    Tamper,         \* TRUE: an on-path attacker may alter unread bytes
    MaxTamper,      \* bound: number of attacker steps
    Salt,           \* the salt rand_bytes() drew for the encrypting context
    NoKey,          \* the "salt" read from bytes that are not a salt
    SealMayFail,    \* TRUE: mbedtls_cipher_auth_encrypt() may return an error
    CallerRetries,  \* TRUE: the caller calls aead_encrypt() again after an error
    FilterMayErr,   \* TRUE: fs_sbf_check()/fs_sbf_add() may return an error
    SaltForger      \* TRUE: a recorded stream may be replayed with salt bytes altered

ASSUME Method \in Methods
ASSUME SendLens \subseteq Nat \ {0} /\ MaxSends \in Nat
ASSUME NDEBUG \in BOOLEAN /\ MODULE_REMOTE \in BOOLEAN /\ Tamper \in BOOLEAN
ASSUME {SealMayFail, CallerRetries, FilterMayErr, SaltForger} \subseteq BOOLEAN

KeyLen == KeySize[Method]       \* salt_len = cipher->key_len
TagLen == TagSize[Method]

VARIABLES
    einit,      \* encrypting ctx: cipher_ctx->init
    enonce,     \* encrypting ctx: cipher_ctx->nonce, as a number
    aborted,    \* an assert() in aead_chunk_encrypt() stopped the process
    eerror,     \* an aead_encrypt() call has returned CRYPTO_ERROR
    sent,       \* history: the plaintexts handed to aead_encrypt()
    wire,       \* the ciphertext stream, as a sequence of items
    dinit,      \* decrypting ctx r: cipher_ctx->init
    dnonce,     \* decrypting ctx r: cipher_ctx->nonce
    dsalt,      \* decrypting ctx r: cipher_ctx->salt
    shifted,    \* decrypting ctx r: stream bytes shifted out of chunk
    clen,       \* decrypting ctx r: cipher_ctx->chunk->len
    status,     \* decrypting ctx r: "open", or "error" once CRYPTO_ERROR
    delivered,  \* history: plaintexts aead_decrypt() returned to r
    filter,     \* salts added to the replay filter
    tampered,   \* number of attacker steps taken
    forged      \* connection r: which salt bytes the attacker altered for it

encVars  == << einit, enonce, aborted, eerror, sent >>
decVars  == << dinit, dnonce, dsalt, shifted, clen, status, delivered >>
atkVars  == << tampered, forged >>
vars     == << encVars, wire, decVars, filter, atkVars >>

Item(kind, len, key, nonce, val) ==
    [kind |-> kind, len |-> len, key |-> key, nonce |-> nonce, val |-> val]

Msg(id, len) == [id |-> id, len |-> len]

\* The salt rand_bytes() drew in aead_ctx_init() for the encrypting context.
EncSalt == << Salt, 0 >>

SALTBYTES == 16     \* crypto_generichash_blake2b_SALTBYTES

\* Mutant: the salt is not passed to BLAKE2b (NULL salt): every connection
\* gets the same subkey.
SubKey_noSalt(s) == Salt

\* aead_cipher_ctx_set_subkey(): BLAKE2b keyed with the master key, salted
\* with the first SALTBYTES bytes of the salt.
SubKey(s) == s[1]

-----------------------------------------------------------------------------
(* Byte offsets in the stream.                                             *)

Starts(w) == LET s[i \in 0 .. Len(w)] == IF i = 0 THEN 0 ELSE s[i - 1] + w[i].len
             IN s

ItemStart(i) == Starts(wire)[i - 1]
WireLen      == Starts(wire)[Len(wire)]
Received(r)  == shifted[r] + clen[r]
Avail(r)     == WireLen - Received(r)

\* Bytes from the read position of r to the end of the item it lies in.
ToBoundary(r) ==
    LET i == CHOOSE i \in 1 .. Len(wire) :
                 ItemStart(i) <= Received(r) /\ Received(r) < ItemStart(i + 1)
    IN  ItemStart(i + 1) - Received(r)

\* The segment sizes a read() hands to aead_decrypt(): up to one byte short
\* of the next item boundary, up to it, one byte past it, or all bytes in
\* flight; and, from a boundary, a single byte.  The read positions this reaches in
\* each item are its first byte, its second, its last, and its end.
AtBoundary(r) == \E i \in 1 .. Len(wire) : ItemStart(i) = Received(r)
ReadSizes(r) ==
    IF Avail(r) = 0 THEN {}
    ELSE ({ToBoundary(r) - 1, ToBoundary(r), ToBoundary(r) + 1, Avail(r)}
          \cup (IF AtBoundary(r) THEN {1} ELSE {})) \cap 1 .. Avail(r)

-----------------------------------------------------------------------------
(* aead_cipher_decrypt() on the len bytes at offset off: the set of sealed *)
(* items it authenticates (empty: the tag check fails).                    *)
Open(key, off, len, n) ==
    {wire[i] : i \in {i \in 1 .. Len(wire) :
                        /\ ItemStart(i) = off
                        /\ wire[i].len = len
                        /\ wire[i].kind \in {"len", "pay"}
                        /\ wire[i].key = key
                        /\ wire[i].nonce = n}}

Res(st, off, cl, n, out) == [st |-> st, off |-> off, clen |-> cl, n |-> n, out |-> out]

\* Mutant: the chunk is taken to be incomplete also when exactly complete.
aead_chunk_decrypt_waitsOnFull(key, off, cl, n) ==
    IF cl <= 2 * TagLen + CHUNK_SIZE_LEN THEN Res("more", off, cl, n, << >>)
    ELSE LET lenct == Open(key, off, CHUNK_SIZE_LEN + TagLen, n) IN
    IF lenct = {} THEN Res("error", off, cl, n, << >>)
    ELSE LET mlen      == (CHOOSE c \in lenct : TRUE).val
             chunk_len == 2 * TagLen + CHUNK_SIZE_LEN + mlen
         IN
    IF mlen > CHUNK_SIZE_MASK \/ mlen = 0 THEN Res("error", off, cl, n, << >>)
    ELSE IF cl <= chunk_len THEN Res("more", off, cl, n, << >>)
    ELSE LET payct == Open(key, off + CHUNK_SIZE_LEN + TagLen, mlen + TagLen, n + 1) IN
    IF payct = {} THEN Res("error", off, cl, n + 1, << >>)
    ELSE Res("ok", off + chunk_len, cl - chunk_len, n + 2,
             << Msg((CHOOSE c \in payct : TRUE).val, mlen) >>)

\* aead_chunk_decrypt(): pop one chunk from the front of the reassembly
\* buffer (cl bytes at stream offset off) using nonce n.
aead_chunk_decrypt(key, off, cl, n) ==
    IF cl <= 2 * TagLen + CHUNK_SIZE_LEN THEN Res("more", off, cl, n, << >>)
    ELSE LET lenct == Open(key, off, CHUNK_SIZE_LEN + TagLen, n) IN
    IF lenct = {} THEN Res("error", off, cl, n, << >>)
    ELSE LET mlen      == (CHOOSE c \in lenct : TRUE).val
             chunk_len == 2 * TagLen + CHUNK_SIZE_LEN + mlen
         IN
    IF mlen > CHUNK_SIZE_MASK \/ mlen = 0 THEN Res("error", off, cl, n, << >>)
    ELSE IF cl < chunk_len THEN Res("more", off, cl, n, << >>)
    ELSE LET payct == Open(key, off + CHUNK_SIZE_LEN + TagLen, mlen + TagLen, n + 1) IN
    IF payct = {} THEN Res("error", off, cl, n + 1, << >>)
    ELSE Res("ok", off + chunk_len, cl - chunk_len, n + 2,
             << Msg((CHOOSE c \in payct : TRUE).val, mlen) >>)

\* Mutant: NEED_MORE is returned even after chunks were popped in this call.
RECURSIVE DecryptLoop_dropsPartial(_, _, _, _, _)
DecryptLoop_dropsPartial(key, off, cl, n, out) ==
    IF cl = 0 THEN Res("ok", off, cl, n, out)
    ELSE LET c == aead_chunk_decrypt(key, off, cl, n) IN
         IF c.st = "error" THEN c
         ELSE IF c.st = "more" THEN Res("more", off, cl, n, out)
         ELSE DecryptLoop_dropsPartial(key, c.off, c.clen, c.n, out \o c.out)

\* Mutant: the loop works on a copy of the nonce that is never written back.
RECURSIVE DecryptLoop_nonceNotKept(_, _, _, _, _)
DecryptLoop_nonceNotKept(key, off, cl, n, out) ==
    IF cl = 0 THEN Res("ok", off, cl, n, out)
    ELSE LET c == aead_chunk_decrypt(key, off, cl, n) IN
         IF c.st = "error" THEN c
         ELSE IF c.st = "more" THEN
                 IF out = << >> THEN Res("more", off, cl, n, out)
                 ELSE Res("ok", off, cl, n, out)
         ELSE DecryptLoop_nonceNotKept(key, c.off, c.clen, n, out \o c.out)

\* The while (chunk->len > 0) loop of aead_decrypt(): pop chunks until the
\* buffer is empty or short of a chunk; NEED_MORE ends the call with
\* CRYPTO_NEED_MORE only if nothing was popped, else with CRYPTO_OK.
RECURSIVE DecryptLoop(_, _, _, _, _)
DecryptLoop(key, off, cl, n, out) ==
    IF cl = 0 THEN Res("ok", off, cl, n, out)
    ELSE LET c == aead_chunk_decrypt(key, off, cl, n) IN
         IF c.st = "error" THEN c
         ELSE IF c.st = "more" THEN
                 IF out = << >> THEN Res("more", off, cl, n, out)
                 ELSE Res("ok", off, cl, n, out)
         ELSE DecryptLoop(key, c.off, c.clen, c.n, out \o c.out)

-----------------------------------------------------------------------------
(* aead_encrypt(): seal one chunk; the first call also emits the salt.     *)

\* The salt connection r reads from the first key_len bytes of its stream.
ReadSalt(r) ==
    IF wire # << >> /\ wire[1].kind = "salt"
    THEN << IF forged[r] = "prefix" THEN NoKey ELSE wire[1].key,
           IF forged[r] = "tail" THEN 1 ELSE 0 >>
    ELSE << NoKey, 0 >>

\* The caller may call aead_encrypt(): the connection is up and, after a
\* CRYPTO_ERROR, only a caller that retries on the same context does.
EncryptCallable ==
    /\ ~aborted
    /\ ~eerror \/ CallerRetries
    /\ Len(sent) < MaxSends

\* assert(plen <= CHUNK_SIZE_MASK) fails: the process aborts.
AssertFails(len) ==
    /\ EncryptCallable
    /\ ~NDEBUG /\ len % UINT16 > CHUNK_SIZE_MASK
    /\ aborted' = TRUE
    /\ UNCHANGED << einit, enonce, eerror, sent, wire, decVars, filter, atkVars >>

\* How aead_chunk_encrypt() ends: both seals succeed, the length seal fails
\* (nonce untouched), or the payload seal fails (nonce advanced once).  Only
\* mbedtls_cipher_auth_encrypt() can fail; the libsodium encrypt calls
\* always return 0.  Bound: at most one failure per connection.
SealOutcomes ==
    IF SealMayFail /\ UsesMbedTLS(Method) /\ ~eerror
    THEN {"ok", "lenfail", "payfail"} ELSE {"ok"}
NonceSteps == [ok |-> 2, lenfail |-> 0, payfail |-> 1]

\* Mutant: the payload is sealed under the nonce of the length field (the
\* sodium_increment() between the two seals is missing).
aead_encrypt_nonceOnce(len) ==
    LET plen      == len % UINT16
        real_plen == IF plen < CHUNK_SIZE_MASK THEN plen ELSE CHUNK_SIZE_MASK
        salt      == IF einit THEN << >> ELSE << Item("salt", KeyLen, Salt, 0, 0) >>
        chunk     == << Item("len", CHUNK_SIZE_LEN + TagLen, SubKey(EncSalt), enonce, real_plen),
                       Item("pay", real_plen + TagLen, SubKey(EncSalt), enonce, Len(sent) + 1) >>
        stale     == IF len > real_plen THEN << Item("junk", len - real_plen, NoKey, 0, 0) >>
                     ELSE << >>
    IN
    /\ EncryptCallable
    /\ NDEBUG \/ plen <= CHUNK_SIZE_MASK
    /\ einit' = TRUE
    /\ \E res \in SealOutcomes :
          /\ enonce' = enonce + NonceSteps[res]
          /\ eerror' = (eerror \/ res # "ok")
          /\ IF res = "ok"
             THEN /\ wire' = wire \o salt \o chunk \o stale
                  /\ sent' = Append(sent, Msg(Len(sent) + 1, len))
             ELSE UNCHANGED << wire, sent >>
    /\ UNCHANGED << aborted, decVars, filter, atkVars >>

\* aead_encrypt() with aead_chunk_encrypt(): a first call sets init (before
\* sealing) and puts the salt in front; the length field is sealed under
\* nonce n, the payload under n+1.  On CRYPTO_ERROR nothing is output: the
\* chunk was built in the static tmp buffer.
aead_encrypt(len) ==
    LET plen      == len % UINT16          \* the uint16_t parameter plen
        real_plen == IF plen < CHUNK_SIZE_MASK THEN plen ELSE CHUNK_SIZE_MASK
        salt      == IF einit THEN << >> ELSE << Item("salt", KeyLen, Salt, 0, 0) >>
        chunk     == << Item("len", CHUNK_SIZE_LEN + TagLen, SubKey(EncSalt), enonce, real_plen),
                       Item("pay", real_plen + TagLen, SubKey(EncSalt), enonce + 1, Len(sent) + 1) >>
        \* out_len counts plaintext->len, the chunk only real_plen: the rest
        \* of the static tmp buffer goes out as it is.
        stale     == IF len > real_plen THEN << Item("junk", len - real_plen, NoKey, 0, 0) >>
                     ELSE << >>
    IN
    /\ EncryptCallable
    /\ NDEBUG \/ plen <= CHUNK_SIZE_MASK
    /\ einit' = TRUE
    /\ \E res \in SealOutcomes :
          /\ enonce' = enonce + NonceSteps[res]
          /\ eerror' = (eerror \/ res # "ok")
          /\ IF res = "ok"
             THEN /\ wire' = wire \o salt \o chunk \o stale
                  /\ sent' = Append(sent, Msg(Len(sent) + 1, len))
             ELSE UNCHANGED << wire, sent >>
    /\ UNCHANGED << aborted, decVars, filter, atkVars >>

-----------------------------------------------------------------------------
(* aead_decrypt(): append a segment of k bytes to the reassembly buffer,   *)
(* take the salt once more than key_len bytes are there, then pop chunks.  *)

DecryptEnabled(r, k) ==
    /\ status[r] = "open"
    /\ Avail(r) > 0
    /\ k \in ReadSizes(r)

\* The salt is not complete yet: CRYPTO_NEED_MORE.
DecryptShort(r, k) ==
    /\ DecryptEnabled(r, k)
    /\ ~dinit[r] /\ clen[r] + k <= KeyLen
    /\ clen' = [clen EXCEPT ![r] = @ + k]
    /\ UNCHANGED << encVars, wire, dinit, dnonce, dsalt, shifted, status, delivered,
                   filter, atkVars >>

\* fs_sbf_check() of salt s: 1 if the filter has it, 0 if not, or an error.
SbfCheck(s) == {IF s \in filter THEN 1 ELSE 0} \cup (IF FilterMayErr THEN {-1} ELSE {})

\* MODULE_REMOTE: fs_sbf_check() reports the salt: CRYPTO_ERROR.
DecryptReplay(r, k) ==
    /\ DecryptEnabled(r, k)
    /\ ~dinit[r] /\ clen[r] + k > KeyLen
    /\ MODULE_REMOTE /\ 1 \in SbfCheck(ReadSalt(r))
    /\ clen'   = [clen EXCEPT ![r] = @ + k]
    /\ dsalt'  = [dsalt EXCEPT ![r] = ReadSalt(r)]
    /\ dnonce' = [dnonce EXCEPT ![r] = 0]
    /\ status' = [status EXCEPT ![r] = "error"]
    /\ UNCHANGED << encVars, wire, dinit, shifted, delivered, filter, atkVars >>

\* The check passed: it found nothing, or failed and is only logged.
SbfCheckPasses(s) == \E c \in SbfCheck(s) : c # 1

\* Mutant: the salt is checked but never added to the filter.
SbfAddSalt_noAdd(first, salt) == filter' = filter

\* MODULE_REMOTE, first call: fs_sbf_add() adds the salt, or fails and the
\* failure is only logged.
SbfAddSalt(first, salt) ==
    IF first /\ MODULE_REMOTE
    THEN filter' \in {filter \cup {salt}} \cup (IF FilterMayErr THEN {filter} ELSE {})
    ELSE filter' = filter

\* Mutant: the salt is copied out but not subtracted from chunk->len.
DecryptChunks_saltKept(r, k) ==
    LET first == ~dinit[r]
        salt  == IF first THEN ReadSalt(r) ELSE dsalt[r]
        off   == IF first THEN shifted[r] + KeyLen ELSE shifted[r]
        cl    == clen[r] + k
        n     == IF first THEN 0 ELSE dnonce[r]
        res   == DecryptLoop(SubKey(salt), off, cl, n, << >>)
    IN
    /\ DecryptEnabled(r, k)
    /\ first => clen[r] + k > KeyLen /\ (MODULE_REMOTE => SbfCheckPasses(salt))
    /\ SbfAddSalt(first, salt)
    /\ dinit'     = [dinit EXCEPT ![r] = TRUE]
    /\ dsalt'     = [dsalt EXCEPT ![r] = salt]
    /\ shifted'   = [shifted EXCEPT ![r] = res.off]
    /\ clen'      = [clen EXCEPT ![r] = res.clen]
    /\ dnonce'    = [dnonce EXCEPT ![r] = res.n]
    /\ status'    = [status EXCEPT ![r] = IF res.st = "error" THEN "error" ELSE @]
    /\ delivered' = [delivered EXCEPT ![r] = IF res.st = "ok" THEN @ \o res.out ELSE @]
    /\ UNCHANGED << encVars, wire, atkVars >>

\* The salt is (or was earlier) taken: derive the subkey with the nonce at
\* zero, add the salt to the filter, shift it out, set init, pop chunks.
DecryptChunks(r, k) ==
    LET first == ~dinit[r]
        salt  == IF first THEN ReadSalt(r) ELSE dsalt[r]
        off   == IF first THEN shifted[r] + KeyLen ELSE shifted[r]
        cl    == IF first THEN clen[r] + k - KeyLen ELSE clen[r] + k
        n     == IF first THEN 0 ELSE dnonce[r]
        res   == DecryptLoop(SubKey(salt), off, cl, n, << >>)
    IN
    /\ DecryptEnabled(r, k)
    /\ first => clen[r] + k > KeyLen /\ (MODULE_REMOTE => SbfCheckPasses(salt))
    /\ SbfAddSalt(first, salt)
    /\ dinit'     = [dinit EXCEPT ![r] = TRUE]
    /\ dsalt'     = [dsalt EXCEPT ![r] = salt]
    /\ shifted'   = [shifted EXCEPT ![r] = res.off]
    /\ clen'      = [clen EXCEPT ![r] = res.clen]
    /\ dnonce'    = [dnonce EXCEPT ![r] = res.n]
    /\ status'    = [status EXCEPT ![r] = IF res.st = "error" THEN "error" ELSE @]
    /\ delivered' = [delivered EXCEPT ![r] = IF res.st = "ok" THEN @ \o res.out ELSE @]
    /\ UNCHANGED << encVars, wire, atkVars >>

-----------------------------------------------------------------------------
(* The attacker: alters bytes no receiver has read yet.                    *)

Unread(i) == \A r \in Receivers : ItemStart(i) >= Received(r)

AttackerMay == Tamper /\ tampered < MaxTamper

\* Flip bits inside item i: it no longer authenticates.
Corrupt(i) ==
    /\ AttackerMay /\ Unread(i) /\ wire[i].kind # "junk"
    /\ wire' = [wire EXCEPT ![i].kind = "junk", ![i].key = NoKey]
    /\ tampered' = tampered + 1
    /\ UNCHANGED << encVars, decVars, filter, forged >>

\* Cut item i out of the stream.
Drop(i) ==
    /\ AttackerMay /\ Unread(i)
    /\ wire' = RemoveAt(wire, i)
    /\ tampered' = tampered + 1
    /\ UNCHANGED << encVars, decVars, filter, forged >>

\* Splice a copy of item j (sent earlier, read or not) in before position i.
Replay(j, i) ==
    /\ AttackerMay /\ (i = Len(wire) + 1 \/ Unread(i))
    /\ wire' = InsertAt(wire, i, wire[j])
    /\ tampered' = tampered + 1
    /\ UNCHANGED << encVars, decVars, filter, forged >>

\* Bytes of the salt an attacker can alter: any, but only a salt longer than
\* SALTBYTES has bytes the subkey does not depend on.
SaltParts == IF KeyLen > SALTBYTES THEN {"prefix", "tail"} ELSE {"prefix"}

\* The recorded stream is sent to connection r, before r has read a byte,
\* with bytes of its salt altered.
ForgeSalt(r, part) ==
    /\ SaltForger /\ tampered < MaxTamper
    /\ Received(r) = 0 /\ forged[r] = "none"
    /\ forged'   = [forged EXCEPT ![r] = part]
    /\ tampered' = tampered + 1
    /\ UNCHANGED << encVars, wire, decVars, filter >>

-----------------------------------------------------------------------------
Init ==
    /\ einit = FALSE /\ enonce = 0 /\ aborted = FALSE /\ eerror = FALSE /\ sent = << >>
    /\ wire = << >>
    /\ dinit     = [r \in Receivers |-> FALSE]
    /\ dnonce    = [r \in Receivers |-> 0]
    /\ dsalt     = [r \in Receivers |-> << NoKey, 0 >>]
    /\ shifted   = [r \in Receivers |-> 0]
    /\ clen      = [r \in Receivers |-> 0]
    /\ status    = [r \in Receivers |-> "open"]
    /\ delivered = [r \in Receivers |-> << >>]
    /\ filter = {}
    /\ tampered = 0
    /\ forged = [r \in Receivers |-> "none"]

Next ==
    \/ \E len \in SendLens : aead_encrypt(len) \/ AssertFails(len)
    \/ \E r \in Receivers : \E k \in ReadSizes(r) :
          DecryptShort(r, k) \/ DecryptReplay(r, k) \/ DecryptChunks(r, k)
    \/ \E i \in 1 .. Len(wire) : Corrupt(i) \/ Drop(i)
    \/ \E j \in 1 .. Len(wire), i \in 1 .. Len(wire) + 1 : Replay(j, i)
    \/ \E r \in Receivers, part \in SaltParts : ForgeSalt(r, part)

\* The event loop calls aead_decrypt() whenever the socket has bytes.
Fairness == \A r \in Receivers : WF_vars(\E k \in ReadSizes(r) : DecryptShort(r, k) \/ DecryptChunks(r, k))

Spec == Init /\ [][Next]_vars /\ Fairness

-----------------------------------------------------------------------------
(* Properties.                                                             *)

TypeOK ==
    /\ einit \in BOOLEAN /\ aborted \in BOOLEAN /\ eerror \in BOOLEAN
    /\ enonce \in 0 .. 2 * MaxSends + 1
    /\ sent \in Seq([id : Nat, len : SendLens])
    /\ dinit \in [Receivers -> BOOLEAN]
    /\ dsalt \in [Receivers -> {Salt, NoKey} \X {0, 1}]
    /\ status \in [Receivers -> {"open", "error"}]
    /\ dnonce \in [Receivers -> 0 .. enonce]
    \* the reassembly buffer never claims bytes the stream does not have
    /\ \A r \in Receivers : shifted[r] \in Nat /\ clen[r] \in 0 .. WireLen - shifted[r]
    /\ filter \subseteq {Salt, NoKey} \X {0, 1}
    /\ forged \in [Receivers -> {"none", "prefix", "tail"}]

\* The messages whose sealed payload lies at or after the receiver's
\* decoding position, in stream order.
PendingMsgs(r) ==
    LET IsPending(i) == wire[i].kind = "pay" /\ ItemStart(i) >= shifted[r]
        idx == SelectSeq([i \in 1 .. Len(wire) |-> i], IsPending)
    IN  [j \in 1 .. Len(idx) |-> Msg(wire[idx[j]].val, wire[idx[j]].len - TagLen)]

(* Fragmentation robustness (spec section 8, properties 1 and 2): however  *)
(* the honest stream is cut into segments, aead_decrypt() never fails, and *)
(* what it has returned followed by the messages still in flight or in the *)
(* reassembly buffer is exactly what aead_encrypt() was given.  This rests *)
(* on aead_chunk_decrypt() advancing the nonce only once a whole chunk is  *)
(* present, and on aead_decrypt() returning CRYPTO_OK with the chunks      *)
(* already popped when the next one is short.                              *)
StreamConserved ==
    \A r \in Receivers :
        /\ status[r] = "open"
        /\ delivered[r] \o PendingMsgs(r) = sent

(* Every message handed to aead_encrypt() is eventually returned by        *)
(* aead_decrypt() at every receiver, provided the event loop keeps calling *)
(* it while bytes arrive: no chunk stays stuck in the reassembly buffer.   *)
AllDelivered ==
    \A r \in Receivers : \A i \in 1 .. MaxSends :
        (Len(sent) >= i) ~> (Len(delivered[r]) >= i)

(* Tamper detection (spec section 8, property 4): whatever an attacker     *)
(* does to the bytes in flight -- corrupt, cut out or splice in earlier    *)
(* ciphertext -- each receiver behaves as the abstract FIFO channel: it    *)
(* only ever returns, in order, messages that were sent, or fails.  Rests  *)
(* on the counter nonce that aead_decrypt() keeps across calls.            *)
Chan == INSTANCE FifoChannel WITH Receivers <- Receivers, sent <- sent,
                                  delivered <- delivered
ChannelRefinement == Chan!Spec

(* Nonce discipline (spec section 8, property 3; the "counting nonce" of   *)
(* the design comment): no two sealed items on the stream share subkey and *)
(* nonce -- also after aead_chunk_encrypt() failed half-way, having spent  *)
(* one nonce, and the caller called aead_encrypt() again.                  *)
Sealed(i) == wire[i].kind \in {"len", "pay"}
TcpNonceUnique ==
    \A i, j \in 1 .. Len(wire) :
        i # j /\ Sealed(i) /\ Sealed(j)
        => << wire[i].key, wire[i].nonce >> # << wire[j].key, wire[j].nonce >>

(* Replay rejection (spec section 8, property 7): in the server build, a   *)
(* recorded stream replayed on further connections yields plaintext on at  *)
(* most one of them, since aead_decrypt() adds each salt to the filter.    *)
ReplayRejected ==
    \A r1, r2 \in Receivers : r1 # r2 => delivered[r1] = << >> \/ delivered[r2] = << >>

(* Salt authentication (spec section 8, property 4: a flipped salt bit    *)
(* makes decrypt fail): a connection that returned plaintext read exactly  *)
(* the salt the sender drew, since aead_decrypt() derives the subkey from  *)
(* the salt it read.                                                       *)
SaltBound ==
    \A r \in Receivers : delivered[r] # << >> => dsalt[r] = EncSalt
=============================================================================
