# TLA+ models of the AEAD record layer (`src/src/aead.c`)

This directory holds TLA+ models of the AEAD record layer of
fuckshadows-libev. It covers the TCP stream codec, the UDP one-shot codec and
how they use the salt replay filter. TLC configurations check them.
`PROJECT.json` lists the components, runs, mutants, the definition-to-source
map, findings and hazards.

## 1. Inventory

### Components and their state

| Component | Code | State | Operations |
|---|---|---|---|
| Cipher catalog | `supported_aead_ciphers*` tables, `aead_init`, `aead_key_init`, `aead_get_cipher_type` | immutable tables; `cipher_t` (method, key, key/nonce/tag length) built once | name → method (unknown name → aes-256-gcm, `NULL` → aes-128-gcm), key setup |
| Key derivation | `aead_derive_key`, `aead_cipher_ctx_set_subkey`, `aead_cipher_ctx_udp_set_key` | master key in `cipher_t`; per-context `subkey` | BLAKE2b(password); BLAKE2b(master, salt[0:16], "fuckshadows-g3nk"); nonce reset to 0 |
| AEAD adapter | `aead_cipher_encrypt`, `aead_cipher_decrypt` | mbed TLS context for AES-GCM, none for ChaCha | seal / open with (key, nonce) |
| Session context | `aead_ctx_init`, `aead_ctx_release` | `cipher_ctx_t`: `salt`, `subkey`, `nonce`, `init`, `chunk` (reassembly buffer) | zero the context, draw the salt (encrypting side), free |
| TCP stream codec | `aead_encrypt`, `aead_chunk_encrypt`, `aead_decrypt`, `aead_chunk_decrypt` | the two contexts, and the byte stream between them | one chunk per encrypt call (the salt goes first); decrypt appends a segment, takes the salt, then pops chunks |
| UDP one-shot codec | `aead_encrypt_all`, `aead_decrypt_all` | a fresh context per datagram | salt ‖ AEAD(master, 0, P) ‖ tag; length check, salt check, open, salt add |
| Salt replay filter | `fs_sbf_check`, `fs_sbf_add` (sbf.c, not in `src/`) | process-wide probabilistic set | used under `MODULE_REMOTE` (server build) |

### How they interact

The caller (local/server event loop, not in `src/`) owns one encrypting and
one decrypting context per connection. It calls `aead_encrypt` on every
plaintext it sends and `aead_decrypt` on every segment `recv` returns. Both
contexts borrow the process-wide `cipher_t`. The decrypting contexts of a
server share the salt filter. Every call is synchronous. The event loop is
single-threaded, so calls are atomic with respect to each other. The static
`tmp` buffers in the four codec functions are shared, but nothing runs
concurrently with them.

### What is hard

* Fragmentation. TCP hands `aead_decrypt` arbitrary segments. The decoder
  must keep its salt, nonce and partly received chunk across calls. It must
  decrypt a payload only after its length is authenticated. The nonce must
  advance exactly once per AEAD call that succeeds.
* A loop inside one call. One call may pop several chunks and then stop at a
  short one. The chunks it popped must still be returned.
* Adversarial bytes. An on-path attacker can corrupt, cut out or splice in
  ciphertext. It can also replay a whole stream or datagram to a new server
  connection.
* Numeric edges. These are the `uint16_t` length parameter, the 0x3FFF mask,
  the `<=` tests on salt and datagram length, and the `assert` that NDEBUG
  removes.
* The UDP nonce and key discipline.

### Properties that make each component correct

* TCP codec: fragmentation robustness and no loss (`StreamConserved`).
  Eventual delivery (`AllDelivered`). Integrity under tampering, stated as a
  refinement of an abstract FIFO channel (`ChannelRefinement`). Replay
  rejection on the server (`ReplayRejected`). Only the sender's exact salt
  yields plaintext (`SaltBound`). The server never accepts its own reply
  stream (`NoReflection`).
* UDP codec: round trip (`RoundTrip`: every untampered datagram opens unless
  a datagram under its salt was opened before, also after corrupted copies
  of it arrived first), one accepted datagram per salt
  (`UdpSaltOnce`), replay rejection (`UdpReplayRejected`) and a unique
  (key, nonce) per datagram (`NoNonceReuse`).
* Catalog and start-up: two independently configured processes can talk
  exactly when the spec's name table and fallback say so
  (`ConfigAgreement`). A missing mbed TLS cipher is fatal at start-up,
  never later (`NoLateFatal`).
* Failure paths: a failing seal never makes the encryptor reuse a
  (subkey, nonce) pair (`TcpNonceUnique`), and the receiver still fails
  rather than return wrong data (`ChannelRefinement` in `tcp_fail`).

## 2. Modules

| Module | Models |
|---|---|
| `AeadCatalog` | method ids, names, the key, nonce and tag size tables, `CHUNK_SIZE_LEN`, `CHUNK_SIZE_MASK`, the `uint16_t` width |
| `AeadTcp` | TCP codec: the encrypting context, the stream, any number of decrypting contexts, the filter, an optional attacker |
| `AeadTcpDuplex` | one proxied connection: two `AeadTcp` instances (the client's request stream, the server's reply stream), composed with `INSTANCE ... WITH`, sharing the server's salt filter |
| `FifoChannel` | abstract specification of the TCP layer: what receivers return is a prefix of what was sent |
| `AeadInit` | start-up of several processes: `aead_init`, `aead_key_init`, `aead_get_cipher_type`, `aead_derive_key`, and `aead_ctx_init`/`aead_ctx_release` per connection direction |
| `AeadUdp` | UDP codec, the filter, a lossy, duplicating and reordering network, an attacker |
| `MCAeadTcp`, `MCAeadUdp`, `MCAeadInit`, `MCAeadTcpDuplex` | model values and sets for the `.cfg` files |

### Data abstraction

The TCP byte stream is a sequence of *items*: the salt, a sealed length field,
a sealed payload, or junk. Every item keeps its true length in bytes, so every
offset, buffer length and comparison in the code is computed on real numbers:
`key_len` 16–32, tag 16, mask 0x3FFF, wrap at 65536. The AEAD is perfect.
`aead_cipher_decrypt` of a byte range succeeds exactly when the range is one
sealed item of that length, made under the same subkey and nonce (`Open`). A
salt is the pair << its first 16 bytes, the rest >>. The subkey
(`SubKey`, `aead_cipher_ctx_set_subkey`) is identified with the first
component, because BLAKE2b reads only `crypto_generichash_blake2b_SALTBYTES`
bytes of the salt. The salt filter holds whole salts. A payload is
identified by the index of the `aead_encrypt` call that sealed it.

### Correspondence to the code

* `aead_encrypt(len)` is the whole of `aead_encrypt` with
  `aead_chunk_encrypt`. The first call emits the salt and sets `init`. Every
  call appends the length item (nonce n), the payload item (n+1) and any
  stale bytes of `out_len` beyond the sealed chunk. The nonce advances by 2.
  With `SealMayFail` (AES-GCM only: the libsodium calls never fail) the
  call may instead end in `CRYPTO_ERROR`. This happens either at the length
  seal (nonce untouched) or at the payload seal (nonce advanced once). In
  both cases `init` is already set and nothing is output (`SealOutcomes`).
  The caller's reaction is spec-modelled (`EncryptCallable`): it discards
  the context, as spec §7 requires, or with `CallerRetries` it calls again.
  `AssertFails` is the failing `assert(plen <= CHUNK_SIZE_MASK)`: the process
  aborts.
* A call of `aead_decrypt` with a segment of k bytes is one of three actions,
  split by the code's early returns:
  * `DecryptShort`: the salt is not yet complete.
  * `DecryptReplay`: `fs_sbf_check` reports the salt.
  * `DecryptChunks`: take the salt, reset the nonce, add the salt to the
    filter, then run the `while` loop. With `FilterMayErr`,
    `fs_sbf_check` and `fs_sbf_add` may return an error, which the code only
    logs (`SbfCheckPasses`, `SbfAddSalt`). Then (`DecryptLoop`, a RECURSIVE operator
    over `aead_chunk_decrypt`).

  The variables `shifted` and `clen` are the stream offset of the buffer's
  first byte and `chunk->len`.
* `ReadSizes` are the segment sizes `recv` may return. From any position the
  segment can end one byte short of the next item boundary, at the boundary,
  one byte past it, or at the end of the bytes in flight. From a boundary it
  can also be a single byte. This reaches every class of position in each
  item: its first byte, its second, its last, and its end. Those are all the
  positions the code's tests (`<=`, `<`) tell apart.
* `Corrupt`, `Drop` and `Replay` are the attacker, enabled by `Tamper`. It
  acts only on bytes no receiver has read yet. `ForgeSalt`, enabled by
  `SaltForger`, sends the recorded stream to one connection, before it has
  read a byte, with salt bytes altered. It alters bytes of the first 16, or
  (for a 32-byte salt only) bytes past them.
* `AeadTcpDuplex` steps one direction at a time. The reply stream starts
  only once the request has been delivered. Its reader is the server
  connection an attacker opens to send the reply back.
* In `AeadUdp`, `aead_encrypt_all` and `aead_decrypt_all` are the two
  functions. The network is the set of every datagram ever sent or injected.
  A datagram may be received any number of times in any order, or never.
  The filter errors are modelled as in TCP (`UdpSbfAdd`). With
  `SaltRewrite` the attacker may also resend a datagram under another
  salt (`Resalt`).
* In `AeadInit`, `phase`, `conf`, `cipher` and `ctxs` are per process.
  `aead_init` is the whole start-up: the `strcmp` loop (`FindMethod`, a
  RECURSIVE operator), the defaults (`ResolveName`) and `aead_key_init`.
  That includes its `info == NULL && key_len == 0` test, made while
  `key_len` is still 0. The master key is the digest of the password at
  `key_len` bytes, `<<pass, key_len>>`. `aead_ctx_init` FATALs if the
  cipher has no mbed TLS info. Each process links its own mbed TLS
  (`MbedTLS`).

## 3. Runs

| Run | cfg | Expect | What it shows |
|---|---|---|---|
| tcp_honest | `MCAeadTcp_honest.cfg` | pass | 3 sends of 1, 2, 0x3FFF or 0x4000 bytes (the last hits the assert), at every segmentation: no error, no loss, everything eventually delivered |
| tcp_tamper | `MCAeadTcp_tamper.cfg` | pass | with 2 attacker steps (corrupt, drop, splice) over 2 chunks, the receiver refines `FifoChannel` |
| tcp_replay | `MCAeadTcp_replay.cfg` | pass | AES-128-GCM (16-byte salt): a stream read by two server connections, either one possibly sent with salt bytes altered, yields plaintext on at most one, and only under the sender's exact salt |
| tcp_salt_tail | `MCAeadTcp_salttail.cfg` | violation | AES-256-GCM (32-byte salt): the replay with bytes 16..31 of the salt altered passes the filter and decrypts |
| tcp_reflect | `MCAeadTcpDuplex.cfg` | violation | the server's reply stream, sent back to the server, decrypts as a request |
| tcp_fail | `MCAeadTcp_fail.cfg` | pass | AES-GCM seal failures (before or after the nonce is spent), a caller that calls again, filter errors: no (subkey, nonce) pair sealed twice, and the receiver still refines `FifoChannel` |
| tcp_sbf_error | `MCAeadTcp_sbferr.cfg` | violation | a filter error lets a replayed stream through on a second connection |
| tcp_wrap | `MCAeadTcp_wrap.cfg` | violation | asserts compiled in: 65537 bytes pass the assert as 1 and are delivered as 1 byte |
| udp_server | `MCAeadUdp_server.cfg` | pass | 3 datagrams, 2 corrupted or resalted injections, any delivery order and duplication: every datagram whose salt was never accepted opens, even behind corrupted copies of it, and no salt is accepted twice |
| udp_resalt | `MCAeadUdp_resalt.cfg` | violation | a datagram resent under another salt is returned twice |
| udp_nonce | `MCAeadUdp_nonce.cfg` | violation | two datagrams share the master key and the zero nonce |
| init | `MCAeadInit.cfg` | pass | two clients and a server (without GCM in its mbed TLS), two passwords, the six names, an upper-cased name, an unknown one and none: agreement with the spec's table, no late FATAL |

Why the bounds are enough:
* Three chunks give a chunk before and after any other.
* Two attacker steps are enough to splice a whole earlier chunk (length and
  payload) back in. That is the smallest attack the counter nonce must stop,
  and the `DecryptLoop_nonceNotKept` mutant shows TLC finds it.
* The send sizes cover the smallest chunk, the largest, and one past it.
* Two receivers cover a replay in either order. Two attacker steps let the
  attacker forge the salt for both, in either order.
* `tcp_reflect` needs one byte in each direction: the reply is sealed under
  the server's salt, which is all the reflection uses.
* Three salts under symmetry cover all UDP orderings of three datagrams.
* `tcp_fail` allows one sealing failure per connection (a named bound in
  `SealOutcomes`). A second one would only repeat the same two shapes of
  context state (nonce even or odd, `init` set).
* `init` needs two processes that both run AES-GCM to tell `aes-256-gcm`
  from a mis-resolved name, and one process without GCM to reach the
  FATAL paths. Hence two clients and a server.
* `tcp_tamper` with 3 attacker steps passed 430,000 states in 2 minutes and
  kept growing, so it stays at 2.

Fairness: `AllDelivered` assumes weak fairness of `aead_decrypt` on each
receiver while bytes are in flight. The libev read callback runs whenever the
socket is readable, and the codec never blocks. Sending has no fairness,
because the application may stop at any time. That is also why the TCP and
UDP runs set `CHECK_DEADLOCK FALSE`: an idle connection stops.

## 4. Findings

* The UDP codec seals every datagram under the master key and the all-zero
  nonce. The comment at aead.c:75 says the nonces are random, and the salt
  feeds no key. With AES-GCM and ChaCha20-Poly1305, reusing a (key, nonce)
  pair breaks confidentiality and authenticity.
* The `assert` in `aead_chunk_encrypt` checks the `uint16_t`-narrowed
  length. With asserts on, 65537 bytes go through as a 1-byte chunk plus
  65536 stale bytes (`tcp_wrap`). NDEBUG builds lose the assert altogether.
* Both codecs fail open when the salt filter returns an error. A replayed
  stream or datagram is accepted, against spec §8.7 and S6. `tcp_sbf_error`
  shows it for TCP. `AeadUdp` models the same path in `aead_decrypt_all()`.
* The subkey reads 16 bytes of the salt and the filter reads all of it.
  With 32-byte salts (AES-256-GCM and the three ChaCha20 methods), a
  replayed stream whose salt differs only in bytes 16..31 is new to the
  filter and decrypts under the same subkey (`tcp_salt_tail`). This breaks
  spec §8.7, and §8.4 (any flipped salt bit makes decrypt fail). With
  16-byte salts the same attack fails (`tcp_replay`).
* UDP salts are authenticated by nothing. A datagram resent under any other
  salt is accepted again (`udp_resalt`), against spec S6. The filter only
  stops byte-identical copies (`UdpSaltOnce` holds).
* The server never adds the salts it sends to its filter. Its reply
  stream, reflected back to it, decrypts as a request (`tcp_reflect`). The
  spec is silent on this (spec gap).

Findings of earlier runs, retired to keep the run list to twelve. The
first and third can be reproduced with the current modules by setting
`CallerRetries` or `SendLens = {0}`:
* A failed `aead_encrypt` has already set `init` and maybe spent a nonce,
  so the context cannot be reused. With `CallerRetries`, `StreamConserved`
  fails. The spec's error section does not say so (spec gap).
* The spec's "canonical" nonce accounting (§4.6: advance right after the
  length is decrypted) is not the code's. The code advances only when the
  whole chunk is there, and it is self-consistent (`tcp_honest`).
* The empty UDP datagram does not round-trip (the `<=` at aead.c:507),
  against spec §4.5.
* Scenario S5 (exactly the salt in the buffer) differs: the code's `<=`
  test leaves the salt for the next call. That is harmless, and
  `StreamConserved` covers it.

## 5. Not modelled, and why

* Cryptographic strength: the AEAD and BLAKE2b are ideal. Decryption
  failures of the primitives are authentication failures, and `Open`
  models them.
* The client reading the server's reply in `AeadTcpDuplex`: it is a
  build without the filter, `AeadTcp` with one receiver.
* The FATAL paths of `aead_derive_key`, `aead_cipher_ctx_set_subkey` and
  `aead_cipher_ctx_udp_set_key` (BLAKE2b or `mbedtls_cipher_setkey`
  failing): each ends the process inside one call and leaves no state
  behind.
* The Bloom filter's false positives: they only reject a fresh connection,
  which the spec accepts. sbf.c is not in `src/`. Its error returns are
  modelled.
* Memory allocation, `dump` and logging: they change no state the codecs
  read. `aead_ctx_release` is modelled in `AeadInit` only as the end of a
  context.
* The static `tmp` buffers (aead.c:460, 514, 618, 720): the program calls
  the codecs from one event-loop thread, and each model makes a call one
  atomic step, so two callers inside one function cannot happen and are
  not modelled. The stale bytes the
  buffers leak in the NDEBUG case are modelled.
* Availability of a TCP connection whose salt an attacker sends first:
  aead_decrypt() adds the salt before any chunk opens (aead.c:756), as the
  spec's §4.6 prescribes, so the genuine connection is then refused. This
  is a designed trade-off, not a safety property; `AllDelivered` is checked
  without attacker connections.
* A server restart emptying the filter: the spec does not require it to
  persist.

## 6. Plan

Done:
1. `AeadCatalog`, `AeadTcp` with the honest, tamper and replay runs,
   the `FifoChannel` refinement, and `AeadUdp`.
2. Failure paths: sealing errors with the caller's discard-or-retry
   (line 639), salt filter errors in both codecs (line 753), and the
   `uint16_t` wrap under the assert.
3. `AeadInit`: name resolution, key setup, and context init and release
   for several independently configured processes.
4. The 16-byte subkey salt (`SubKey`, `ForgeSalt`), UDP salt rewriting
   (`Resalt`), and the request/reply composition `AeadTcpDuplex`
   (reflection).
5. `RoundTrip` stated against the history of accepted salts, so it
   catches a UDP filter add moved ahead of the decrypt (aead.c:556).
   A wrong-password peer needs no model of its own: its subkey differs
   from the receiver's exactly as under a forged salt prefix
   (`ForgeSalt(r, "prefix")`), which already drives the first length
   field into the failure path.

Next:
1. A cheaper tamper model (symmetry over message ids, or an attacker
   limited to item boundaries) so that 3 attacker steps fit in the time
   limit.
