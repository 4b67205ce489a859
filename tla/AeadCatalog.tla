---------------------------- MODULE AeadCatalog ----------------------------
(***************************************************************************)
(* The static cipher catalog of src/aead.c: the six AEAD method ids, their *)
(* names, and the per-method key, nonce and tag sizes, plus the framing    *)
(* constants of the TCP chunk format.  Every other module EXTENDS this.    *)
(***************************************************************************)
EXTENDS Integers

AES128GCM             == 0
AES192GCM             == 1
AES256GCM             == 2
CHACHA20POLY1305      == 3
CHACHA20POLY1305IETF  == 4
XCHACHA20POLY1305IETF == 5

AEAD_CIPHER_NUM == 6

Methods == AES128GCM .. XCHACHA20POLY1305IETF

\* supported_aead_ciphers[]: the names aead_init() matches with strcmp.
supported_aead_ciphers ==
    [m \in Methods |->
        << "aes-128-gcm", "aes-192-gcm", "aes-256-gcm", "chacha20-poly1305",
           "chacha20-ietf-poly1305", "xchacha20-ietf-poly1305" >>[m + 1]]

\* supported_aead_ciphers_{nonce,key,tag}_size[], in bytes.
NonceSize == [m \in Methods |-> << 12, 12, 12, 8, 12, 24 >>[m + 1]]
KeySize   == [m \in Methods |-> << 16, 24, 32, 32, 32, 32 >>[m + 1]]
TagSize   == [m \in Methods |-> 16]

\* Methods below CHACHA20POLY1305 go through an mbed TLS GCM context that
\* holds the key; the others are libsodium one-shots taking the key directly.
UsesMbedTLS(m) == m < CHACHA20POLY1305

CHUNK_SIZE_LEN  == 2
CHUNK_SIZE_MASK == 16383        \* 0x3FFF

\* Width of the uint16_t length argument of aead_chunk_encrypt().
UINT16 == 65536
=============================================================================
