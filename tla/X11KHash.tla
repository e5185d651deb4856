------------------------------- MODULE X11KHash -------------------------------
(***************************************************************************)
(* The data layer shared by the X11K, X11KV and X11KVS modules: the       *)
(* registry of the eleven 512-bit primitives (x11k.c), the byte views of  *)
(* the buffers the code reads, the 80-byte header with its little-endian  *)
(* nonce (x11kvs.c), and the pure X11KV chain the tree hash calls.        *)
(*                                                                         *)
(* Data abstraction.  A 64-byte digest is a natural d in                  *)
(* 0 .. D32*D32-1: its leading 32 bytes are the "lead" d % D32 and its    *)
(* trailing 32 bytes the "tail" d \div D32, so truncating to 32 bytes     *)
(* really drops information.  A 32-byte half h has byte i equal to        *)
(* Lane(h, i).  An 80-byte header is Content * Word + nonce: bytes 0..75  *)
(* are the content, bytes 76..79 the nonce.  A word has WordBytes bytes   *)
(* (4 in the code, fewer in a model so that TLC's integers can hold       *)
(* nonce + drift), and MAX_DRIFT scales with it (0xFFFF = 2^(4*4)-1).     *)
(* The primitives and sha256d are external: their digests are given by    *)
(* the constant operators Primitive and Sha256d.                          *)
(***************************************************************************)
EXTENDS Naturals, Sequences, FiniteSetsExt

CONSTANTS
  D32,            \* number of distinct 32-byte halves the model tells apart
  WordBytes,      \* bytes in a nonce / le32 word (4 in the code)
  Lane(_, _),     \* Lane(h, i): byte i (0..31) of the 32-byte value h
  Primitive(_, _, _), \* Primitive(j, x, len): 64-byte digest of primitive j on len bytes x
  Sha256d(_),     \* sha256_double_hash of the 96-byte buffer <<h, h1, h2>>
  HASHX11KV_MIN_NUMBER_ITERATIONS,
  HASHX11KV_MAX_NUMBER_ITERATIONS,
  HASHX11KVS_MAX_DRIFT

ASSUME D32 \in Nat \ {0} /\ WordBytes \in 1 .. 4
ASSUME HASHX11KV_MIN_NUMBER_ITERATIONS \in 1 .. HASHX11KV_MAX_NUMBER_ITERATIONS
ASSUME HASHX11KVS_MAX_DRIFT \in 1 .. 256^WordBytes - 1

\* HASHX11KV_NUMBER_ALGOS / HASHX11K_NUMBER_ALGOS
NUMBER_ALGOS == 11

\* The modulus of uint32_t arithmetic on the nonce, scaled to WordBytes.
Word == 256^WordBytes

Digest32 == 0 .. D32 - 1
Digest64 == 0 .. D32 * D32 - 1

(***************************************************************************)
(* fnHashX11K and processHash: index selects one of the eleven wrappers   *)
(* (Blake512 .. Echo512), each init/update/close of an sph context over   *)
(* len input bytes into a 64-byte output.                                 *)
(***************************************************************************)
fnHashX11K == 0 .. NUMBER_ALGOS - 1

processHash(index, iHash, len) == Primitive(index, iHash, len)

(***************************************************************************)
(* Byte views of a 64-byte digest: p[i] with p = (unsigned char * ) hashA. *)
(***************************************************************************)
ByteAt(d, i) ==
  IF i < 32 THEN Lane(d % D32, i) ELSE Lane(d \div D32, i - 32)

\* memcpy(output, hashA, 32): keep the leading 32 bytes only.
Trunc32(d) == d % D32

\* le32dec(hash + off) on a 32-byte digest.
le32dec(h, off) ==
  MapThenSumSet(LAMBDA k : Lane(h, off + k) * 256^k, 0 .. WordBytes - 1)

(***************************************************************************)
(* The 80-byte header: le32dec(input + 76) is its nonce; memcpy of bytes  *)
(* 0..75 followed by le32enc(next + 76, nonce) rebuilds it.               *)
(***************************************************************************)
Nonce(hdr) == hdr % Word

le32enc(hdr, nonce) == (hdr \div Word) * Word + nonce

(***************************************************************************)
(* The X11K chain loop as a function: starting from the state after       *)
(* round 0, rounds i .. n-1 each apply the primitive selected by byte     *)
(* (i % 64) of the current state to the whole current state.              *)
(***************************************************************************)
Chain[d \in Nat, i \in Nat, n \in Nat] ==
  IF i >= n THEN d
  ELSE Chain[processHash(ByteAt(d, i % 64) % NUMBER_ALGOS, d, 64), i + 1, n]

\* n = MIN + (p[63] % (MAX - MIN + 1)), read once from the round-0 state.
X11KVRounds(first) ==
  HASHX11KV_MIN_NUMBER_ITERATIONS
    + (ByteAt(first, 63) % (HASHX11KV_MAX_NUMBER_ITERATIONS
                              - HASHX11KV_MIN_NUMBER_ITERATIONS + 1))

\* x11kv(output, input): the 32-byte base hash of an 80-byte header.
x11kv(input) ==
  LET first == processHash(0, input, 80)
  IN  Trunc32(Chain[first, 1, X11KVRounds(first)])

\* const int HASHX11K_NUMBER_ITERATIONS = 64
HASHX11K_NUMBER_ITERATIONS == 64

\* The chain x11k_hash promises: Blake512 of the input, then rounds 1..63.
X11KRef(x, len) ==
  Trunc32(Chain[processHash(0, x, len), 1, HASHX11K_NUMBER_ITERATIONS])

\* nextnonce = nonce + (le32dec(hash + off) % MAX_DRIFT), wrapping at 2^32,
\* written into a copy of the header's first 76 bytes.
ChildHeader(input, hash, off) ==
  le32enc(input, (Nonce(input) + (le32dec(hash, off) % HASHX11KVS_MAX_DRIFT)) % Word)

=============================================================================
