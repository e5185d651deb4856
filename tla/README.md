# TLA+ models of cybercore's native hash libraries

This directory holds TLA+ models of the native code under `src/src/Native/`,
together with the TLC models that check them. The system is a set of C/C++
libraries that the mining-pool server calls through P/Invoke. Almost every
export is a thin pass-through to an external hash implementation. The one part
with real control flow and state is the **X11K family** in `libmultihash`:
`x11k.c` and `x11kvs.c`. That is where this project starts.

## Inventory

| Part | Source | What it does | Status |
|---|---|---|---|
| Primitive registry | `libmultihash/x11k.c` 18-126 | 11 sph 512-bit wrappers, the `fnHashX11K` table and `processHash(index)` dispatch | modelled (`X11KHash`) |
| X11K chain | `x11k.c` 128-151 | Blake512 of the input, then 63 rounds, each selecting a primitive by byte `p[i]` of the state. Two heap buffers, pointer swap with no copy | modelled (`X11K`) |
| X11KV chain | `x11kvs.c` 63-94 | Round count `n = 2 + p[63] % 5`. Rounds select by `p[i % 64]`, then copy and swap | modelled (`X11KV`) |
| X11KVS tree | `x11kvs.c` 96-156 | `x11kvshash(level)` recursion from level 7 to level 1. Each node hashes its header, derives two child headers by drifting the nonce, recurses, and takes sha256d of `hash‖hash1‖hash2` | modelled (`X11KVS`, `X11KVSSpec`) |
| le32dec / le32enc | `x11kvs.c` 42-60 | little-endian word codec | modelled (`X11KHash`) |
| libmultihash exports | `libmultihash/exports.cpp` | mostly one-line pass-throughs. Also: x11k/x11kvs exports, blake2 `output_len`, the per-call `new CVerusHashV2`, and the equihash header-length guard | partly (`HashExports`) |
| libcryptonote exports | `libcryptonote/exports.cpp` | blob conversion with an in/out output-size contract, and address decoding with early returns | partly (`Cryptonote`; `cn_fast_hash_export` is a pass-through, `uint64be_to_blob` has no callers) |
| libethash exports | `libethash/exports.cpp` | light/full handle create, compute and delete | partly: `Ethash` (all but `full_dag` and `default_dirname`) |
| liblyrahash, libgrhash, libminotaurx | `*/exports.cpp`, `lyra2z.c` | pass-throughs. `lyra2z` sets a global blake256 round count | not modelled (no state of their own) |

## Modules

- **`X11KHash`**: the shared data layer.
  - **Digests.** A 64-byte digest is a natural `d < D32*D32`. Its "lead" `d % D32` is the first 32 bytes and its "tail" `d \div D32` the last 32 bytes, so `memcpy(output, hashA, 32)` (`Trunc32`) really loses information.
  - **Bytes.** `Lane(h, i)` is byte `i` of a 32-byte value, and `ByteAt` is `p[i]`.
  - **Headers.** A header is `content * Word + nonce`. `Nonce` is `le32dec(input+76)`, and `le32enc` rewrites bytes 76..79 of a copy of the first 76 bytes.
  - **External primitives.** The primitives and sha256d are *constant operators* (`Primitive`, `Sha256d`). The model is therefore correct for every choice of hash functions. `MCHashes` gives them arithmetic mixers that spread over the whole range.
  - **Pure definitions.** `Chain` is the round loop as a recursive function. `x11kv` and `ChildHeader` are the pure definitions the tree uses.
- **`X11K`**: `x11k_hash` as the loop runs it.
  - State: `buf` holds the two malloc'd buffers, `hashA`/`hashB` are the pointers (buffer numbers), and `i` is the loop counter.
  - Actions: `Begin` is the mallocs plus round 0. `Round` is one loop iteration, `processHash` into `hashB` followed by the swap. `Finish` is the final memcpy.
- **`X11KV`**: `x11kv` in the same style. `Round` includes the `memcpy(hashA, hashB, 64)` before the swap. `calls` counts primitive calls.
- **`X11KVSSpec`**: the abstract promise of `x11kvs_hash`. A `Request(hdr)` is eventually answered by a `Respond` whose result is `TreeHash[7, hdr]`. `TreeHash` is the recursion of `x11kvshash` as a function.
- **`X11KVS`**: the recursion as the machine runs it.
  - **Frames.** An explicit stack of activation frames, one per active `x11kvshash` call. Each frame has a pc (`start`, `wait1`, `wait2`), the locals `hash`, `hash1`, `hash2`, and the child headers.
  - **Actions.**
    - `StartLeaf`: lines 102-108.
    - `StartBranch`: lines 102-134, up to the first call.
    - `Call2`: line 135.
    - `Combine`: lines 139-150.
    - `Return`: passes the value into the caller's `hash1` or `hash2`, or into the caller of `x11kvs_hash` when the stack empties.
  - **Counters.** `live` counts heap buffers not yet freed: +1 at each `malloc`, −1 at each `free`, exactly as the lines do. `leaves` and `branches` count activations.
  - **Refinement.** `X11KVS` is shown to implement `X11KVSSpec` under the mapping `request <- (IF status = "idle" THEN NoHash ELSE hdr)`, `result <- out`.
- **`Cryptonote`**: `convert_blob_export`, `decode_address_export` and `decode_integrated_address_export`, each a single action with one disjunct per return path.
  - **External parsers.** A block is a record of what the parsers report (`parses`, `hashingBlobLen`). An address is a record of the outcome of `decode_addr`, `parse_binary` and the two `check_key` calls.
  - **The caller.** `Submit`, `Resize` and `Settle` are the caller's side of the size contract: pass a buffer, reallocate to the reported size after a false return that reported more, then take the result. They stand for the host, which is not in this repository, and are not mapped.
- **`HashExports`**: the exports that do more than forward their arguments. Each call is one action.
  - `x11k_export` and `x11kvs_export` hand the input to the cores: they use `X11KRef` and `X11KVSSpec`'s `TreeHash` through an `INSTANCE`. Their result is the core's by definition, so no run states it again; the cores' own runs check the cores.
  - `blake2s_export` and `blake2b_export` select the output length, then apply blake2's own rejection of lengths 0 and above `OUTBYTES`. That rejection is the reference implementation's check, outside `src/`.
  - `verushash_export` counts the objects it allocates.
  - `equihash_verify_export` applies the 140-byte guard.
- **`Ethash`**: the handle API of `libethash/exports.cpp`, in the style of a handle heap.
  - **State.** `light` and `full` map handle ids to records `[status, ...]`, where the status is `unused`, `live` or `deleted`. A full also records the block of the light it was built from, as a ghost. `answers` holds every answer an export has returned, as `[q, block, header, nonce, value]`.
  - **Actions.** One per export. `ethash_light_new_export` and `ethash_full_new_export` may return NULL. `ethash_full_new_export` takes the DAG size and seed from the light's block (lines 44-45). The compute, size and query exports add their answer to `answers`.
  - **The host.** It passes only handles it received non-NULL and has not deleted, and it may delete a light while a full built from it lives on.
  - **External code.** The ethash library is external: `DataSize`, `CacheSize`, `SeedHash` and `Hashimoto` are constant operators.
- **`MCEthash`, `MCHashes`, `MCX11K`, `MCX11KV`, `MCX11KVS`, `MCCryptonote`, `MCHashExports`**: the TLC instantiations.

## Runs

| Run | Checks | Shows |
|---|---|---|
| `x11k_chain` | TypeOK, ChainCorrect | The pointer-swapping loop computes `Chain` over 64 rounds, for inputs of two different lengths. |
| `x11kv_chain` | TypeOK, ChainCorrect, RoundsInRange | The copy-then-swap loop computes `x11kv`, with 2..6 primitive calls; all five round counts occur among the headers. |
| `x11kvs_tree` | TypeOK, StackBounded, TreeShape, AbsSpec | Three results for the full level-7 tree: (1) the stack machine refines `X11KVSSpec`, so every call returns `TreeHash`; (2) at most 7 frames; (3) 64 leaves and 63 inner nodes. |
| `x11kvs_leak` (violation) | NoLeakOnReturn | A call returns with `live = 127`: the leaf `hash` (line 107) and every `hashConcated` (line 139) are never freed. |
| `x11kvs_drift_spec` (violation) | DriftAsSpecified | spec.md says the drift is le32 mod 0x10000. The code reduces mod `HASHX11KVS_MAX_DRIFT` = 0xFFFF (line 116), so for words ≥ 0xFFFF the child nonce differs. |
| `x11kvs_length` (violation) | LengthRejected | `x11kvs_hash` ignores `len` (line 153), so a 79- or 81-byte input is hashed, where spec.md says it is rejected. |
| `cryptonote_exports` | TypeOK, NoOverflow, VerdictCorrect | `convert_blob_export` never copies past the caller's capacity. A caller that resizes on a reported larger size accepts exactly the blocks that parse, with their blob in its buffer, after at most one resize; this needs line 48 to report the size before the check at line 50. |
| `ethash_handles` | ConsistentAnswers | Consider any interleaving of creating (possibly failing), computing with and deleting two lights and a full. The exports never answer the same question about a block twice with different values. A full DAG's compute and size answers match the light's and the pure queries', also after the light it was built from is deleted. |
| `exports_verus_leak` (violation) | VerusObjectsReleased | Every `verushash_export` call leaves a `CVerusHashV2` allocated (line 229). |
| `exports_blake2_len` (violation) | Blake2OutputWritten | Called with `output_len` 48, which blake2b accepts but which is above `BLAKE2S_OUTBYTES`, `blake2s_export` writes nothing and reports nothing, so the caller reads its buffer's old contents as a digest. Only `0xFFFFFFFF` selects the default length. |

Each property of a passing run has a mutant in `PROJECT.json`, a plausible bug
in the modelled code that TLC finds. Where an action and its mutants differ in
one guard or one value, the module defines a parameterised helper and each of
them instantiates it in one line. `Leaf`, `Branch` and `CombineOf` in `X11KVS`;
`RoundOf` in `X11K` and `X11KV`; `ConvertCall` and `DecodeOf` in
`Cryptonote`; `FullNew` in `Ethash`. A reviewer diffs the helper against the
code once and reads each mutant's change from its arguments. The mutants are:

- a loop bound of `<= 64`;
- a missing swap;
- a copy in the wrong direction;
- a wider round-count modulus;
- a leaf test one level too high;
- a recursion without decrement;
- swapped children in the concatenation;
- a memcpy before the size check;
- `*outputSize` set only on success;
- a decoder that returns its status flag;
- `ethash_full_new_export` sizing the DAG with the cache size.

## Bounds and why they suffice

- **Levels: 7 down to 1, exactly as in the code.** The whole 127-node tree is explored, and one call takes 382 steps.
- **Word size.** A word is one byte in the model (`WordBytes = 1`, so `Word = 256`), and `MAX_DRIFT = 15`. This mirrors `0xFFFF = 2^16 − 1` on a 2^32 word: drift is a modulus one below a power of two, much smaller than the word. So the mod-0xFFFF versus mod-0x10000 difference, drifts both below and above `MAX_DRIFT`, and nonce wraparound all occur. The headers include nonce 250, and the trees built from them wrap.
- **`D32 = 32` distinct halves.** This is enough for all 11 primitives and all 5 round counts to be selected (`MCHashes` is chosen so that they are).
- **Inputs.** X11K uses 4 inputs × 2 lengths. X11KV uses 32 headers. X11KVS uses 4 headers; each call already enumerates a full tree.
- **Cryptonote.** Blob lengths {2, 3, 5} against capacities {3, 4} give a blob that fits, one that fits exactly, and one that needs a resize. Every combination of the external parsers' outcomes is enumerated, with prefixes {0, 18}.
- **HashExports.** `uint32_t` is scaled to 16 bits, so `(uint32_t)-1` is 65535. The output lengths are the default, 20 (valid for both blake2 variants), 48 (valid for blake2b only) and 0. The input lengths are 76, 80 and 140. `MAX_VERUS_CALLS = 2` bounds the leak counter.
- **Ethash.** There are two light ids and one full id, so the full can come from either light and outlive it. Blocks 0 and 30001 lie in two epochs. There are two header hashes and two nonces. The mixers keep the cache size distinct from the dataset size and make `Hashimoto` depend on every argument. Handle ids are not reused, since the host never passes a deleted handle. The run reaches 704,576 states.

## Fairness

Each function runs on the caller's thread with no locks, callbacks or I/O, so
once called it keeps taking steps until it returns.

- **`X11KVS`.** Weak fairness of `Running`, the disjunction of all its internal steps.
- **`X11KVSSpec`.** Its promise `CallReturns` is the leads-to that weak fairness of `Respond` implies.

`X11K` and `X11KV` claim no liveness: their loops have a constant or 2..6 bound and no exit but the loop test, so their return holds by the shape of the code and is not checked. The MC configs of the X11 cores disable deadlock checking because one call is modelled: after
`done` the system really stops. `Cryptonote`, `HashExports` and `Ethash` have no fairness: each is driven by a host that need not call anything, and they claim no liveness.

## Not modelled, and why

- **The hash primitives** (sph_*, sha256d, Lyra2, ethash DAG, cryptonote parsing). They are external code and pure functions; they appear as constant operators.
- **malloc failure in `x11k_hash`, `x11kv` and `x11kvshash`.** No malloc result is checked, but every buffer is written in every call: in `x11kv` a NULL `hashB` is written in the first loop round, which always runs because the round count is at least 2. So a failure always ends the process and is never masked, and a property about it would restate `RoundsInRange` or hold by the shape of the code. `X11KVS` counts its buffers but lets malloc succeed.
- **`uint64be_to_blob`** (libcryptonote). Nothing in the repository calls it, and its eight shift lines are a big-endian store whose only property is arithmetic.
- **Header files** (`x11k.h`, `x11kvs.h`, `phi5.h`). They contain declarations only.
- **`ethash_full_dag_export` and `ethash_get_default_dirname_export`.** The first returns the address of the DAG, the second fills a path string. Neither changes state or decides anything.
- **liblyrahash, libgrhash, libminotaurx.** Every export forwards to external hash code. `lyra2z_hash` (lyra2z.c) is blake256 then LYRA2z over a stack context. Its one write to shared state, `sph_blake256_set_rounds(14)`, is the only writer of that global in this repository. It always stores 14, so every interleaving of calls sees the same value: a model would have nothing to check.
- **NULL handles passed to the ethash exports.** `ethash_full_new_export` dereferences its light unchecked (line 44). Testing a constructor's result for NULL is the host's obligation, and the host is not in this repository.

## Open questions

These are not modelled, because nothing in the repository says what the right result is:

1. `scryptn_export`'s `1 << nFactor`. A model with a scaled int width would show the shift overflowing. No spec, comment or test says which `nFactor` values are legal, so there is nothing to check the result against.
2. `CVerusHashV2::init()` running concurrently on pool threads. This needs the external code's behaviour, which is not in this repository.
