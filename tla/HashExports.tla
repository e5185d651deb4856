----------------------------- MODULE HashExports -----------------------------
(***************************************************************************)
(* The entry points of libmultihash/exports.cpp that do more than forward  *)
(* their arguments.                                                        *)
(*   - x11k_export and x11kvs_export hand the input to the cores modelled  *)
(*     in X11K and X11KVS; only x11k_export passes input_len on.           *)
(*   - blake2s_export and blake2b_export choose the digest length, where   *)
(*     output_len == -1 on a uint32_t means "the default".                 *)
(*   - verushash_export allocates a CVerusHashV2 on every call.            *)
(*   - The three equihash_verify exports check the header length.          *)
(* Each call runs to completion on the caller's thread, so a call is one   *)
(* action.  The external digests (blake2, VerusHash, the Equihash          *)
(* verifiers) are constant operators.                                      *)
(***************************************************************************)
EXTENDS X11KHash

CONSTANTS
  HASHX11KVS_MIN_LEVEL,
  HASHX11KVS_MAX_LEVEL,
  Headers,            \* input buffers a caller may pass
  InputLengths,       \* input_len values a caller may pass
  OutputLengths,      \* output_len values a caller may pass to blake2s/b
  UINT32_MAX,         \* (uint32_t)-1, the value output_len == -1 compares with
  Blake2(_, _, _, _), \* Blake2(v, x, len, outlen): blake2s ("s") or blake2b ("b")
  VerusHash(_, _),    \* VerusHash v2b2 of len bytes of x
  EquihashOk(_, _),   \* verifyEH_<n>_<k> of header x, for variant v
  EquihashVariants,   \* the {96_5, 144_5, 200_9} exports
  MAX_VERUS_CALLS,    \* bound on verushash_export calls explored
  NoHash              \* model value: a buffer not written yet

VARIABLES
  call,       \* the last call: [fn, input, len, olen], or NoHash
  out,        \* the caller's output buffer
  ret,        \* the return value of the last bool export
  verusLive   \* CVerusHashV2 objects allocated and not deleted

vars == <<call, out, ret, verusLive>>

\* The request passed to X11KVS; its variables are not used here.
Tree == INSTANCE X11KVSSpec WITH request <- NoHash, result <- NoHash

BLAKE2S_OUTBYTES == 32
BLAKE2B_OUTBYTES == 64

\* The digests of the wrapped cores for every input, computed once.
x11kOf == [p \in Headers \X InputLengths |-> X11KRef(p[1], p[2])]
x11kvsOf == [x \in Headers |-> Tree!TreeHash[HASHX11KVS_MAX_LEVEL, x]]

Call(fn, x, len, olen) == [fn |-> fn, input |-> x, len |-> len, olen |-> olen]

\* x11k_export(input, output, input_len): x11k_hash(input, output, input_len).
x11k_export(x, len) ==
  /\ call' = Call("x11k", x, len, 0)
  /\ out' = x11kOf[x, len]
  /\ UNCHANGED <<ret, verusLive>>

\* x11kvs_export: x11kvs_hash(input, output, input_len), which drops len.
x11kvs_export(x, len) ==
  /\ call' = Call("x11kvs", x, len, 0)
  /\ out' = x11kvsOf[x]
  /\ UNCHANGED <<ret, verusLive>>

(***************************************************************************)
(* blake2s(output, output_len == -1 ? OUTBYTES : output_len, ...), with    *)
(* the -1 converted to uint32_t.  blake2s/blake2b return -1 and write      *)
(* nothing when outlen is 0 or above OUTBYTES; the export ignores that     *)
(* result, so the caller's buffer keeps what it held.                      *)
(***************************************************************************)
Blake2Export(v, outbytes, x, len, olen) ==
  LET outlen == IF olen = UINT32_MAX THEN outbytes ELSE olen
  IN  /\ call' = Call("blake2" \o v, x, len, olen)
      /\ out' = IF outlen \in 1 .. outbytes THEN Blake2(v, x, len, outlen) ELSE out
      /\ UNCHANGED <<ret, verusLive>>

blake2s_export(x, len, olen) == Blake2Export("s", BLAKE2S_OUTBYTES, x, len, olen)

blake2b_export(x, len, olen) == Blake2Export("b", BLAKE2B_OUTBYTES, x, len, olen)

\* verushash_export: init(), new CVerusHashV2, Reset, Write, Finalize2b;
\* the object is never deleted.
verushash_export(x, len) ==
  /\ verusLive < MAX_VERUS_CALLS
  /\ call' = Call("verushash", x, len, 0)
  /\ verusLive' = verusLive + 1
  /\ out' = VerusHash(x, len)
  /\ UNCHANGED ret

\* equihash_verify_<n>_<k>_export: false unless header_length is 140.
equihash_verify_export(v, x, len) ==
  /\ call' = Call(v, x, len, 0)
  /\ ret' = (len = 140 /\ EquihashOk(v, x))
  /\ UNCHANGED <<out, verusLive>>

Init == call = NoHash /\ out = NoHash /\ ret = FALSE /\ verusLive = 0

Next ==
  \E x \in Headers, len \in InputLengths :
    \/ x11k_export(x, len)
    \/ x11kvs_export(x, len)
    \/ \E olen \in OutputLengths : blake2s_export(x, len, olen)
    \/ \E olen \in OutputLengths : blake2b_export(x, len, olen)
    \/ verushash_export(x, len)
    \/ \E v \in EquihashVariants : equihash_verify_export(v, x, len)

Spec == Init /\ [][Next]_vars

-----------------------------------------------------------------------------
TypeOK ==
  /\ call \in {NoHash} \cup
       [fn : {"x11k", "x11kvs", "blake2s", "blake2b", "verushash"} \cup EquihashVariants,
        input : Headers, len : InputLengths, olen : OutputLengths \cup {0}]
  /\ out \in Nat \cup {NoHash}
  /\ ret \in BOOLEAN
  /\ verusLive \in 0 .. MAX_VERUS_CALLS

(***************************************************************************)
(* After blake2s_export or blake2b_export is asked for a digest (an       *)
(* output_len other than 0), the caller's buffer holds a digest of its     *)
(* input.  The export is void and has no error result, so a caller that    *)
(* asks blake2s for more than BLAKE2S_OUTBYTES cannot tell that nothing    *)
(* was written and reads what the buffer held before.                      *)
(***************************************************************************)
Blake2OutputWritten ==
  call # NoHash /\ call.fn \in {"blake2s", "blake2b"} /\ call.olen # 0 =>
    \E outlen \in 1 .. BLAKE2B_OUTBYTES : out = Blake2(IF call.fn = "blake2s" THEN "s" ELSE "b",
                                     call.input, call.len, outlen)

(***************************************************************************)
(* verushash_export releases what it allocates: no CVerusHashV2 outlives   *)
(* the call that made it.                                                  *)
(***************************************************************************)
VerusObjectsReleased == verusLive = 0

=============================================================================
