------------------------------ MODULE Cryptonote ------------------------------
(***************************************************************************)
(* libcryptonote/exports.cpp: the block-blob conversion and the address    *)
(* decoders the pool calls.                                                  *)
(*                                                                         *)
(* The parsers they call (parse_and_validate_block_from_blob,              *)
(* get_block_hashing_blob, base58::decode_addr, parse_binary, check_key)   *)
(* are external.  A block or an address is therefore a record of what      *)
(* those parsers report about it, and the model enumerates every such      *)
(* outcome.                                                                *)
(*                                                                         *)
(* convert_blob_export has an in/out size contract.  On entry *outputSize  *)
(* is the capacity of the caller's buffer.  On return it is 0 if the blob  *)
(* did not parse, and otherwise the length of the hashing blob, whether    *)
(* or not it fitted.  The caller modelled here uses that contract: on a    *)
(* false return with a reported size above its capacity, it allocates     *)
(* that many bytes and calls again.                                        *)
(***************************************************************************)
EXTENDS Naturals

CONSTANTS
  BlobLengths,    \* lengths get_block_hashing_blob can return
  BufferSizes,    \* capacities of the caller's first output buffer
  AddressPrefixes,       \* address prefixes decode_addr can return
  NoData          \* model value: the output buffer holds no blob

\* A serialized block, as the external parsers see it.
Blocks == [parses : BOOLEAN, hashingBlobLen : BlobLengths]

\* An address string, as base58::decode_addr, parse_binary and check_key
\* see it.  The two public keys are the same bytes whichever struct is parsed.
Addresses == [decodes : BOOLEAN, prefix : AddressPrefixes, dataEmpty : BOOLEAN,
              parsesStd : BOOLEAN, parsesInt : BOOLEAN,
              spendKeyOk : BOOLEAN, viewKeyOk : BOOLEAN]

VARIABLES
  block,        \* the block the caller is converting
  bufSize,      \* capacity of the buffer it passed
  outputSize,   \* *outputSize: in, the capacity; out, the reported size
  output,       \* the block whose hashing blob the buffer holds, or NoData
  written,      \* bytes the last call wrote into the buffer
  ret,          \* the last call's return value
  attempts,     \* calls made for this block
  phase,        \* "idle", "calling" or "returned"
  verdict,      \* the caller's verdict on the last block it converted
  address,      \* the last address decoded
  decoded       \* the prefix the decoder returned (0 on failure)

vars == <<block, bufSize, outputSize, output, written, ret, attempts, phase,
          verdict, address, decoded>>

convVars == <<block, bufSize, outputSize, output, written, ret, attempts,
              phase, verdict>>

(***************************************************************************)
(* convert_blob_export(input, inputSize, output, outputSize), in full.    *)
(* originalOutputSize is *outputSize on entry.  A failed parse sets        *)
(* *outputSize to 0 and returns false.  Otherwise *outputSize becomes the  *)
(* hashing blob's length; if it is larger than originalOutputSize the      *)
(* call returns false without copying, else it memcpys and returns true.   *)
(* In the outcomes, unprimed outputSize is originalOutputSize.             *)
(***************************************************************************)
ConvertCall(outcome) ==
  /\ phase = "calling"
  /\ attempts' = attempts + 1
  /\ phase' = "returned"
  /\ outcome
  /\ UNCHANGED <<block, bufSize, verdict, address, decoded>>

\* Lines 41-45: the blob does not parse.
ParseFailed ==
  /\ ~block.parses
  /\ outputSize' = 0 /\ ret' = FALSE
  /\ UNCHANGED <<output, written>>

\* Lines 48 and 53: the size reported, the hashing blob copied out.
Copied ==
  /\ outputSize' = block.hashingBlobLen
  /\ output' = block /\ written' = block.hashingBlobLen

\* Mutant: memcpy before the size check.
ConvertBlobCopyFirst ==
  ConvertCall(\/ ParseFailed
              \/ block.parses /\ Copied /\ ret' = (block.hashingBlobLen <= outputSize))

\* Mutant: *outputSize is only set when the blob fits.
ConvertBlobSizeOnSuccess ==
  ConvertCall(\/ ParseFailed
              \/ /\ block.parses /\ block.hashingBlobLen > outputSize
                 /\ ret' = FALSE /\ UNCHANGED <<outputSize, output, written>>
              \/ block.parses /\ block.hashingBlobLen <= outputSize /\ Copied /\ ret' = TRUE)

convert_blob_export ==
  ConvertCall(\/ ParseFailed
              \/ /\ block.parses /\ block.hashingBlobLen > outputSize
                 /\ outputSize' = block.hashingBlobLen /\ ret' = FALSE
                 /\ UNCHANGED <<output, written>>
              \/ block.parses /\ block.hashingBlobLen <= outputSize /\ Copied /\ ret' = TRUE)

(***************************************************************************)
(* The caller.  Submit passes a fresh buffer with *outputSize set to its   *)
(* capacity.  Resize retries once the call has reported a larger size.     *)
(* Settle takes the return value as the verdict.                           *)
(***************************************************************************)
Submit(b, size) ==
  /\ phase = "idle"
  /\ block' = b /\ bufSize' = size /\ outputSize' = size
  /\ output' = NoData /\ written' = 0 /\ attempts' = 0
  /\ phase' = "calling"
  /\ UNCHANGED <<ret, verdict, address, decoded>>

Resize ==
  /\ phase = "returned" /\ ~ret /\ outputSize > bufSize
  /\ bufSize' = outputSize
  /\ output' = NoData /\ written' = 0
  /\ phase' = "calling"
  /\ UNCHANGED <<block, outputSize, ret, attempts, verdict, address, decoded>>

Settle ==
  /\ phase = "returned" /\ (ret \/ outputSize <= bufSize)
  /\ verdict' = ret
  /\ phase' = "idle"
  /\ UNCHANGED <<block, bufSize, outputSize, output, written, ret, attempts,
                 address, decoded>>

(***************************************************************************)
(* decode_address_export: 0 unless decode_addr succeeds with non-empty     *)
(* data, the data parses as an account_public_address, and both keys pass  *)
(* check_key; then the prefix.                                             *)
(***************************************************************************)
\* Decode a; the export returns result if accepted and 0 otherwise.
DecodeOf(a, accepted, result) ==
  /\ phase = "idle"
  /\ address' = a
  /\ decoded' = IF accepted THEN result ELSE 0
  /\ UNCHANGED convVars

\* Lines 63-66: decode_addr succeeded with non-empty data.
DataDecoded(a) == a.decodes /\ ~a.dataEmpty

\* Mutant: returns decodeResult (a bool, so 1) instead of the prefix.
DecodeAddressReturnsStatus(a) ==
  DecodeOf(a, DataDecoded(a) /\ a.parsesStd /\ a.spendKeyOk /\ a.viewKeyOk, 1)

decode_address_export(a) ==
  DecodeOf(a, DataDecoded(a) /\ a.parsesStd /\ a.spendKeyOk /\ a.viewKeyOk, a.prefix)

\* decode_integrated_address_export: the same with an integrated_address.
decode_integrated_address_export(a) ==
  DecodeOf(a, DataDecoded(a) /\ a.parsesInt /\ a.spendKeyOk /\ a.viewKeyOk, a.prefix)

Init ==
  /\ block = [parses |-> FALSE, hashingBlobLen |-> CHOOSE l \in BlobLengths : TRUE]
  /\ bufSize = 0 /\ outputSize = 0 /\ output = NoData /\ written = 0
  /\ ret = FALSE /\ attempts = 0 /\ phase = "idle" /\ verdict = FALSE
  /\ address = CHOOSE a \in Addresses : ~a.decodes
  /\ decoded = 0

Next ==
  \/ \E b \in Blocks, size \in BufferSizes : Submit(b, size)
  \/ convert_blob_export
  \/ Resize
  \/ Settle
  \/ \E a \in Addresses : decode_address_export(a)
  \/ \E a \in Addresses : decode_integrated_address_export(a)

Spec == Init /\ [][Next]_vars

-----------------------------------------------------------------------------
TypeOK ==
  /\ block \in Blocks /\ bufSize \in Nat /\ outputSize \in Nat
  /\ output \in Blocks \cup {NoData} /\ written \in Nat
  /\ ret \in BOOLEAN /\ attempts \in Nat
  /\ phase \in {"idle", "calling", "returned"} /\ verdict \in BOOLEAN
  /\ address \in Addresses /\ decoded \in AddressPrefixes \cup {0}

(***************************************************************************)
(* convert_blob_export never writes past the caller's buffer: the memcpy  *)
(* happens only after the length has been checked against the capacity    *)
(* passed in *outputSize.                                                  *)
(***************************************************************************)
NoOverflow == written <= bufSize

(***************************************************************************)
(* A caller that follows the size contract reaches the right verdict.      *)
(* When it settles, it accepts exactly the blocks that parse, with the     *)
(* hashing blob of that block in its buffer, after at most one resize.     *)
(* This relies on line 48 reporting the needed size even when the call     *)
(* fails for want of room.                                                 *)
(***************************************************************************)
VerdictCorrect ==
  (phase = "idle" /\ attempts > 0) =>
    /\ verdict = block.parses
    /\ verdict => output = block /\ written = block.hashingBlobLen
    /\ attempts <= 2

=============================================================================
