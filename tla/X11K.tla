---------------------------------- MODULE X11K ----------------------------------
(***************************************************************************)
(* x11k_hash(input, output, len) (x11k.c) as the loop the C code runs:    *)
(* two 64-byte heap buffers named by the pointers hashA / hashB; round 0  *)
(* hashes the len input bytes with Blake512, rounds 1..63 hash the whole  *)
(* current state with the primitive its byte i selects, into hashB, and   *)
(* swap the pointers (no copy, unlike x11kv).                             *)
(***************************************************************************)
EXTENDS X11KHash

CONSTANTS
  Inputs,         \* the input byte strings a caller may pass
  InputLengths,   \* the len values a caller may pass with them
  NoHash          \* model value: a malloc'd buffer not yet written

VARIABLES
  input,      \* the input the caller passed
  inputLen,   \* its len
  buf,        \* the two malloc(64) buffers, by number
  hashA,      \* number of the buffer hashA points to
  hashB,      \* number of the buffer hashB points to
  i,          \* the loop counter
  out,        \* the caller's 32-byte output buffer
  status      \* "idle", "running" or "done"

vars == <<input, inputLen, buf, hashA, hashB, i, out, status>>

Buffers == {1, 2}

\* hashA = malloc(64); hashB = malloc(64); processHash(hashA, input, 0, len).
Begin(x, len) ==
  /\ status = "idle"
  /\ input' = x
  /\ inputLen' = len
  /\ buf' = [buf EXCEPT ![1] = processHash(0, x, len)]
  /\ hashA' = 1
  /\ hashB' = 2
  /\ i' = 1
  /\ status' = "running"
  /\ UNCHANGED out

(***************************************************************************)
(* One pass of the loop body while inLoop holds: p = hashA;               *)
(* processHash(hashB, hashA, p[sel] % 11, 64); then the pointers become   *)
(* newA and newB (t = hashA; hashA = hashB; hashB = t in the code).       *)
(***************************************************************************)
RoundOf(inLoop, sel, newA, newB) ==
  /\ status = "running"
  /\ inLoop
  /\ buf' = [buf EXCEPT ![hashB] =
               processHash(ByteAt(buf[hashA], sel) % NUMBER_ALGOS, buf[hashA], 64)]
  /\ hashA' = newA
  /\ hashB' = newB
  /\ i' = i + 1
  /\ UNCHANGED <<input, inputLen, out, status>>

\* memcpy(output, hashA, 32) once the loop has ended; free both buffers.
Finish ==
  /\ status = "running"
  /\ i >= HASHX11K_NUMBER_ITERATIONS
  /\ out' = Trunc32(buf[hashA])
  /\ status' = "done"
  /\ UNCHANGED <<input, inputLen, buf, hashA, hashB, i>>

\* Mutant: the loop runs while i <= 64 and reads p[64], past the buffer.
RoundPastEnd == RoundOf(i <= HASHX11K_NUMBER_ITERATIONS, i % 64, hashB, hashA)

\* Mutant: the pointer swap is left out, so every round rehashes round 0's state.
RoundNoSwap == RoundOf(i < HASHX11K_NUMBER_ITERATIONS, i, hashA, hashB)

\* for (i = 1; i < 64; i++) { ...; swap }
Round == RoundOf(i < HASHX11K_NUMBER_ITERATIONS, i, hashB, hashA)

Init ==
  /\ input = NoHash
  /\ inputLen = 0
  /\ buf = [b \in Buffers |-> NoHash]
  /\ hashA = 1
  /\ hashB = 2
  /\ i = 0
  /\ out = NoHash
  /\ status = "idle"

Next ==
  \/ \E x \in Inputs, len \in InputLengths : Begin(x, len)
  \/ Round
  \/ Finish

Spec == Init /\ [][Next]_vars

-----------------------------------------------------------------------------
TypeOK ==
  /\ status \in {"idle", "running", "done"}
  /\ input \in Inputs \cup {NoHash}
  /\ inputLen \in InputLengths \cup {0}
  /\ buf \in [Buffers -> Digest64 \cup {NoHash}]
  /\ {hashA, hashB} = Buffers
  /\ i \in 0 .. HASHX11K_NUMBER_ITERATIONS
  /\ out \in Digest32 \cup {NoHash}

(***************************************************************************)
(* Pointer swapping without a copy is correct: every round reads its      *)
(* selector byte and its input from the buffer the previous round wrote,  *)
(* so the 32 bytes returned are the 64-round chain over the len input     *)
(* bytes.                                                                 *)
(***************************************************************************)
ChainCorrect == status = "done" => out = X11KRef(input, inputLen)

=============================================================================
