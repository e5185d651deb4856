--------------------------------- MODULE X11KV ---------------------------------
(***************************************************************************)
(* x11kv(output, input) (x11kvs.c) as the loop the C code runs: two       *)
(* 64-byte heap buffers, the pointers hashA / hashB that name them, the   *)
(* loop counter i and the round count n read from round 0.  Each round    *)
(* hashes into hashB, copies hashB back over hashA and swaps the pointers.*)
(***************************************************************************)
EXTENDS X11KHash

CONSTANTS
  Headers,        \* the 80-byte inputs x11kv may be called on
  NoHash          \* model value: a malloc'd buffer not yet written

VARIABLES
  input,      \* the header passed in
  buf,        \* the two malloc(64) buffers, by number
  hashA,      \* number of the buffer hashA points to
  hashB,      \* number of the buffer hashB points to
  i,          \* the loop counter
  n,          \* the number of rounds, read from round 0
  calls,      \* processHash calls made so far
  out,        \* the caller's 32-byte output buffer
  status      \* "idle", "running" or "done"

vars == <<input, buf, hashA, hashB, i, n, calls, out, status>>

Buffers == {1, 2}

(***************************************************************************)
(* hashA = malloc(64); hashB = malloc(64); iteration 0:                    *)
(* processHash(hashA, input, 0, 80); then n is set to rounds, the count    *)
(* computed from hashA.                                                    *)
(***************************************************************************)
BeginRounds(x, rounds) ==
  /\ status = "idle"
  /\ input' = x
  /\ buf' = [buf EXCEPT ![1] = processHash(0, x, 80)]
  /\ hashA' = 1
  /\ hashB' = 2
  /\ n' = rounds
  /\ i' = 1
  /\ calls' = 1
  /\ status' = "running"
  /\ UNCHANGED out

\* Mutant: n counts iteration 0 as well (n = MIN + 1 + p[63] % 5).
BeginWideRange(x) == BeginRounds(x, X11KVRounds(processHash(0, x, 80)) + 1)

\* p = hashA; n = MIN + (p[63] % (MAX - MIN + 1)).
Begin(x) == BeginRounds(x, X11KVRounds(processHash(0, x, 80)))

\* processHash(hashB, hashA, p[i % 64] % 11, 64), with p = hashA.
NextHash == processHash(ByteAt(buf[hashA], i % 64) % NUMBER_ALGOS, buf[hashA], 64)

(***************************************************************************)
(* One pass of the loop body: the buffers become bufAfter (processHash    *)
(* into hashB, then memcpy(hashA, hashB, 64)), hashA takes hashB and      *)
(* hashB becomes newB (the swap through t).                               *)
(***************************************************************************)
RoundOf(bufAfter, newB) ==
  /\ status = "running"
  /\ i < n
  /\ buf' = bufAfter
  /\ hashA' = hashB
  /\ hashB' = newB
  /\ i' = i + 1
  /\ calls' = calls + 1
  /\ UNCHANGED <<input, n, out, status>>

\* memcpy(output, hashA, 32) once the loop has ended; free both buffers.
Finish ==
  /\ status = "running"
  /\ i >= n
  /\ out' = Trunc32(buf[hashA])
  /\ status' = "done"
  /\ UNCHANGED <<input, buf, hashA, hashB, i, n, calls>>

\* Mutant: the swap without a temporary (hashA = hashB; hashB = hashA).
RoundBadSwap == RoundOf([buf EXCEPT ![hashB] = NextHash, ![hashA] = NextHash], hashB)

\* Mutant: memcpy(hashB, hashA, 64) -- the copy runs the wrong way and
\* overwrites the fresh digest with the old one.
RoundMemcpySwapped == RoundOf([buf EXCEPT ![hashB] = buf[hashA]], hashA)

\* for (i = 1; i < n; i++) { processHash; memcpy(hashA, hashB, 64); swap }
Round == RoundOf([buf EXCEPT ![hashB] = NextHash, ![hashA] = NextHash], hashA)

Init ==
  /\ input = NoHash
  /\ buf = [b \in Buffers |-> NoHash]
  /\ hashA = 1
  /\ hashB = 2
  /\ i = 0
  /\ n = 0
  /\ calls = 0
  /\ out = NoHash
  /\ status = "idle"

Next == (\E x \in Headers : Begin(x)) \/ Round \/ Finish

Spec == Init /\ [][Next]_vars

-----------------------------------------------------------------------------
TypeOK ==
  /\ status \in {"idle", "running", "done"}
  /\ input \in Headers \cup {NoHash}
  /\ buf \in [Buffers -> Digest64 \cup {NoHash}]
  /\ {hashA, hashB} = Buffers
  /\ i \in 0 .. HASHX11KV_MAX_NUMBER_ITERATIONS
  /\ n \in 0 .. HASHX11KV_MAX_NUMBER_ITERATIONS
  /\ calls \in Nat
  /\ out \in Digest32 \cup {NoHash}

(***************************************************************************)
(* The ping-pong loop -- hash into hashB, copy back over hashA, swap the  *)
(* pointers, re-read p from hashA -- returns exactly the chain function   *)
(* x11kv of X11KHash that the tree hash is built on.                      *)
(***************************************************************************)
ChainCorrect == status = "done" => out = x11kv(input)

(***************************************************************************)
(* x11kv applies between HASHX11KV_MIN and HASHX11KV_MAX primitives (2..6 *)
(* in the code), whatever byte 63 of the round-0 digest is.               *)
(***************************************************************************)
RoundsInRange ==
  status = "done" =>
    calls \in HASHX11KV_MIN_NUMBER_ITERATIONS .. HASHX11KV_MAX_NUMBER_ITERATIONS

=============================================================================
