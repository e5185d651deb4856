-------------------------------- MODULE X11KVS --------------------------------
(***************************************************************************)
(* x11kvs_hash / x11kvshash (x11kvs.c) as the machine the C code runs:    *)
(* an explicit call stack of x11kvshash activations, each split at its    *)
(* two recursive calls, and a count of the heap buffers it has malloc'd   *)
(* and not freed.  One caller thread makes one call.                      *)
(*                                                                         *)
(* A frame is one activation: its input header and level, where it       *)
(* resumes (pc), its buffers hash, hash1, hash2 and its two child headers *)
(* (nextheader1Pointer, nextheader2Pointer).                              *)
(***************************************************************************)
EXTENDS X11KHash

CONSTANTS
  HASHX11KVS_MIN_LEVEL,
  HASHX11KVS_MAX_LEVEL,
  Headers,        \* the 80-byte headers a caller may pass
  InputLengths,   \* the len arguments a caller may pass with them
  NoHash          \* model value: a buffer not yet written

ASSUME HASHX11KVS_MIN_LEVEL \in Nat \ {0}
ASSUME HASHX11KVS_MAX_LEVEL \in HASHX11KVS_MIN_LEVEL .. 10

VARIABLES
  hdr,        \* the input the caller passed
  inputLen,   \* the len the caller passed with it
  stack,      \* the x11kvshash activations, innermost last
  out,        \* the caller's output buffer
  status,     \* "idle", "running" (inside x11kvs_hash) or "done"
  live,       \* heap buffers malloc'd and not yet freed
  leaves,     \* activations that returned at the lowest level
  branches    \* activations that recursed

vars == <<hdr, inputLen, stack, out, status, live, leaves, branches>>

Frame == [input : Nat, level : HASHX11KVS_MIN_LEVEL .. HASHX11KVS_MAX_LEVEL,
          pc : {"start", "wait1", "wait2"},
          hash : Digest32 \cup {NoHash}, hash1 : Digest32 \cup {NoHash},
          hash2 : Digest32 \cup {NoHash},
          next1 : Nat \cup {NoHash}, next2 : Nat \cup {NoHash}]

\* A fresh activation x11kvshash(output, input, level), before its first line.
NewFrame(input, level) ==
  [input |-> input, level |-> level, pc |-> "start",
   hash |-> NoHash, hash1 |-> NoHash, hash2 |-> NoHash,
   next1 |-> NoHash, next2 |-> NoHash]

Top == stack[Len(stack)]

SetTop(f) == [stack EXCEPT ![Len(stack)] = f]

(***************************************************************************)
(* An activation returns after writing v into its output: the caller's    *)
(* buffer for the outermost one, else hash1 or hash2 of the activation    *)
(* that called it, whichever call it is waiting on.                       *)
(***************************************************************************)
Return(v) ==
  \/ /\ Len(stack) = 1
     /\ stack' = << >>
     /\ out' = v
     /\ status' = "done"
  \/ /\ Len(stack) > 1
     /\ LET rest   == SubSeq(stack, 1, Len(stack) - 1)
            caller == rest[Len(rest)]
            slot   == IF caller.pc = "wait1" THEN "hash1" ELSE "hash2"
        IN  stack' = [rest EXCEPT ![Len(rest)] = [caller EXCEPT ![slot] = v]]
     /\ UNCHANGED <<out, status>>

(***************************************************************************)
(* x11kvs_hash(input, output, len): len is not looked at; the call goes   *)
(* straight to x11kvshash(output, input, HASHX11KVS_MAX_LEVEL).           *)
(***************************************************************************)
Begin(input, len) ==
  /\ status = "idle"
  /\ hdr' = input
  /\ inputLen' = len
  /\ stack' = << NewFrame(input, HASHX11KVS_MAX_LEVEL) >>
  /\ status' = "running"
  /\ UNCHANGED <<out, live, leaves, branches>>

(***************************************************************************)
(* hash = malloc(32); x11kv(hash, input); if (level == MIN_LEVEL)         *)
(* { memcpy(output, hash, 32); return; } -- without free(hash).           *)
(* isLeaf is the base-case test.                                          *)
(***************************************************************************)
Leaf(isLeaf) ==
  /\ status = "running"
  /\ Top.pc = "start"
  /\ isLeaf
  /\ live' = live + 1
  /\ leaves' = leaves + 1
  /\ Return(x11kv(Top.input))
  /\ UNCHANGED <<hdr, inputLen, branches>>

(***************************************************************************)
(* Past the base-case test (recurses): derive the two child headers from  *)
(* the nonce and le32 words 24 and 28 of hash; malloc hash1, hash2 and    *)
(* the two header copies; call x11kvshash(hash1, nextheader1Pointer,      *)
(* childLevel).                                                           *)
(***************************************************************************)
Branch(recurses, childLevel) ==
  /\ status = "running"
  /\ Top.pc = "start"
  /\ recurses
  /\ LET f    == Top
         hash == x11kv(f.input)
         n1   == ChildHeader(f.input, hash, 24)
         n2   == ChildHeader(f.input, hash, 28)
     IN  stack' = Append(SetTop([f EXCEPT !.pc = "wait1", !.hash = hash,
                                          !.next1 = n1, !.next2 = n2]),
                         NewFrame(n1, childLevel))
  /\ live' = live + 5
  /\ branches' = branches + 1
  /\ UNCHANGED <<hdr, inputLen, out, status, leaves>>

(***************************************************************************)
(* After the second child returned: hashConcated = malloc(96) holding     *)
(* hash || second || third; sha256_double_hash into output; free hash,    *)
(* hash1, hash2 and the two header copies -- not hashConcated.            *)
(***************************************************************************)
CombineOf(second, third) ==
  /\ status = "running"
  /\ Top.pc = "wait2"
  /\ live' = live + 1 - 5
  /\ Return(Sha256d(<< Top.hash, second, third >>))
  /\ UNCHANGED <<hdr, inputLen, leaves, branches>>

\* Mutant: the recursion stops one level early (level <= MIN + 1).
LeafTooEarly == Leaf(Top.level <= HASHX11KVS_MIN_LEVEL + 1)

StartLeaf == Leaf(Top.level = HASHX11KVS_MIN_LEVEL)

\* Mutant: the base-case test is level >= MIN, so level MIN recurses to 0.
BranchAtLeaf == Branch(Top.level >= HASHX11KVS_MIN_LEVEL, Top.level - 1)

\* Mutant: the first recursive call passes level instead of level - 1.
BranchNoDecrement == Branch(Top.level # HASHX11KVS_MIN_LEVEL, Top.level)

StartBranch == Branch(Top.level # HASHX11KVS_MIN_LEVEL, Top.level - 1)

\* After the first child returned: x11kvshash(hash2, nextheader2Pointer, level - 1).
Call2 ==
  /\ status = "running"
  /\ Top.pc = "wait1"
  /\ stack' = Append(SetTop([Top EXCEPT !.pc = "wait2"]),
                     NewFrame(Top.next2, Top.level - 1))
  /\ UNCHANGED <<hdr, inputLen, out, status, live, leaves, branches>>

\* Mutant: the children are concatenated in the wrong order (hash2 before hash1).
CombineSwapped == CombineOf(Top.hash2, Top.hash1)

Combine == CombineOf(Top.hash1, Top.hash2)

Init ==
  /\ hdr = NoHash
  /\ inputLen = 0
  /\ stack = << >>
  /\ out = NoHash
  /\ status = "idle"
  /\ live = 0
  /\ leaves = 0
  /\ branches = 0

Running == StartLeaf \/ StartBranch \/ Call2 \/ Combine

Next ==
  \/ \E input \in Headers, len \in InputLengths : Begin(input, len)
  \/ Running

\* The calling thread runs x11kvs_hash to its end once it has entered it.
Spec == Init /\ [][Next]_vars /\ WF_vars(Running)

-----------------------------------------------------------------------------
TypeOK ==
  /\ status \in {"idle", "running", "done"}
  /\ hdr \in Headers \cup {NoHash}
  /\ inputLen \in InputLengths \cup {0}
  /\ stack \in Seq(Frame)
  /\ out \in Digest32 \cup {NoHash}
  /\ live \in Nat /\ leaves \in Nat /\ branches \in Nat

(***************************************************************************)
(* Refinement: the stack machine, with its split activations, pc-directed *)
(* returns into hash1 / hash2 and the concatenation order, computes       *)
(* exactly TreeHash of the caller's header at HASHX11KVS_MAX_LEVEL, and   *)
(* the call eventually returns (X11KVSSpec's CallReturns).                *)
(***************************************************************************)
Abs == INSTANCE X11KVSSpec
         WITH request <- IF status = "idle" THEN NoHash ELSE hdr,
              result  <- out

AbsSpec == Abs!Spec

(***************************************************************************)
(* The C stack never holds more x11kvshash activations than there are     *)
(* levels: level is decremented on both recursive calls and the recursion *)
(* stops at HASHX11KVS_MIN_LEVEL.                                         *)
(***************************************************************************)
StackBounded ==
  Len(stack) <= HASHX11KVS_MAX_LEVEL - HASHX11KVS_MIN_LEVEL + 1

(***************************************************************************)
(* When x11kvs_hash returns it has run x11kv at 2^(MAX-MIN) leaves and    *)
(* recursed at 2^(MAX-MIN) - 1 inner activations: every activation above  *)
(* the lowest level made both of its calls, each exactly once.            *)
(***************************************************************************)
TreeShape ==
  status = "done" =>
    /\ leaves = 2^(HASHX11KVS_MAX_LEVEL - HASHX11KVS_MIN_LEVEL)
    /\ branches = 2^(HASHX11KVS_MAX_LEVEL - HASHX11KVS_MIN_LEVEL) - 1

-----------------------------------------------------------------------------
(***************************************************************************)
(* Statements of spec.md the code is checked against (violation runs).    *)
(***************************************************************************)

(***************************************************************************)
(* spec.md 9: buffer lifetimes nest with the recursion (and 5 bounds the  *)
(* live buffers of a sequential run by O(7)), so when the call returns    *)
(* every buffer x11kvshash malloc'd has been freed.                       *)
(***************************************************************************)
NoLeakOnReturn == status = "done" => live = 0

(***************************************************************************)
(* spec.md 4.4 step 2: drift1 = le32(base[24:28]) mod 0x10000 and drift2  *)
(* likewise at 28; 0x10000 is HASHX11KVS_MAX_DRIFT + 1.                   *)
(***************************************************************************)
SpecDrift(input, hash, off) ==
  le32enc(input, (Nonce(input) + (le32dec(hash, off) % (HASHX11KVS_MAX_DRIFT + 1))) % Word)

DriftAsSpecified ==
  \A k \in 1 .. Len(stack) :
    stack[k].pc # "start" =>
      /\ stack[k].next1 = SpecDrift(stack[k].input, stack[k].hash, 24)
      /\ stack[k].next2 = SpecDrift(stack[k].input, stack[k].hash, 28)

(***************************************************************************)
(* spec.md 4.4 / 7: an input that is not exactly 80 bytes is rejected     *)
(* before any primitive is applied.                                       *)
(***************************************************************************)
LengthRejected ==
  (status # "idle" /\ inputLen # 80) => leaves + branches = 0

=============================================================================
