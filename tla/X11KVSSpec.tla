------------------------------ MODULE X11KVSSpec ------------------------------
(***************************************************************************)
(* What x11kvs_hash promises its caller: given an 80-byte header it       *)
(* returns the tree hash of that header at HASHX11KVS_MAX_LEVEL, the      *)
(* recursive function x11kvshash computes, written as one.  A call is     *)
(* one Request followed, eventually, by one Respond.                      *)
(***************************************************************************)
EXTENDS X11KHash

CONSTANTS
  HASHX11KVS_MIN_LEVEL,
  HASHX11KVS_MAX_LEVEL,
  Headers,        \* the 80-byte headers a caller may pass
  NoHash          \* model value: no request / no result yet

ASSUME HASHX11KVS_MIN_LEVEL \in Nat \ {0}
ASSUME HASHX11KVS_MAX_LEVEL \in HASHX11KVS_MIN_LEVEL .. 10

VARIABLES request, result

specVars == <<request, result>>

(***************************************************************************)
(* x11kvshash(output, input, level): the base hash of the header itself;  *)
(* above the lowest level, the double hash of base, the hash of the first *)
(* child header (nonce drifted by le32 at 24) and of the second (at 28).  *)
(***************************************************************************)
TreeHash[level \in Nat, input \in Nat] ==
  LET hash == x11kv(input)
  IN  IF level = HASHX11KVS_MIN_LEVEL
      THEN hash
      ELSE Sha256d(<< hash,
                      TreeHash[level - 1, ChildHeader(input, hash, 24)],
                      TreeHash[level - 1, ChildHeader(input, hash, 28)] >>)

SpecInit == request = NoHash /\ result = NoHash

Request(hdr) ==
  /\ request = NoHash
  /\ request' = hdr
  /\ UNCHANGED result

Respond ==
  /\ request # NoHash
  /\ result = NoHash
  /\ result' = TreeHash[HASHX11KVS_MAX_LEVEL, request]
  /\ UNCHANGED request

SpecNext == (\E hdr \in Headers : Request(hdr)) \/ Respond

(***************************************************************************)
(* Every call returns.  Respond is the only step a pending call can take, *)
(* so this is weak fairness of Respond, stated as a leads-to.             *)
(***************************************************************************)
CallReturns == (request # NoHash) ~> (result # NoHash)

Spec == SpecInit /\ [][SpecNext]_specVars /\ CallReturns

=============================================================================
