-------------------------------- MODULE Ethash --------------------------------
(***************************************************************************)
(* libethash/exports.cpp: the handle-based ethash API the pool calls.      *)
(*                                                                         *)
(* - A light handle holds the cache for the epoch of its block number.     *)
(* - A full handle holds the DAG.  ethash_full_new_export builds it from a *)
(*   light: it sizes and seeds the DAG from light->block_number            *)
(*   (lines 44-45), and ethash_full_new_internal fills it from the light's *)
(*   cache during the call.  The full keeps no reference to the light.     *)
(* - Compute on either handle gives the hashimoto result.  A light         *)
(*   evaluates it on demand over ethash_get_datasize(block) items; a full  *)
(*   reads it from its DAG.                                                *)
(*                                                                         *)
(* The ethash library itself is external.  DataSize, CacheSize, SeedHash   *)
(* and Hashimoto are constant operators.  Handle creation may fail and     *)
(* return NULL: light_new when allocation or cache generation fails,       *)
(* full_new when the DAG file cannot be created.                           *)
(*                                                                         *)
(* The host is the environment.  It passes only handles it holds: created, *)
(* not NULL, and not yet deleted.  Handle ids are never reused.            *)
(***************************************************************************)
EXTENDS Naturals, FiniteSets

CONSTANTS
  LightIds, FullIds,  \* handles the host may create
  BlockNumbers,       \* block numbers it passes
  HeaderHashes, Nonces,
  DataSize(_), CacheSize(_), SeedHash(_),
  Hashimoto(_, _, _, _)  \* Hashimoto(seed, fullSize, header, nonce)

VARIABLES
  light,    \* light handle -> [status, block]
  full,     \* full handle -> [status, seed, size, block]; block is a ghost
  answers   \* every [q, block, header, nonce, value] an export has returned

vars == <<light, full, answers>>

Status == {"unused", "live", "deleted"}

\* A question the host can ask about the epoch of block b, with its answer.
Answer(q, b, h, n, v) == [q |-> q, block |-> b, header |-> h, nonce |-> n, value |-> v]

Live(handles) == {id \in DOMAIN handles : handles[id].status = "live"}

\* ethash_light_compute: full_size from the light's own block number.
LightCompute(b, h, n) == Hashimoto(SeedHash(b), DataSize(b), h, n)

(***************************************************************************)
(* The pure queries (lines 13-21, 73-76).                                *)
(***************************************************************************)
ethash_get_datasize_export(b) ==
  /\ answers' = answers \cup {Answer("datasize", b, 0, 0, DataSize(b))}
  /\ UNCHANGED <<light, full>>

ethash_get_cachesize_export(b) ==
  /\ answers' = answers \cup {Answer("cachesize", b, 0, 0, CacheSize(b))}
  /\ UNCHANGED <<light, full>>

ethash_get_seedhash_export(b) ==
  /\ answers' = answers \cup {Answer("seedhash", b, 0, 0, SeedHash(b))}
  /\ UNCHANGED <<light, full>>

\* ethash_light_new: a handle for block b's epoch, or NULL.
ethash_light_new_export(id, b) ==
  /\ light[id].status = "unused"
  /\ \/ light' = [light EXCEPT ![id] = [status |-> "live", block |-> b]]
     \/ UNCHANGED light                    \* NULL: nothing allocated
  /\ UNCHANGED <<full, answers>>

ethash_light_delete_export(id) ==
  /\ id \in Live(light)
  /\ light' = [light EXCEPT ![id].status = "deleted"]
  /\ UNCHANGED <<full, answers>>

\* *result = ethash_light_compute(light, *header_hash, nonce)
ethash_light_compute_export(id, h, n) ==
  /\ id \in Live(light)
  /\ answers' = answers \cup
       {Answer("compute", light[id].block, h, n, LightCompute(light[id].block, h, n))}
  /\ UNCHANGED <<light, full>>

(***************************************************************************)
(* ethash_full_new_export(dirname, light, callback):                       *)
(*   full_size = ethash_get_datasize(light->block_number);                 *)
(*   seedhash  = ethash_get_seedhash(light->block_number);                 *)
(*   return ethash_full_new_internal(dirname, seedhash, full_size, ...);   *)
(* The internal call returns NULL if the DAG file cannot be set up.        *)
(***************************************************************************)
FullNew(fid, id, fullSize) ==
  LET b == light[id].block
  IN  /\ id \in Live(light) /\ full[fid].status = "unused"
      /\ \/ full' = [full EXCEPT ![fid] = [status |-> "live", seed |-> SeedHash(b),
                                            size |-> fullSize, block |-> b]]
         \/ UNCHANGED full                 \* NULL
      /\ UNCHANGED <<light, answers>>

\* Mutant: the DAG sized with the cache size of the light's block.
FullNewCacheSize(fid, id) == FullNew(fid, id, CacheSize(light[id].block))

ethash_full_new_export(fid, id) == FullNew(fid, id, DataSize(light[id].block))

ethash_full_delete_export(fid) ==
  /\ fid \in Live(full)
  /\ full' = [full EXCEPT ![fid].status = "deleted"]
  /\ UNCHANGED <<light, answers>>

\* *result = ethash_full_compute(full, *header_hash, nonce): reads the DAG.
ethash_full_compute_export(fid, h, n) ==
  /\ fid \in Live(full)
  /\ answers' = answers \cup
       {Answer("compute", full[fid].block, h, n,
               Hashimoto(full[fid].seed, full[fid].size, h, n))}
  /\ UNCHANGED <<light, full>>

ethash_full_dag_size_export(fid) ==
  /\ fid \in Live(full)
  /\ answers' = answers \cup {Answer("datasize", full[fid].block, 0, 0, full[fid].size)}
  /\ UNCHANGED <<light, full>>

Init ==
  /\ light = [id \in LightIds |-> [status |-> "unused", block |-> 0]]
  /\ full = [fid \in FullIds |-> [status |-> "unused", seed |-> 0, size |-> 0, block |-> 0]]
  /\ answers = {}

Next ==
  \/ \E b \in BlockNumbers :
       \/ ethash_get_datasize_export(b)
       \/ ethash_get_cachesize_export(b)
       \/ ethash_get_seedhash_export(b)
  \/ \E id \in LightIds, b \in BlockNumbers : ethash_light_new_export(id, b)
  \/ \E id \in LightIds : ethash_light_delete_export(id)
  \/ \E id \in LightIds, h \in HeaderHashes, n \in Nonces :
       ethash_light_compute_export(id, h, n)
  \/ \E fid \in FullIds, id \in LightIds : ethash_full_new_export(fid, id)
  \/ \E fid \in FullIds : ethash_full_delete_export(fid)
  \/ \E fid \in FullIds, h \in HeaderHashes, n \in Nonces :
       ethash_full_compute_export(fid, h, n)
  \/ \E fid \in FullIds : ethash_full_dag_size_export(fid)

Spec == Init /\ [][Next]_vars

-----------------------------------------------------------------------------
TypeOK ==
  /\ \A id \in LightIds : light[id].status \in Status
  /\ \A fid \in FullIds : full[fid].status \in Status
  /\ \A a \in answers : a.q \in {"datasize", "cachesize", "seedhash", "compute"}

(***************************************************************************)
(* The exports never give two different answers to the same question      *)
(* about an epoch.  A share checked against a full DAG gets the result     *)
(* its light handle would give, for a full built from any light of that    *)
(* block, before or after that light is deleted.  full_dag_size_export     *)
(* reports what get_datasize_export says for the block.  This rests on     *)
(* full_new_export sizing and seeding the DAG from light->block_number.    *)
(***************************************************************************)
ConsistentAnswers ==
  \A a1, a2 \in answers :
    (a1.q = a2.q /\ a1.block = a2.block /\ a1.header = a2.header
       /\ a1.nonce = a2.nonce) => a1.value = a2.value

=============================================================================
