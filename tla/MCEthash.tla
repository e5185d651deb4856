------------------------------ MODULE MCEthash ------------------------------
(***************************************************************************)
(* Ethash for TLC.                                                          *)
(* - Two light handles and one full handle: the full can be built from     *)
(*   either light, and a light can be deleted while the full lives on.     *)
(* - The blocks lie in epochs 0 and 1.                                     *)
(* - The ethash functions are small mixers of the epoch (block / 30000).   *)
(*   They keep the cache size apart from the dataset size and make         *)
(*   Hashimoto depend on every argument.                                   *)
(***************************************************************************)
EXTENDS Ethash

MC_Epoch(b) == b \div 30000
MC_DataSize(b) == 1024 + 128 * MC_Epoch(b)
MC_CacheSize(b) == 16 + 2 * MC_Epoch(b)
MC_SeedHash(b) == 7 * MC_Epoch(b) + 3
MC_Hashimoto(s, z, h, n) == (31 * s + 7 * z + 3 * h + n) % 101

=============================================================================
