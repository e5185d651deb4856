---------------------------- MODULE MCHashExports ----------------------------
(***************************************************************************)
(* HashExports for TLC, with the X11K data layer of MCHashes.  uint32_t    *)
(* is scaled to 16 bits, so (uint32_t)-1 is 65535.  The output lengths     *)
(* cover the default (-1), 20 (valid for both), 48 (above                  *)
(* BLAKE2S_OUTBYTES but valid for blake2b) and 0, which both reject.       *)
(* The input lengths are a short header (76), a full header (80) and an    *)
(* Equihash header (140).                                                  *)
(***************************************************************************)
EXTENDS HashExports, MCHashes

MC_Headers == {c * Word + n : c \in {0, 1}, n \in {0, 250}}

MC_Blake2(v, x, len, outlen) ==
  (x * 3 + len * 5 + outlen * 7 + (IF v = "s" THEN 1 ELSE 2)) % 1024

MC_VerusHash(x, len) == (x * 11 + len) % 1024

MC_EquihashOk(v, x) == x % 2 = 0

=============================================================================
