---------------------------- MODULE MCCryptonote ----------------------------
(***************************************************************************)
(* Cryptonote for TLC.  Blob lengths lie below, at and above the buffer    *)
(* capacities, so a blob can fit, fit exactly, or need a resize.  Prefix   *)
(* 0 is included because a decoder failure also returns 0.                 *)
(***************************************************************************)
EXTENDS Cryptonote

=============================================================================
