------------------------------- MODULE MCX11KVS -------------------------------
(***************************************************************************)
(* Instantiates X11KVS for TLC with the mixers of MCHashes.  Words are    *)
(* one byte wide (WordBytes = 1) so that nonce + drift fits TLC's         *)
(* integers; HASHX11KVS_MAX_DRIFT scales to 2^4 - 1 as 0xFFFF = 2^16 - 1  *)
(* does for four-byte words.  The levels are the code's, 1 and 7.         *)
(***************************************************************************)
EXTENDS X11KVS, MCHashes

\* Two header contents, each with nonce 0 and with a nonce close enough to
\* the wrap that nonce + drift overflows on some paths of the tree.
MC_Headers == { c * Word + n : c \in {0, 1}, n \in {0, 250} }

=============================================================================
