-------------------------------- MODULE MCX11KV --------------------------------
(***************************************************************************)
(* Instantiates X11KV for TLC with the mixers of MCHashes, on 80-byte     *)
(* headers of sixteen contents and two nonces.                               *)
(***************************************************************************)
EXTENDS X11KV, MCHashes

MC_Headers == { c * Word + nonce : c \in 0 .. 15, nonce \in {0, 250} }

=============================================================================
