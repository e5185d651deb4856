--------------------------------- MODULE MCX11K ---------------------------------
(***************************************************************************)
(* Instantiates X11K for TLC with the mixers of MCHashes: four inputs, of *)
(* two lengths (len is passed on to Blake512 in round 0).                 *)
(***************************************************************************)
EXTENDS X11K, MCHashes

MC_Inputs == 0 .. 3

=============================================================================
