------------------------- MODULE MCRelayConnection --------------------------
(***************************************************************************)
(* Instances of RelayConnection for TLC.                                   *)
(***************************************************************************)
EXTENDS RelayConnection

CONSTANTS c1, c2, j1, j2
=============================================================================
