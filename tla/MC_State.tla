------------------------------ MODULE MC_State ------------------------------
(***************************************************************************)
(* Instances of StateStore for TLC.                                         *)
(***************************************************************************)
EXTENDS StateStore

CONSTANTS c1, c2, d1

=============================================================================
