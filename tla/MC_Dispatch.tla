---------------------------- MODULE MC_Dispatch ----------------------------
(***************************************************************************)
(* Instances of Dispatch for TLC.  No symmetry: a run checks liveness.     *)
(***************************************************************************)
EXTENDS Dispatch
=============================================================================
