---------------------------- MODULE MC_Attempts ----------------------------
(***************************************************************************)
(* Instances of Attempts for TLC.  No symmetry: the run checks liveness.   *)
(***************************************************************************)
EXTENDS Attempts
=============================================================================
