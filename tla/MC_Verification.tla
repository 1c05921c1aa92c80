-------------------------- MODULE MC_Verification --------------------------
(***************************************************************************)
(* Instances of Verification for TLC.  No symmetry: the run checks         *)
(* liveness.                                                               *)
(***************************************************************************)
EXTENDS Verification
=============================================================================
