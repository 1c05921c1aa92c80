----------------------------- MODULE MC_Routing -----------------------------
(***************************************************************************)
(* Instance of Routing for TLC: four nodes and the ways below, of which    *)
(* any may be there.  With a node missing, a way has a gap.                *)
(***************************************************************************)
EXTENDS Routing

MCIds == 1 .. 4
MCWays == {<<1, 2, 3>>, <<3, 4>>, <<1, 4, 2>>, <<1, 3>>}
=============================================================================
