------------------------------ MODULE MC_Rooms ------------------------------
(***************************************************************************)
(* Instances of Rooms for TLC.                                             *)
(***************************************************************************)
EXTENDS Rooms, TLC

CONSTANT MaxTaken           \* bound on the orders announced and assigned

FewTaken == Cardinality(announced) + Cardinality(assigned) <= MaxTaken

\* Neither the handlers nor the gateway read the queue or a status.
WhatIsRead == <<carts, cartVars, socketVars>>

Symmetry ==
    Permutations(Shippers) \cup Permutations(Orders)
        \cup Permutations(Requests) \cup Permutations(Sockets)
=============================================================================
