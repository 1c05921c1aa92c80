------------------------------ MODULE MC_Carts ------------------------------
(***************************************************************************)
(* Instances of Carts for TLC.  Identities are interchangeable, so every   *)
(* set of model values is a symmetry set (no run of it checks liveness).   *)
(***************************************************************************)
EXTENDS Carts, TLC

CONSTANT MaxAssigns         \* bound on the assignments of the dispatcher

FewAssigns == Cardinality(assigned) <= MaxAssigns

Symmetry ==
    Permutations(Orders) \cup Permutations(Customers)
        \cup Permutations(Shippers) \cup Permutations(Requests)

\* CartService writes the queue and the shippers' status and never reads
\* them, so states that differ only there behave alike.
WhatCartServiceReads == <<carts, cartVars>>
=============================================================================
