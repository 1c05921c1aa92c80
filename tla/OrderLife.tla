----------------------------- MODULE OrderLife -----------------------------
(***************************************************************************)
(* What CartService promises about the life of an order, whatever requests *)
(* overlap, fail or die with the process: it is placed once and is never   *)
(* CREATED again; a shipper can bind himself to it only while it is        *)
(* CREATED, and what he promised puts him in charge once at most, late     *)
(* perhaps; nothing is DONE before it was on its way; and only those who   *)
(* had to do with it move it.                                              *)
(*                                                                         *)
(* It does not promise that a promise kept late finds the order as it was, *)
(* nor that one who is given the order has promised anything.              *)
(***************************************************************************)
CONSTANTS
    Orders,
    Customers,
    Shippers,
    Tickets,        \* tell the promises of a shipper for an order apart
    Null,
    AtStore

VARIABLES
    life,           \* whose each order is, its status, shipper and place
    promises,       \* <<order, shipper, ticket>>: neither kept nor withdrawn
    involved        \* <<order, shipper>>: he promised, or was given it

vars == <<life, promises, involved>>

Order(u, status) == [user |-> u, shipperId |-> Null,
                     status |-> status, deliveryCoord |-> AtStore]

Init ==
    /\ life = [o \in Orders |-> Order(Null, "ABSENT")]
    /\ promises = {}
    /\ involved = {}

Place(o) ==
    /\ life[o].status = "ABSENT"
    /\ \E u \in Customers : life' = [life EXCEPT ![o] = Order(u, "CREATED")]
    /\ UNCHANGED <<promises, involved>>

Promise(o, s, t) ==
    /\ life[o].status = "CREATED"
    /\ promises' = promises \cup {<<o, s, t>>}
    /\ involved' = involved \cup {<<o, s>>}
    /\ UNCHANGED life

Keep(o, s, t) ==
    /\ <<o, s, t>> \in promises
    /\ promises' = promises \ {<<o, s, t>>}
    /\ life' = [life EXCEPT ![o].status = "DELIVERING", ![o].shipperId = s]
    /\ UNCHANGED involved

Withdraw ==
    /\ promises' \subseteq promises
    /\ UNCHANGED <<life, involved>>

Finish(o) ==
    /\ life[o].status \in {"DELIVERING", "DONE"}
    /\ life' = [life EXCEPT ![o].status = "DONE"]
    /\ UNCHANGED <<promises, involved>>

Give(o, s) ==
    /\ life[o].status # "ABSENT"
    /\ life' = [life EXCEPT ![o].shipperId = s, ![o].deliveryCoord = s]
    /\ involved' = involved \cup {<<o, s>>}
    /\ UNCHANGED promises

Report(o, s) ==
    /\ <<o, s>> \in involved
    /\ life' = [life EXCEPT ![o].deliveryCoord = s]
    /\ UNCHANGED <<promises, involved>>

Next ==
    \/ \E o \in Orders : Place(o) \/ Finish(o)
    \/ \E o \in Orders, s \in Shippers : Give(o, s) \/ Report(o, s)
    \/ \E o \in Orders, s \in Shippers, t \in Tickets : Promise(o, s, t) \/ Keep(o, s, t)
    \/ Withdraw

Spec == Init /\ [][Next]_vars
=============================================================================
