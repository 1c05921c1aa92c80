------------------------------- MODULE Carts -------------------------------
(***************************************************************************)
(* CartService: the HTTP and socket handlers that create, accept, complete *)
(* and move an order.  Node runs a handler from one await to the next      *)
(* without interruption and lets the others in between, so a handler is a  *)
(* sequence of steps, one for each query it awaits, and the record req[r]  *)
(* holds what it carries over the await in slot r of the requests being    *)
(* served.                                                                 *)
(***************************************************************************)
EXTENDS Collections

CONSTANTS
    Requests,       \* slots for the requests served at the same time
    MaxUnfinished,  \* the 3 of createCart's limit
    MaxCrashes      \* bound on the crashes of the process

ASSUME CartsAssumption ==
    /\ IsFiniteSet(Requests)
    /\ Requests # {}
    /\ MaxUnfinished \in Nat \ {0}
    /\ MaxCrashes \in Nat

VARIABLES
    req,            \* the handler in each slot and what it remembers
    announced,      \* <<order, shipper>> of the ORDER_DELIVERING events emitted
    assigned,       \* <<order, shipper, status>>: what the dispatcher assigned,
                    \* and the status it overwrote the shipper of
    crashes         \* crashes of the process so far

history == <<announced, assigned, crashes>>
cartVars == <<req, history>>
vars == <<collections, cartVars>>

Pc == {"idle", "create", "publish", "acceptLoad", "acceptSave",
       "completeMark", "completeSave", "moveSave"}

Request == [pc : Pc,
            who : Customers \cup Shippers \cup {Null},
            order : Orders \cup {Null}]

Idle == [pc |-> "idle", who |-> Null, order |-> Null]

Serving(pc, who, o) == [pc |-> pc, who |-> who, order |-> o]

At(r, pc) == req[r].pc = pc

\* The handler goes on to its next await, or returns.
Goto(r, pc) == req' = [req EXCEPT ![r].pc = pc]
Return(r) == req' = [req EXCEPT ![r] = Idle]
Begin(r, pc, who, o) == req' = [req EXCEPT ![r] = Serving(pc, who, o)]

Init ==
    /\ InitCollections
    /\ req = [r \in Requests |-> Idle]
    /\ announced = {}
    /\ assigned = {}
    /\ crashes = 0

----------------------------------------------------------------------------
(* createCart: count the customer's carts, look the menus and the store    *)
(* up, insert the cart, publish NEW_ORDER_NOTIFY.                          *)

\* Mutant: the limit is checked with > for >=.
LimitOffByOne(u) == Cardinality(CartsOf(u)) > MaxUnfinished

LimitReached(u) == Cardinality(CartsOf(u)) >= MaxUnfinished

CreateCheck(r, u) ==
    /\ At(r, "idle")
    /\ ~LimitReached(u)
    /\ Begin(r, "create", u, Null)
    /\ UNCHANGED <<collections, history>>

\* No menu, or no store sells the first one: NotFoundException.
CreateNotFound(r) ==
    /\ At(r, "create")
    /\ Return(r)
    /\ UNCHANGED <<collections, history>>

CreateInsert(r, o) ==
    /\ At(r, "create")
    /\ ~Exists(o)
    /\ carts' = [carts EXCEPT ![o] = NewCart(req[r].who)]
    /\ Begin(r, "publish", req[r].who, o)
    /\ UNCHANGED <<userStatus, queue, history>>

CreatePublish(r) ==
    /\ At(r, "publish")
    /\ queue' = queue \cup {req[r].order}
    /\ Return(r)
    /\ UNCHANGED <<carts, userStatus, history>>

----------------------------------------------------------------------------
(* acceptOrder: refuse a shipper that is delivering, load the order and    *)
(* refuse it unless it is CREATED, announce ORDER_DELIVERING, save.        *)

\* Mutant: the check that the shipper delivers nothing is dropped.
AnyShipperMayAccept(s) == TRUE

MayAccept(s) == DeliveringOrders(s) = {}

AcceptCheck(r, s, o) ==
    /\ At(r, "idle")
    /\ MayAccept(s)
    /\ Begin(r, "acceptLoad", s, o)
    /\ UNCHANGED <<collections, history>>

\* Mutant: only an order that is done is refused.
IsAcceptableUnlessDone(o) == carts[o].status \in {"CREATED", "DELIVERING"}

IsAcceptable(o) == carts[o].status = "CREATED"

AcceptLoad(r) ==
    /\ At(r, "acceptLoad")
    /\ IsAcceptable(req[r].order)
    /\ announced' = announced \cup {<<req[r].order, req[r].who>>}
    /\ Goto(r, "acceptSave")
    /\ UNCHANGED <<collections, assigned, crashes>>

AcceptRefused(r) ==
    /\ At(r, "acceptLoad")
    /\ ~IsAcceptable(req[r].order)
    /\ Return(r)
    /\ UNCHANGED <<collections, history>>

\* The update has no condition on the status or the shipper loaded before.
AcceptSave(r) ==
    /\ At(r, "acceptSave")
    /\ carts' = [carts EXCEPT ![req[r].order].shipperId = req[r].who,
                              ![req[r].order].status = "DELIVERING"]
    /\ Return(r)
    /\ UNCHANGED <<userStatus, queue, history>>

----------------------------------------------------------------------------
(* completeOrder: load the order, write the shipper's document back with   *)
(* status DELIVERING, set the order DONE.  No route calls it yet.          *)

\* Mutant: an order that nobody accepted can be completed.
IsCompletableInAnyState(o, s) == carts[o].shipperId = s

IsCompletable(o, s) ==
    carts[o].shipperId = s /\ carts[o].status = "DELIVERING"

CompleteLoad(r, s, o) ==
    /\ At(r, "idle")
    /\ IsCompletable(o, s)
    /\ Begin(r, "completeMark", s, o)
    /\ UNCHANGED <<collections, history>>

\* Only the status of the document is kept: the find and the write are one.
CompleteMark(r) ==
    /\ At(r, "completeMark")
    /\ userStatus' = [userStatus EXCEPT ![req[r].who] = "DELIVERING"]
    /\ Goto(r, "completeSave")
    /\ UNCHANGED <<carts, queue, history>>

CompleteSave(r) ==
    /\ At(r, "completeSave")
    /\ carts' = [carts EXCEPT ![req[r].order].status = "DONE"]
    /\ Return(r)
    /\ UNCHANGED <<userStatus, queue, history>>

----------------------------------------------------------------------------
(* handleUpdateLocationShipper: load the order, refuse whoever is not its  *)
(* shipper, save the coordinate.                                           *)

\* Mutant: whoever names the order may move it.
AnyMayMove(o, s) == Exists(o)

MayMove(o, s) == carts[o].shipperId = s

MoveLoad(r, s, o) ==
    /\ At(r, "idle")
    /\ MayMove(o, s)
    /\ Begin(r, "moveSave", s, o)
    /\ UNCHANGED <<collections, history>>

MoveSave(r) ==
    /\ At(r, "moveSave")
    /\ carts' = [carts EXCEPT ![req[r].order].deliveryCoord = req[r].who]
    /\ Return(r)
    /\ UNCHANGED <<userStatus, queue, history>>

----------------------------------------------------------------------------
(* Failures.  A query that fails rejects the handler's await: the request  *)
(* ends with an error and what it has written stays.  A crash of the       *)
(* process ends every request.                                             *)

RequestFails(r) ==
    /\ ~At(r, "idle")
    /\ Return(r)
    /\ UNCHANGED <<collections, history>>

\* The broker puts the messages it had delivered and not seen acknowledged
\* back into the queue.
Crash ==
    /\ crashes < MaxCrashes
    /\ crashes' = crashes + 1
    /\ req' = [r \in Requests |-> Idle]
    /\ \E redelivered \in SUBSET {o \in Orders : Exists(o)} :
          queue' = queue \cup redelivered
    /\ UNCHANGED <<carts, userStatus, announced, assigned>>

----------------------------------------------------------------------------
(* The environment: what DeliveryService does to the collections, at any   *)
(* time as far as CartService can tell.  Module Dispatch has it in detail. *)

\* The update looks at neither the status nor the shipper of the order.
Assign(o, s) ==
    /\ carts' = [carts EXCEPT ![o].shipperId = s, ![o].deliveryCoord = s]
    /\ assigned' = assigned \cup {<<o, s, carts[o].status>>}

DispatcherAssigns(o, s) ==
    /\ Exists(o)
    /\ Assign(o, s)
    /\ UNCHANGED <<userStatus, queue, req, announced, crashes>>

DispatcherMarks(s) ==
    /\ \E st \in {"DELIVERING", "ENOUGH"} : userStatus' = [userStatus EXCEPT ![s] = st]
    /\ UNCHANGED <<carts, queue, cartVars>>

DispatcherTakes(o) ==
    /\ queue' = queue \ {o}
    /\ UNCHANGED <<carts, userStatus, cartVars>>

DispatcherStep ==
    \/ \E o \in Orders, s \in Shippers : DispatcherAssigns(o, s)
    \/ \E s \in Shippers : DispatcherMarks(s)
    \/ \E o \in Orders : DispatcherTakes(o)

----------------------------------------------------------------------------

CreateStep(r) ==
    \/ \E u \in Customers : CreateCheck(r, u)
    \/ CreateNotFound(r)
    \/ \E o \in Orders : CreateInsert(r, o)
    \/ CreatePublish(r)

AcceptStep(r) ==
    \/ \E s \in Shippers, o \in Orders : AcceptCheck(r, s, o)
    \/ AcceptLoad(r)
    \/ AcceptRefused(r)
    \/ AcceptSave(r)

CompleteStep(r) ==
    \/ \E s \in Shippers, o \in Orders : CompleteLoad(r, s, o)
    \/ CompleteMark(r)
    \/ CompleteSave(r)

MoveStep(r) ==
    \/ \E s \in Shippers, o \in Orders : MoveLoad(r, s, o)
    \/ MoveSave(r)

HandlerStep(r) ==
    CreateStep(r) \/ AcceptStep(r) \/ CompleteStep(r) \/ MoveStep(r)

Next ==
    \/ \E r \in Requests : HandlerStep(r) \/ RequestFails(r)
    \/ DispatcherStep
    \/ Crash

Spec == Init /\ [][Next]_vars

----------------------------------------------------------------------------
(* Type invariant *)

TypeOK ==
    /\ CollectionsTypeOK
    /\ req \in [Requests -> Request]
    /\ announced \subseteq Orders \X Shippers
    /\ assigned \subseteq Orders \X Shippers \X CartState
    /\ crashes \in 0 .. MaxCrashes

(* Properties *)

Creating(u) == {r \in Requests : At(r, "create") /\ req[r].who = u}

\* The count and the insert of createCart are two queries, so concurrent
\* requests of one customer can pass the limit together; but however they
\* interleave, fail or crash, each slot can add at most one cart beyond it,
\* and the requests past the check are paid for in advance.  With one slot
\* this is the limit itself.
LimitOvershootBounded ==
    \A u \in Customers :
        Cardinality(CartsOf(u)) + Cardinality(Creating(u))
            < MaxUnfinished + Cardinality(Requests)

Accepting(s) ==
    {r \in Requests : req[r].pc \in {"acceptLoad", "acceptSave"} /\ req[r].who = s}

\* The dispatcher gave the order to s when it was not CREATED any more.
Imposed(o, s) ==
    \E st \in {"DELIVERING", "DONE"} : <<o, s, st>> \in assigned

\* The check of acceptOrder for an order being delivered is a query of its
\* own: a shipper can get a second order through it, but never more orders
\* at once than there are accepts served at once, apart from those the
\* dispatcher imposed.
DeliveriesBounded ==
    \A s \in Shippers :
        Cardinality({o \in DeliveringOrders(s) : ~Imposed(o, s)})
            + Cardinality(Accepting(s)) <= Cardinality(Requests)

\* Nobody sees an order being delivered or done whose shipper never said he
\* takes it (ORDER_DELIVERING is emitted before the save), unless the
\* dispatcher overwrote the shipper: whatever accepts and completions
\* overtake each other.
HeldOrdersAnnounced ==
    \A o \in Orders :
        carts[o].status \in {"DELIVERING", "DONE"} =>
            \/ <<o, carts[o].shipperId>> \in announced
            \/ Imposed(o, carts[o].shipperId)

\* s has been given the order, by accepting it or by the dispatcher.
Involved(o, s) ==
    \/ <<o, s>> \in announced
    \/ \E st \in CartState : <<o, s, st>> \in assigned

\* The coordinate a customer follows is the store's or that of a shipper who
\* was given this order: a report in flight while the order changes hands is
\* at worst that of an earlier shipper, never of a stranger.
CoordOfAnInvolvedShipper ==
    \A o \in Orders :
        carts[o].deliveryCoord # AtStore => Involved(o, carts[o].deliveryCoord)

\* The handlers and the dispatcher implement the abstract life of an order:
\* a promise is a request of acceptOrder between its announcement and its
\* save.
Life == INSTANCE OrderLife WITH
    Tickets <- Requests,
    life <- carts,
    promises <- {<<req[r].order, req[r].who, r>> :
                    r \in {q \in Requests : At(q, "acceptSave")}},
    involved <- announced \cup {<<a[1], a[2]>> : a \in assigned}

OrderLifeSpec == Life!Spec

----------------------------------------------------------------------------
(* What messages and API documentation say, and the code does not keep *)

\* "At most 3 unfinished orders at the same time" (cart.service.ts:58): what
\* a refused customer reads is true.
RefusedOnlyForUnfinished ==
    \A u \in Customers :
        LimitReached(u) => Cardinality(Unfinished(CartsOf(u))) >= MaxUnfinished

\* "Only a CREATED order can be accepted" (cart.service.ts:158): the save of
\* an accept finds the order CREATED.
OnlyCreatedOrdersAccepted ==
    [][\A r \in Requests :
          AcceptSave(r) => carts[req[r].order].status = "CREATED"]_vars
=============================================================================
