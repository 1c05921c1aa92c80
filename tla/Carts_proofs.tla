---------------------------- MODULE Carts_proofs ----------------------------
(***************************************************************************)
(* Proofs about Carts: its type invariant and its safety invariants hold   *)
(* for every set of orders, customers, shippers and requests and every     *)
(* bound.                                                                  *)
(***************************************************************************)
EXTENDS Carts, TLAPS, FiniteSetTheorems

----------------------------------------------------------------------------
(* Typing *)

\* TypeOK is not inductive by itself: the saves write what the request
\* remembers, which has to be of the kind its place in the code says.
RequestOK ==
    \A r \in Requests :
        /\ req[r].pc = "create" => req[r].who \in Customers
        /\ req[r].pc = "publish" => req[r].order \in Orders
        /\ req[r].pc \in {"acceptLoad", "acceptSave", "completeMark",
                          "completeSave", "moveSave"} =>
              req[r].who \in Shippers /\ req[r].order \in Orders

Typed == TypeOK /\ RequestOK

LEMMA InitTyped == Init => Typed
BY CartsAssumption DEF Init, InitCollections, Typed, TypeOK, CollectionsTypeOK, RequestOK,
       NoCart, Cart, CartState, Coordinate, ShipperStatus, Idle, Request, Pc

\* The steps of createCart keep the types.
LEMMA CreateTyped ==
    ASSUME Typed, NEW r \in Requests, CreateStep(r) PROVE Typed'
<1> USE DEF Typed, TypeOK, CollectionsTypeOK, RequestOK, Request, Pc, history,
            collections
<1>1. CASE \E u \in Customers : CreateCheck(r, u)
  BY <1>1 DEF CreateCheck, Begin, Serving, At
<1>2. CASE CreateNotFound(r)
  BY <1>2 DEF CreateNotFound, Return, Idle, At
<1>3. CASE \E o \in Orders : CreateInsert(r, o)
  BY <1>3 DEF CreateInsert, Begin, Serving, At, NewCart, Cart, CartState, Coordinate
<1>4. CASE CreatePublish(r)
  BY <1>4 DEF CreatePublish, Return, Idle, At
<1> QED BY <1>1, <1>2, <1>3, <1>4 DEF CreateStep

\* The steps of acceptOrder keep the types.
LEMMA AcceptTyped ==
    ASSUME Typed, NEW r \in Requests, AcceptStep(r) PROVE Typed'
<1> USE DEF Typed, TypeOK, CollectionsTypeOK, RequestOK, Request, Pc, history,
            collections
<1>1. CASE \E s \in Shippers, o \in Orders : AcceptCheck(r, s, o)
  BY <1>1 DEF AcceptCheck, Begin, Serving, At
<1>2. CASE AcceptLoad(r)
  BY <1>2 DEF AcceptLoad, Goto, At
<1>3. CASE AcceptRefused(r)
  BY <1>3 DEF AcceptRefused, Return, Idle, At
<1>4. CASE AcceptSave(r)
  <2>1. req[r].order \in Orders /\ req[r].who \in Shippers
    BY <1>4 DEF AcceptSave, At
  <2>2. carts' \in [Orders -> Cart]
    BY <1>4, <2>1 DEF AcceptSave, Cart, CartState
  <2> QED BY <1>4, <2>2 DEF AcceptSave, Return, Idle
<1> QED BY <1>1, <1>2, <1>3, <1>4 DEF AcceptStep

\* The steps of completeOrder keep the types.
LEMMA CompleteTyped ==
    ASSUME Typed, NEW r \in Requests, CompleteStep(r) PROVE Typed'
<1> USE DEF Typed, TypeOK, CollectionsTypeOK, RequestOK, Request, Pc, history,
            collections
<1>1. CASE \E s \in Shippers, o \in Orders : CompleteLoad(r, s, o)
  BY <1>1 DEF CompleteLoad, Begin, Serving, At
<1>2. CASE CompleteMark(r)
  BY <1>2 DEF CompleteMark, Goto, At, ShipperStatus
<1>3. CASE CompleteSave(r)
  <2>1. req[r].order \in Orders
    BY <1>3 DEF CompleteSave, At
  <2>2. carts' \in [Orders -> Cart]
    BY <1>3, <2>1 DEF CompleteSave, Cart, CartState
  <2> QED BY <1>3, <2>2 DEF CompleteSave, Return, Idle
<1> QED BY <1>1, <1>2, <1>3 DEF CompleteStep

\* The steps of handleUpdateLocationShipper keep the types.
LEMMA MoveTyped ==
    ASSUME Typed, NEW r \in Requests, MoveStep(r) PROVE Typed'
<1> USE DEF Typed, TypeOK, CollectionsTypeOK, RequestOK, Request, Pc, history,
            collections
<1>1. CASE \E s \in Shippers, o \in Orders : MoveLoad(r, s, o)
  BY <1>1 DEF MoveLoad, Begin, Serving, At
<1>2. CASE MoveSave(r)
  <2>1. req[r].order \in Orders /\ req[r].who \in Coordinate
    BY <1>2 DEF MoveSave, At, Coordinate
  <2>2. carts' \in [Orders -> Cart]
    BY <1>2, <2>1 DEF MoveSave, Cart
  <2> QED BY <1>2, <2>2 DEF MoveSave, Return, Idle
<1> QED BY <1>1, <1>2 DEF MoveStep

LEMMA AddToSubset ==
    ASSUME NEW S, NEW T, T \subseteq S, NEW x \in S PROVE T \cup {x} \subseteq S
OBVIOUS

\* The steps of the dispatcher keep the types.
LEMMA DispatcherTyped ==
    ASSUME Typed, DispatcherStep PROVE Typed'
<1> USE DEF Typed, TypeOK, CollectionsTypeOK, RequestOK, Request, cartVars, history
<1>1. CASE \E o \in Orders, s \in Shippers : DispatcherAssigns(o, s)
  <2>1. PICK o \in Orders, s \in Shippers : DispatcherAssigns(o, s) BY <1>1
  <2>2. carts[o].status \in CartState
    BY <2>1 DEF DispatcherAssigns, Exists, Cart
  <2>3. carts' \in [Orders -> Cart]
    <3>1. carts' = [carts EXCEPT ![o].shipperId = s, ![o].deliveryCoord = s]
      BY <2>1 DEF DispatcherAssigns, Assign
    <3>2. s \in Coordinate
      BY DEF Coordinate
    <3>3. [carts[o] EXCEPT !.shipperId = s, !.deliveryCoord = s] \in Cart
      <4>1. carts[o] \in Cart
        OBVIOUS
      <4> HIDE DEF Typed, TypeOK, CollectionsTypeOK, RequestOK, Request, cartVars, history
      <4> QED BY <3>2, <4>1 DEF Cart
    <3>4. carts' = [carts EXCEPT ![o] = [carts[o] EXCEPT !.shipperId = s, !.deliveryCoord = s]]
      BY <3>1
    <3> QED BY <3>3, <3>4
  <2>4. <<o, s, carts[o].status>> \in Orders \X Shippers \X CartState
    BY <2>2
  <2>5. assigned' = assigned \cup {<<o, s, carts[o].status>>}
    BY <2>1 DEF DispatcherAssigns, Assign
  <2>6. assigned \subseteq Orders \X Shippers \X CartState
    OBVIOUS
  <2>7. assigned' \subseteq Orders \X Shippers \X CartState
    BY ONLY <2>4, <2>5, <2>6, AddToSubset
  <2> QED BY <2>1, <2>3, <2>7 DEF DispatcherAssigns
<1>2. CASE \E s \in Shippers : DispatcherMarks(s)
  BY <1>2 DEF DispatcherMarks, ShipperStatus
<1>3. CASE \E o \in Orders : DispatcherTakes(o)
  BY <1>3 DEF DispatcherTakes
<1> QED BY <1>1, <1>2, <1>3 DEF DispatcherStep

LEMMA NextTyped == Typed /\ [Next]_vars => Typed'
<1> SUFFICES ASSUME Typed, [Next]_vars PROVE Typed' OBVIOUS
<1>1. CASE \E r \in Requests : HandlerStep(r)
  BY <1>1, CreateTyped, AcceptTyped, CompleteTyped, MoveTyped DEF HandlerStep
<1>2. CASE \E r \in Requests : RequestFails(r)
  BY <1>2 DEF RequestFails, Return, Idle, collections, history, Typed, TypeOK,
              CollectionsTypeOK, RequestOK, Request, Pc
<1>3. CASE DispatcherStep
  BY <1>3, DispatcherTyped
<1>4. CASE Crash
  BY <1>4, CartsAssumption DEF Crash, Idle, Typed, TypeOK, CollectionsTypeOK, RequestOK, Request, Pc
<1>5. CASE UNCHANGED vars
  BY <1>5 DEF vars, collections, cartVars, history, Typed, TypeOK,
              CollectionsTypeOK, RequestOK, Request, Pc
<1> QED BY <1>1, <1>2, <1>3, <1>4, <1>5 DEF Next

\* Every variable keeps its type.
THEOREM TypeCorrect == Spec => []TypeOK
<1>1. Spec => []Typed
  BY InitTyped, NextTyped, PTL DEF Spec
<1> QED BY <1>1, PTL DEF Typed

----------------------------------------------------------------------------
(* Who an order's shipper and coordinate come from *)

\* An order's shipper, if it has one, was given it; if it is being delivered
\* or done he announced it or it was imposed on him.
OrderKnown(o) ==
    /\ carts[o].shipperId # Null => Involved(o, carts[o].shipperId)
    /\ carts[o].deliveryCoord # AtStore => Involved(o, carts[o].deliveryCoord)
    /\ carts[o].status \in {"DELIVERING", "DONE"} =>
          \/ <<o, carts[o].shipperId>> \in announced
          \/ Imposed(o, carts[o].shipperId)

\* What a request found when it checked may not be true any more when it
\* writes; this is the part of it that no other request can undo.
RequestKnown(r) ==
    /\ req[r].pc = "acceptSave" => <<req[r].order, req[r].who>> \in announced
    /\ req[r].pc \in {"completeMark", "completeSave"} =>
          carts[req[r].order].status \in {"DELIVERING", "DONE"}
    /\ req[r].pc = "moveSave" => Involved(req[r].order, req[r].who)

Known ==
    /\ \A o \in Orders : OrderKnown(o)
    /\ \A r \in Requests : RequestKnown(r)

\* What all steps have in common: the histories grow, and an order once
\* accepted stays DELIVERING or DONE.
Onward ==
    /\ announced \subseteq announced'
    /\ assigned \subseteq assigned'
    /\ \A o \in Orders : carts[o].status \in {"DELIVERING", "DONE"} =>
          carts'[o].status \in {"DELIVERING", "DONE"}

LEMMA InvolvedStays ==
    ASSUME Onward, NEW o, NEW s
    PROVE  /\ Involved(o, s) => Involved(o, s)'
           /\ Imposed(o, s) => Imposed(o, s)'
BY DEF Onward, Involved, Imposed

LEMMA OrderKept ==
    ASSUME Onward, NEW o, OrderKnown(o), carts'[o] = carts[o]
    PROVE  OrderKnown(o)'
BY InvolvedStays DEF OrderKnown, Onward

LEMMA RequestKept ==
    ASSUME Typed, Onward, NEW r \in Requests, RequestKnown(r), req'[r] = req[r]
    PROVE  RequestKnown(r)'
BY InvolvedStays DEF RequestKnown, Onward, Typed, RequestOK

LEMMA RequestEnded ==
    ASSUME NEW r \in Requests, req'[r] = Idle PROVE RequestKnown(r)'
BY DEF RequestKnown, Idle

\* A step of request r that leaves the orders alone.
LEMMA QuietStep ==
    ASSUME Typed, Known, NEW r \in Requests, Onward, UNCHANGED carts,
           \A q \in Requests \ {r} : req'[q] = req[q],
           RequestKnown(r)'
    PROVE  Known'
BY OrderKept, RequestKept DEF Known

\* A step of request r that writes the order o.
LEMMA WriteStep ==
    ASSUME Typed, Known, NEW r \in Requests, NEW o \in Orders, Onward,
           \A p \in Orders \ {o} : carts'[p] = carts[p],
           \A q \in Requests \ {r} : req'[q] = req[q],
           OrderKnown(o)', RequestKnown(r)'
    PROVE  Known'
BY OrderKept, RequestKept DEF Known

----------------------------------------------------------------------------

LEMMA InitKnown == Init => Known
BY DEF Init, InitCollections, Known, OrderKnown, RequestKnown, NoCart, Idle

LEMMA CreateKnown ==
    ASSUME Typed, Known, NEW r \in Requests, CreateStep(r) PROVE Known'
<1> USE DEF history, collections
<1>t. req \in [Requests -> Request] /\ carts \in [Orders -> Cart]
  BY DEF Typed, TypeOK, CollectionsTypeOK
<1>1. CASE \E u \in Customers : CreateCheck(r, u)
  <2>1. RequestKnown(r)'
    BY <1>1, <1>t DEF CreateCheck, Begin, Serving, RequestKnown
  <2> QED BY <1>1, <1>t, <2>1, QuietStep DEF CreateCheck, Begin, Onward
<1>2. CASE CreateNotFound(r) \/ CreatePublish(r)
  <2>1. RequestKnown(r)'
    BY <1>2, <1>t, RequestEnded DEF CreateNotFound, CreatePublish, Return
  <2> QED BY <1>2, <1>t, <2>1, QuietStep
          DEF CreateNotFound, CreatePublish, Return, Onward
<1>3. CASE \E o \in Orders : CreateInsert(r, o)
  <2>1. PICK o \in Orders : CreateInsert(r, o) BY <1>3
  <2>2. carts'[o] = NewCart(req[r].who) /\ carts[o].status = "ABSENT"
    BY <2>1, <1>t DEF CreateInsert, Exists
  <2>3. OrderKnown(o)'
    BY <2>2 DEF NewCart, OrderKnown
  <2>4. RequestKnown(r)'
    BY <2>1, <1>t DEF CreateInsert, Begin, Serving, RequestKnown
  <2>5. Onward
    BY <2>1, <2>2, <1>t DEF CreateInsert, Onward
  <2> QED BY <2>1, <1>t, <2>3, <2>4, <2>5, WriteStep DEF CreateInsert, Begin
<1> QED BY <1>1, <1>2, <1>3 DEF CreateStep

LEMMA AcceptKnown ==
    ASSUME Typed, Known, NEW r \in Requests, AcceptStep(r) PROVE Known'
<1> USE DEF history, collections
<1>t. req \in [Requests -> Request] /\ carts \in [Orders -> Cart]
  BY DEF Typed, TypeOK, CollectionsTypeOK
<1>1. CASE \E s \in Shippers, o \in Orders : AcceptCheck(r, s, o)
  <2>1. RequestKnown(r)'
    BY <1>1, <1>t DEF AcceptCheck, Begin, Serving, RequestKnown
  <2> QED BY <1>1, <1>t, <2>1, QuietStep DEF AcceptCheck, Begin, Onward
<1>2. CASE AcceptLoad(r)
  <2>1. req'[r].pc = "acceptSave" /\ <<req[r].order, req[r].who>> \in announced'
    BY <1>2, <1>t DEF AcceptLoad, Goto, Request
  <2>2. req'[r].order = req[r].order /\ req'[r].who = req[r].who
    BY <1>2, <1>t DEF AcceptLoad, Goto, Request
  <2>3. RequestKnown(r)'
    BY <2>1, <2>2 DEF RequestKnown
  <2> QED BY <1>2, <1>t, <2>3, QuietStep DEF AcceptLoad, Goto, Onward
<1>3. CASE AcceptRefused(r)
  <2>1. RequestKnown(r)'
    BY <1>3, <1>t, RequestEnded DEF AcceptRefused, Return
  <2> QED BY <1>3, <1>t, <2>1, QuietStep DEF AcceptRefused, Return, Onward
<1>4. CASE AcceptSave(r)
  <2>0. PICK o \in Orders, s \in Shippers : o = req[r].order /\ s = req[r].who
    BY <1>4 DEF AcceptSave, At, Typed, RequestOK
  <2>1. <<o, s>> \in announced
    BY <1>4, <2>0 DEF AcceptSave, At, Known, RequestKnown
  <2>2. /\ carts'[o].shipperId = s
        /\ carts'[o].deliveryCoord = carts[o].deliveryCoord
        /\ carts'[o].status = "DELIVERING"
    BY <1>4, <1>t, <2>0 DEF AcceptSave, Cart
  <2>3. \A p \in Orders \ {o} : carts'[p] = carts[p]
    BY <1>4, <1>t, <2>0 DEF AcceptSave
  <2>4. Onward
    BY <1>4, <2>2, <2>3 DEF AcceptSave, Onward
  <2>5. OrderKnown(o)
    BY DEF Known
  <2>6. <<o, s>> \in announced' /\ Involved(o, s)'
    BY <2>1, <2>4 DEF Onward, Involved
  <2>7. OrderKnown(o)'
    BY <2>2, <2>4, <2>5, <2>6, InvolvedStays DEF OrderKnown
  <2>8. RequestKnown(r)'
    BY <1>4, <1>t, RequestEnded DEF AcceptSave, Return
  <2>9. \A q \in Requests \ {r} : req'[q] = req[q]
    BY <1>4, <1>t DEF AcceptSave, Return
  <2> QED BY <2>3, <2>4, <2>7, <2>8, <2>9, WriteStep
<1> QED BY <1>1, <1>2, <1>3, <1>4 DEF AcceptStep

LEMMA CompleteKnown ==
    ASSUME Typed, Known, NEW r \in Requests, CompleteStep(r) PROVE Known'
<1> USE DEF history, collections
<1>t. req \in [Requests -> Request] /\ carts \in [Orders -> Cart]
  BY DEF Typed, TypeOK, CollectionsTypeOK
<1>1. CASE \E s \in Shippers, o \in Orders : CompleteLoad(r, s, o)
  <2>1. RequestKnown(r)'
    BY <1>1, <1>t DEF CompleteLoad, Begin, Serving, RequestKnown, IsCompletable
  <2> QED BY <1>1, <1>t, <2>1, QuietStep DEF CompleteLoad, Begin, Onward
<1>2. CASE CompleteMark(r)
  <2>1. /\ req'[r].pc = "completeSave"
        /\ req'[r].order = req[r].order
        /\ carts[req[r].order].status \in {"DELIVERING", "DONE"}
    BY <1>2, <1>t DEF CompleteMark, Goto, At, Request, Known, RequestKnown
  <2>2. RequestKnown(r)'
    BY <1>2, <2>1 DEF CompleteMark, RequestKnown
  <2> QED BY <1>2, <1>t, <2>2, QuietStep DEF CompleteMark, Goto, Onward
<1>3. CASE CompleteSave(r)
  <2>0. PICK o \in Orders : o = req[r].order
    BY <1>3 DEF CompleteSave, At, Typed, RequestOK
  <2>1. carts[o].status \in {"DELIVERING", "DONE"}
    BY <1>3, <2>0 DEF CompleteSave, At, Known, RequestKnown
  <2>2. /\ carts'[o].shipperId = carts[o].shipperId
        /\ carts'[o].deliveryCoord = carts[o].deliveryCoord
        /\ carts'[o].status = "DONE"
    BY <1>3, <1>t, <2>0 DEF CompleteSave, Cart
  <2>3. \A p \in Orders \ {o} : carts'[p] = carts[p]
    BY <1>3, <1>t, <2>0 DEF CompleteSave
  <2>4. Onward
    BY <1>3, <2>2, <2>3 DEF CompleteSave, Onward
  <2>5. OrderKnown(o)
    BY DEF Known
  <2>6. OrderKnown(o)'
    BY <2>1, <2>2, <2>4, <2>5, InvolvedStays DEF OrderKnown, Onward
  <2>7. RequestKnown(r)'
    BY <1>3, <1>t, RequestEnded DEF CompleteSave, Return
  <2>8. \A q \in Requests \ {r} : req'[q] = req[q]
    BY <1>3, <1>t DEF CompleteSave, Return
  <2> QED BY <2>3, <2>4, <2>6, <2>7, <2>8, WriteStep
<1> QED BY <1>1, <1>2, <1>3 DEF CompleteStep

LEMMA MoveKnown ==
    ASSUME Typed, Known, NEW r \in Requests, MoveStep(r) PROVE Known'
<1> USE DEF history, collections
<1>t. req \in [Requests -> Request] /\ carts \in [Orders -> Cart]
  BY DEF Typed, TypeOK, CollectionsTypeOK
<1>1. CASE \E s \in Shippers, o \in Orders : MoveLoad(r, s, o)
  <2>1. PICK s \in Shippers, o \in Orders : MoveLoad(r, s, o) BY <1>1
  <2>2. carts[o].shipperId # Null
    BY <2>1, CollectionsAssumption DEF MoveLoad, MayMove
  <2>3. Involved(o, s) /\ UNCHANGED <<announced, assigned>>
    BY <2>1, <2>2 DEF MoveLoad, MayMove, Known, OrderKnown
  <2>4. RequestKnown(r)'
    BY <2>1, <2>3, <1>t DEF MoveLoad, Begin, Serving, RequestKnown, Involved
  <2> QED BY <2>1, <1>t, <2>4, QuietStep DEF MoveLoad, Begin, Onward
<1>2. CASE MoveSave(r)
  <2>0. PICK o \in Orders : o = req[r].order
    BY <1>2 DEF MoveSave, At, Typed, RequestOK
  <2>1. Involved(o, req[r].who)
    BY <1>2, <2>0 DEF MoveSave, At, Known, RequestKnown
  <2>2. /\ carts'[o].shipperId = carts[o].shipperId
        /\ carts'[o].deliveryCoord = req[r].who
        /\ carts'[o].status = carts[o].status
    BY <1>2, <1>t, <2>0 DEF MoveSave, Cart
  <2>3. \A p \in Orders \ {o} : carts'[p] = carts[p]
    BY <1>2, <1>t, <2>0 DEF MoveSave
  <2>4. Onward
    BY <1>2, <2>2, <2>3 DEF MoveSave, Onward
  <2>5. OrderKnown(o)
    BY DEF Known
  <2>6. OrderKnown(o)'
    BY <2>1, <2>2, <2>4, <2>5, InvolvedStays DEF OrderKnown, Onward
  <2>7. RequestKnown(r)'
    BY <1>2, <1>t, RequestEnded DEF MoveSave, Return
  <2>8. \A q \in Requests \ {r} : req'[q] = req[q]
    BY <1>2, <1>t DEF MoveSave, Return
  <2> QED BY <2>3, <2>4, <2>6, <2>7, <2>8, WriteStep
<1> QED BY <1>1, <1>2 DEF MoveStep

LEMMA DispatcherKnown ==
    ASSUME Typed, Known, DispatcherStep PROVE Known'
<1> USE DEF cartVars, history
<1>t. carts \in [Orders -> Cart]
  BY DEF Typed, TypeOK, CollectionsTypeOK
<1>1. CASE \E o \in Orders, s \in Shippers : DispatcherAssigns(o, s)
  <2>1. PICK o \in Orders, s \in Shippers : DispatcherAssigns(o, s) BY <1>1
  <2>2. /\ carts'[o].shipperId = s
        /\ carts'[o].deliveryCoord = s
        /\ carts'[o].status = carts[o].status
    BY <2>1, <1>t DEF DispatcherAssigns, Assign, Cart
  <2>3. \A p \in Orders \ {o} : carts'[p] = carts[p]
    BY <2>1, <1>t DEF DispatcherAssigns, Assign
  <2>4. Onward
    BY <2>1, <2>2, <2>3 DEF DispatcherAssigns, Assign, Onward
  <2>5. carts[o].status \in CartState /\ <<o, s, carts[o].status>> \in assigned'
    BY <2>1, <1>t DEF DispatcherAssigns, Assign, Exists, Cart
  <2>6. OrderKnown(o)'
    BY <2>2, <2>5 DEF OrderKnown, Involved, Imposed, CartState
  <2>7. \A p \in Orders : OrderKnown(p)'
    BY <2>3, <2>4, <2>6, OrderKept DEF Known
  <2>8. \A r \in Requests : RequestKnown(r)'
    BY <2>1, <2>4, RequestKept DEF DispatcherAssigns, Known
  <2> QED BY <2>7, <2>8 DEF Known
<1>2. CASE \/ \E s \in Shippers : DispatcherMarks(s)
           \/ \E o \in Orders : DispatcherTakes(o)
  <2>1. Onward /\ UNCHANGED <<carts, req>>
    BY <1>2 DEF DispatcherMarks, DispatcherTakes, Onward
  <2> QED BY <2>1, OrderKept, RequestKept DEF Known
<1> QED BY <1>1, <1>2 DEF DispatcherStep

LEMMA NextKnown == Typed /\ Known /\ [Next]_vars => Known'
<1> SUFFICES ASSUME Typed, Known, [Next]_vars PROVE Known' OBVIOUS
<1>1. CASE \E r \in Requests : HandlerStep(r)
  BY <1>1, CreateKnown, AcceptKnown, CompleteKnown, MoveKnown DEF HandlerStep
<1>2. CASE \E r \in Requests : RequestFails(r)
  <2>1. PICK r \in Requests : RequestFails(r) BY <1>2
  <2>2. /\ RequestKnown(r)'
        /\ \A q \in Requests \ {r} : req'[q] = req[q]
    BY <2>1, RequestEnded DEF RequestFails, Return, Typed, TypeOK
  <2>3. Onward /\ UNCHANGED carts
    BY <2>1 DEF RequestFails, Onward, collections, history
  <2> QED BY <2>2, <2>3, QuietStep
<1>3. CASE DispatcherStep
  BY <1>3, DispatcherKnown
<1>4. CASE Crash
  <2>1. Onward /\ UNCHANGED carts /\ \A r \in Requests : req'[r] = Idle
    BY <1>4 DEF Crash, Onward
  <2> QED BY <2>1, OrderKept, RequestEnded DEF Known
<1>5. CASE UNCHANGED vars
  <2>1. Onward /\ UNCHANGED <<carts, req>>
    BY <1>5 DEF vars, collections, cartVars, history, Onward
  <2> QED BY <2>1, OrderKept, RequestKept DEF Known
<1> QED BY <1>1, <1>2, <1>3, <1>4, <1>5 DEF Next

\* No order is being delivered or done without its shipper having said that
\* he takes it, or the dispatcher having overwritten him: at acceptOrder's
\* update nothing else is certain.
THEOREM HeldOrdersAreAnnounced == Spec => []HeldOrdersAnnounced
<1>1. Spec => [](Typed /\ Known)
  BY InitTyped, NextTyped, InitKnown, NextKnown, PTL DEF Spec
<1>2. Known => HeldOrdersAnnounced
  BY DEF Known, OrderKnown, HeldOrdersAnnounced
<1> QED BY <1>1, <1>2, PTL

\* The coordinate shown for an order is never that of a shipper who had
\* nothing to do with it: the unconditional update of
\* handleUpdateLocationShipper is late at worst.
THEOREM CoordsAreOfInvolvedShippers == Spec => []CoordOfAnInvolvedShipper
<1>1. Spec => [](Typed /\ Known)
  BY InitTyped, NextTyped, InitKnown, NextKnown, PTL DEF Spec
<1>2. Known => CoordOfAnInvolvedShipper
  BY DEF Known, OrderKnown, CoordOfAnInvolvedShipper
<1> QED BY <1>1, <1>2, PTL

----------------------------------------------------------------------------
(* The life of an order *)

Promises == {<<req[r].order, req[r].who, r>> : r \in {q \in Requests : At(q, "acceptSave")}}
Pairs(A) == {<<a[1], a[2]>> : a \in A}
InvolvedPairs == announced \cup Pairs(assigned)

LEMMA InvolvedPair ==
    ASSUME Typed, NEW o, NEW s PROVE <<o, s>> \in InvolvedPairs <=> Involved(o, s)
<1>1. assigned \subseteq Orders \X Shippers \X CartState
  BY DEF Typed, TypeOK
<1>2. \A a \in assigned : a = <<a[1], a[2], a[3]>> /\ a[3] \in CartState
  BY <1>1
<1> QED BY <1>2 DEF InvolvedPairs, Pairs, Involved

\* What the end of one request means for the promises.
LEMMA PromisesNext ==
    ASSUME Typed, NEW r \in Requests, \A q \in Requests \ {r} : req'[q] = req[q],
           req'[r].pc # "acceptSave"
    PROVE  /\ Promises' \subseteq Promises
           /\ Promises' = Promises \ {<<req[r].order, req[r].who, r>>}
           /\ ~At(r, "acceptSave") => Promises' = Promises
BY DEF Promises, At

LEMMA LifeInit == Init => Life!Init
BY DEF Init, InitCollections, Life!Init, Life!Order, NoCart, Idle, At

\* A step that changes no order and tells no shipper.
LEMMA LifeStutters ==
    ASSUME Promises' \subseteq Promises, UNCHANGED <<carts, announced, assigned>>
    PROVE  Life!Next
BY DEF Life!Next, Life!Withdraw, Promises

LEMMA CreateLives ==
    ASSUME Typed, Known, NEW r \in Requests, CreateStep(r) PROVE Life!Next
<1> USE DEF history, collections
<1>t. req \in [Requests -> Request] /\ carts \in [Orders -> Cart]
  BY DEF Typed, TypeOK, CollectionsTypeOK
<1>1. /\ \A q \in Requests \ {r} : req'[q] = req[q]
      /\ req'[r].pc # "acceptSave" /\ ~At(r, "acceptSave")
      /\ UNCHANGED <<announced, assigned>>
  BY <1>t DEF CreateStep, CreateCheck, CreateNotFound, CreateInsert, CreatePublish,
     Begin, Serving, Return, Idle, At
<1>2. Promises' = Promises
  BY <1>1, PromisesNext
<1>3. CASE UNCHANGED carts
  BY <1>1, <1>2, <1>3, LifeStutters
<1>4. CASE \E o \in Orders : CreateInsert(r, o)
  <2>1. PICK o \in Orders : CreateInsert(r, o) BY <1>4
  <2>2. PICK u \in Customers : u = req[r].who
    BY <2>1 DEF CreateInsert, At, Typed, RequestOK
  <2>3. Life!Place(o)
    BY <1>1, <1>2, <2>1, <2>2 DEF CreateInsert, Exists, NewCart, Life!Place, Life!Order, Promises
  <2> QED BY <2>3 DEF Life!Next
<1> QED BY <1>3, <1>4 DEF CreateStep, CreateCheck, CreateNotFound, CreatePublish

LEMMA AcceptLives ==
    ASSUME Typed, Known, NEW r \in Requests, AcceptStep(r) PROVE Life!Next
<1> USE DEF history, collections
<1>t. req \in [Requests -> Request]
  BY DEF Typed, TypeOK
<1>1. \A q \in Requests \ {r} : req'[q] = req[q]
  BY <1>t DEF AcceptStep, AcceptCheck, AcceptLoad, AcceptRefused, AcceptSave,
     Begin, Goto, Return
<1>2. CASE AcceptRefused(r) \/ \E s \in Shippers, o \in Orders : AcceptCheck(r, s, o)
  <2>1. req'[r].pc # "acceptSave"
    BY <1>2, <1>t DEF AcceptCheck, AcceptRefused, Begin, Serving, Return, Idle
  <2> QED BY <1>1, <1>2, <2>1, PromisesNext, LifeStutters DEF AcceptCheck, AcceptRefused
<1>3. CASE AcceptLoad(r)
  <2>0. PICK o \in Orders, s \in Shippers : o = req[r].order /\ s = req[r].who
    BY <1>3 DEF AcceptLoad, At, Typed, RequestOK
  <2>1. /\ ~At(r, "acceptSave")
        /\ req'[r].pc = "acceptSave" /\ req'[r].order = o /\ req'[r].who = s
    BY <1>3, <1>t, <2>0 DEF AcceptLoad, Goto, At, Request
  <2>2. Promises' = Promises \cup {<<o, s, r>>}
    BY <1>1, <2>1 DEF Promises, At
  <2>3. InvolvedPairs' = InvolvedPairs \cup {<<o, s>>}
    BY <1>3, <2>0 DEF AcceptLoad, InvolvedPairs, Pairs
  <2>4. Life!Promise(o, s, r)
    BY <1>3, <2>0, <2>2, <2>3
       DEF AcceptLoad, IsAcceptable, Life!Promise, Promises, InvolvedPairs, Pairs
  <2> QED BY <2>4 DEF Life!Next
<1>4. CASE AcceptSave(r)
  <2>0. PICK o \in Orders, s \in Shippers : o = req[r].order /\ s = req[r].who
    BY <1>4 DEF AcceptSave, At, Typed, RequestOK
  <2>1. <<o, s, r>> \in Promises
    BY <1>4, <2>0 DEF AcceptSave, Promises
  <2>2. Promises' = Promises \ {<<o, s, r>>}
    <3>1. req'[r].pc # "acceptSave"
      BY <1>4, <1>t DEF AcceptSave, Return, Idle
    <3> QED BY <1>1, <2>0, <3>1, PromisesNext
  <2>3. carts' = [carts EXCEPT ![o].status = "DELIVERING", ![o].shipperId = s]
    BY <1>4, <2>0 DEF AcceptSave, Typed, TypeOK, CollectionsTypeOK, Cart
  <2>4. Life!Keep(o, s, r)
    BY <1>4, <2>1, <2>2, <2>3 DEF AcceptSave, Life!Keep, Promises
  <2> QED BY <2>4 DEF Life!Next
<1> QED BY <1>2, <1>3, <1>4 DEF AcceptStep

LEMMA CompleteLives ==
    ASSUME Typed, Known, NEW r \in Requests, CompleteStep(r) PROVE Life!Next
<1> USE DEF history, collections
<1>1. /\ \A q \in Requests \ {r} : req'[q] = req[q]
      /\ req'[r].pc # "acceptSave" /\ ~At(r, "acceptSave")
      /\ UNCHANGED <<announced, assigned>>
  BY DEF CompleteStep, CompleteLoad, CompleteMark, CompleteSave,
     Begin, Serving, Goto, Return, Idle, At, Typed, TypeOK, Request
<1>2. Promises' = Promises
  BY <1>1, PromisesNext
<1>3. CASE UNCHANGED carts
  BY <1>1, <1>2, <1>3, LifeStutters
<1>4. CASE CompleteSave(r)
  <2>1. PICK o \in Orders : o = req[r].order
    BY <1>4 DEF CompleteSave, At, Typed, RequestOK
  <2>2. carts[o].status \in {"DELIVERING", "DONE"}
    BY <1>4, <2>1 DEF CompleteSave, At, Known, RequestKnown
  <2>3. Life!Finish(o)
    BY <1>1, <1>2, <1>4, <2>1, <2>2 DEF CompleteSave, Life!Finish, Promises
  <2> QED BY <2>3 DEF Life!Next
<1> QED BY <1>3, <1>4 DEF CompleteStep, CompleteLoad, CompleteMark

LEMMA MoveLives ==
    ASSUME Typed, Known, NEW r \in Requests, MoveStep(r) PROVE Life!Next
<1> USE DEF history, collections
<1>1. /\ \A q \in Requests \ {r} : req'[q] = req[q]
      /\ req'[r].pc # "acceptSave" /\ ~At(r, "acceptSave")
      /\ UNCHANGED <<announced, assigned>>
  BY DEF MoveStep, MoveLoad, MoveSave, Begin, Serving, Return, Idle, At, Typed, TypeOK
<1>2. Promises' = Promises
  BY <1>1, PromisesNext
<1>3. CASE UNCHANGED carts
  BY <1>1, <1>2, <1>3, LifeStutters
<1>4. CASE MoveSave(r)
  <2>1. PICK o \in Orders, s \in Shippers : o = req[r].order /\ s = req[r].who
    BY <1>4 DEF MoveSave, At, Typed, RequestOK
  <2>2. <<o, s>> \in InvolvedPairs
    BY <1>4, <2>1, InvolvedPair DEF MoveSave, At, Known, RequestKnown
  <2>3. Life!Report(o, s)
    BY <1>1, <1>2, <1>4, <2>1, <2>2 DEF MoveSave, Life!Report, Promises, InvolvedPairs, Pairs
  <2> QED BY <2>3 DEF Life!Next
<1> QED BY <1>3, <1>4 DEF MoveStep, MoveLoad

LEMMA DispatcherLives ==
    ASSUME Typed, Known, DispatcherStep PROVE Life!Next
<1> USE DEF cartVars, history
<1>1. CASE \E o \in Orders, s \in Shippers : DispatcherAssigns(o, s)
  <2>1. PICK o \in Orders, s \in Shippers : DispatcherAssigns(o, s) BY <1>1
  <2>2. /\ carts' = [carts EXCEPT ![o].shipperId = s, ![o].deliveryCoord = s]
        /\ carts[o].status # "ABSENT"
        /\ Promises' = Promises
    BY <2>1 DEF DispatcherAssigns, Assign, Exists, Promises, At
  <2>3. InvolvedPairs' = InvolvedPairs \cup {<<o, s>>}
    <3>1. announced' = announced /\ assigned' = assigned \cup {<<o, s, carts[o].status>>}
      BY <2>1 DEF DispatcherAssigns, Assign
    <3> DEFINE t == <<o, s, carts[o].status>>
    <3>2. t[1] = o /\ t[2] = s
      OBVIOUS
    <3>3. \A a \in assigned' : a \in assigned \/ a = t
      BY <3>1
    <3>4. assigned \subseteq assigned' /\ t \in assigned'
      BY <3>1
    <3> HIDE DEF t
    <3>5. Pairs(assigned)' = Pairs(assigned) \cup {<<o, s>>}
      BY <3>2, <3>3, <3>4 DEF Pairs
    <3> QED BY <3>1, <3>5 DEF InvolvedPairs
  <2>4. Life!Give(o, s)
    BY <2>2, <2>3 DEF Life!Give, Promises, InvolvedPairs, Pairs
  <2> QED BY <2>4 DEF Life!Next
<1>2. CASE \/ \E s \in Shippers : DispatcherMarks(s)
           \/ \E o \in Orders : DispatcherTakes(o)
  <2>1. UNCHANGED <<carts, req, announced, assigned>>
    BY <1>2 DEF DispatcherMarks, DispatcherTakes
  <2> QED BY <2>1, LifeStutters DEF Promises, At
<1> QED BY <1>1, <1>2 DEF DispatcherStep

LEMMA NextLives ==
    ASSUME Typed, Known, [Next]_vars PROVE [Life!Next]_(Life!vars)
<1> USE DEF history, collections
<1>1. CASE \E r \in Requests : HandlerStep(r)
  BY <1>1, CreateLives, AcceptLives, CompleteLives, MoveLives DEF HandlerStep
<1>2. CASE \E r \in Requests : RequestFails(r)
  <2>1. PICK r \in Requests : RequestFails(r) BY <1>2
  <2>2. /\ \A q \in Requests \ {r} : req'[q] = req[q]
        /\ req'[r].pc # "acceptSave"
        /\ UNCHANGED <<carts, announced, assigned>>
    BY <2>1 DEF RequestFails, Return, Idle, Typed, TypeOK
  <2> QED BY <2>2, PromisesNext, LifeStutters
<1>3. CASE DispatcherStep
  BY <1>3, DispatcherLives
<1>4. CASE Crash
  <2>1. Promises' = {} /\ UNCHANGED <<carts, announced, assigned>>
    BY <1>4 DEF Crash, Promises, At, Idle
  <2> QED BY <2>1, LifeStutters
<1>5. CASE UNCHANGED vars
  BY <1>5 DEF vars, cartVars, Life!vars, At
<1> QED BY <1>1, <1>2, <1>3, <1>4, <1>5 DEF Next

\* The handlers and the dispatcher take an order through the life that
\* module OrderLife describes, whatever overlaps, fails or crashes.
THEOREM CartsImplementOrderLife == Spec => OrderLifeSpec
<1>1. Spec => [](Typed /\ Known)
  BY InitTyped, NextTyped, InitKnown, NextKnown, PTL DEF Spec
<1>2. Typed /\ Known /\ [Next]_vars => [Life!Next]_(Life!vars)
  BY NextLives
<1> QED BY <1>1, <1>2, LifeInit, PTL DEF Spec, OrderLifeSpec, Life!Spec

----------------------------------------------------------------------------
(* The bounds: how far concurrent requests can pass the limit of           *)
(* createCart and the check of acceptOrder                                 *)

\* The set a bound counts can only shrink or grow by one element.
LEMMA CountShrinks ==
    ASSUME NEW S, NEW T, IsFiniteSet(T), S \subseteq T
    PROVE  /\ IsFiniteSet(S)
           /\ Cardinality(S) \in Nat
           /\ Cardinality(T) \in Nat
           /\ Cardinality(S) <= Cardinality(T)
BY FS_Subset, FS_CardinalityType

LEMMA CountGrows ==
    ASSUME NEW S, NEW T, IsFiniteSet(T), NEW x, S \subseteq T \cup {x}
    PROVE  Cardinality(S) <= Cardinality(T) + 1
<1>1. Cardinality(T) \in Nat
  BY FS_CardinalityType
<1>2. /\ IsFiniteSet(T \cup {x})
      /\ \/ Cardinality(T \cup {x}) = Cardinality(T)
         \/ Cardinality(T \cup {x}) = Cardinality(T) + 1
  BY FS_AddElement, Zenon
<1>3. Cardinality(S) <= Cardinality(T \cup {x}) /\ Cardinality(S) \in Nat
  BY <1>2, CountShrinks
<1> QED BY <1>1, <1>2, <1>3

LEMMA CountLoses ==
    ASSUME NEW S, NEW T, IsFiniteSet(T), NEW x \in T, S \subseteq T \ {x}
    PROVE  Cardinality(S) <= Cardinality(T) - 1
<1>1. IsFiniteSet(T \ {x}) /\ Cardinality(T \ {x}) = Cardinality(T) - 1
  BY FS_RemoveElement
<1> QED BY <1>1, CountShrinks

----------------------------------------------------------------------------
(* The limit of createCart *)

LimitKept(u) ==
    Cardinality(CartsOf(u)) + Cardinality(Creating(u))
        < MaxUnfinished + Cardinality(Requests)

LEMMA CreationCounts ==
    ASSUME NEW u
    PROVE  /\ IsFiniteSet(CartsOf(u)) /\ Cardinality(CartsOf(u)) \in Nat
           /\ IsFiniteSet(Creating(u)) /\ Cardinality(Creating(u)) \in Nat
           /\ Cardinality(Creating(u)) <= Cardinality(Requests)
           /\ Cardinality(Requests) \in Nat /\ MaxUnfinished \in Nat
<1>1. CartsOf(u) \subseteq Orders /\ Creating(u) \subseteq Requests
  BY DEF CartsOf, Creating
<1> QED BY <1>1, CountShrinks, CollectionsAssumption, CartsAssumption

\* The same after a step.
LEMMA CreationCountsNext ==
    ASSUME NEW u
    PROVE  /\ IsFiniteSet(CartsOf(u)') /\ Cardinality(CartsOf(u)') \in Nat
           /\ IsFiniteSet(Creating(u)') /\ Cardinality(Creating(u)') \in Nat
           /\ Cardinality(Creating(u)') <= Cardinality(Requests)
<1>1. CartsOf(u)' \subseteq Orders /\ Creating(u)' \subseteq Requests
  BY DEF CartsOf, Creating
<1> QED BY <1>1, CountShrinks, CollectionsAssumption, CartsAssumption

\* A step that adds neither a cart nor a request past the check.
LEMMA LimitQuiet ==
    ASSUME NEW u, LimitKept(u), CartsOf(u)' \subseteq CartsOf(u),
           Creating(u)' \subseteq Creating(u)
    PROVE  LimitKept(u)'
<1>1. /\ Cardinality(CartsOf(u)') <= Cardinality(CartsOf(u))
      /\ Cardinality(Creating(u)') <= Cardinality(Creating(u))
  BY CreationCounts, CountShrinks
<1> QED BY <1>1, CreationCounts, CreationCountsNext DEF LimitKept

LEMMA LimitCheck ==
    ASSUME Typed, NEW u \in Customers, LimitKept(u),
           NEW r \in Requests, NEW v \in Customers, CreateCheck(r, v)
    PROVE  LimitKept(u)'
<1>1. CartsOf(u)' = CartsOf(u)
  BY DEF CreateCheck, collections, CartsOf
<1>2. CASE v = u
  <2>1. Cardinality(CartsOf(u)) < MaxUnfinished
    BY <1>2, CreationCounts DEF CreateCheck, LimitReached
  <2> QED BY <1>1, <2>1, CreationCounts, CreationCountsNext DEF LimitKept
<1>3. CASE v # u
  <2>1. Creating(u)' \subseteq Creating(u)
    BY <1>3 DEF CreateCheck, Begin, Serving, Creating, At, Typed, TypeOK
  <2> QED BY <1>1, <2>1, LimitQuiet
<1> QED BY <1>2, <1>3

LEMMA LimitInsert ==
    ASSUME Typed, NEW u \in Customers, LimitKept(u),
           NEW r \in Requests, NEW o \in Orders, CreateInsert(r, o)
    PROVE  LimitKept(u)'
<1>t. req \in [Requests -> Request] /\ carts \in [Orders -> Cart]
  BY DEF Typed, TypeOK, CollectionsTypeOK
<1>1. Creating(u)' \subseteq Creating(u) \ {r}
  BY <1>t DEF CreateInsert, Begin, Serving, Creating, At
<1>2. CASE req[r].who = u
  <2>1. r \in Creating(u)
    BY <1>2 DEF CreateInsert, Creating
  <2>2. CartsOf(u)' \subseteq CartsOf(u) \cup {o}
    BY <1>t DEF CreateInsert, CartsOf
  <2>3. Cardinality(CartsOf(u)') <= Cardinality(CartsOf(u)) + 1
    BY <2>2, CreationCounts, CountGrows
  <2>4. Cardinality(Creating(u)') <= Cardinality(Creating(u)) - 1
    BY <1>1, <2>1, CreationCounts, CountLoses
  <2> QED BY <2>3, <2>4, CreationCounts, CreationCountsNext DEF LimitKept
<1>3. CASE req[r].who # u
  <2>1. CartsOf(u)' \subseteq CartsOf(u)
    BY <1>3, <1>t DEF CreateInsert, CartsOf, NewCart
  <2> QED BY <1>1, <2>1, LimitQuiet
<1> QED BY <1>2, <1>3

\* The owners of the carts and the requests past the check, in every other step.
LEMMA LimitOthers ==
    ASSUME Typed, [Next]_vars,
           ~ \E r \in Requests, u \in Customers : CreateCheck(r, u),
           ~ \E r \in Requests, o \in Orders : CreateInsert(r, o)
    PROVE  \A u : CartsOf(u)' \subseteq CartsOf(u) /\ Creating(u)' \subseteq Creating(u)
<1> SUFFICES ASSUME NEW u
             PROVE  CartsOf(u)' \subseteq CartsOf(u) /\ Creating(u)' \subseteq Creating(u)
  OBVIOUS
<1>t. req \in [Requests -> Request] /\ carts \in [Orders -> Cart]
  BY DEF Typed, TypeOK, CollectionsTypeOK
<1> USE DEF CartsOf, Creating, At, collections, history, cartVars
<1>1. ASSUME NEW r \in Requests, CreateStep(r)
      PROVE  CartsOf(u)' \subseteq CartsOf(u) /\ Creating(u)' \subseteq Creating(u)
  BY <1>1, <1>t DEF CreateStep, CreateNotFound, CreatePublish, Return, Idle
<1>2. ASSUME NEW r \in Requests, AcceptStep(r)
      PROVE  CartsOf(u)' \subseteq CartsOf(u) /\ Creating(u)' \subseteq Creating(u)
  <2>1. CartsOf(u)' \subseteq CartsOf(u)
    BY <1>2, <1>t DEF AcceptStep, AcceptCheck, AcceptLoad, AcceptRefused, AcceptSave, Cart
  <2>2. Creating(u)' \subseteq Creating(u)
    BY <1>2, <1>t DEF AcceptStep, AcceptCheck, AcceptLoad, AcceptRefused, AcceptSave,
                      Begin, Serving, Goto, Return, Idle, Request
  <2> QED BY <2>1, <2>2
<1>3. ASSUME NEW r \in Requests, CompleteStep(r)
      PROVE  CartsOf(u)' \subseteq CartsOf(u) /\ Creating(u)' \subseteq Creating(u)
  <2>1. CartsOf(u)' \subseteq CartsOf(u)
    BY <1>3, <1>t DEF CompleteStep, CompleteLoad, CompleteMark, CompleteSave, Cart
  <2>2. Creating(u)' \subseteq Creating(u)
    BY <1>3, <1>t DEF CompleteStep, CompleteLoad, CompleteMark, CompleteSave,
                      Begin, Serving, Goto, Return, Idle, Request
  <2> QED BY <2>1, <2>2
<1>4. ASSUME NEW r \in Requests, MoveStep(r)
      PROVE  CartsOf(u)' \subseteq CartsOf(u) /\ Creating(u)' \subseteq Creating(u)
  <2>1. CartsOf(u)' \subseteq CartsOf(u)
    BY <1>4, <1>t DEF MoveStep, MoveLoad, MoveSave, Cart
  <2>2. Creating(u)' \subseteq Creating(u)
    BY <1>4, <1>t DEF MoveStep, MoveLoad, MoveSave, Begin, Serving, Return, Idle
  <2> QED BY <2>1, <2>2
<1>5. ASSUME NEW r \in Requests, RequestFails(r)
      PROVE  CartsOf(u)' \subseteq CartsOf(u) /\ Creating(u)' \subseteq Creating(u)
  BY <1>5, <1>t DEF RequestFails, Return, Idle
<1>6. ASSUME DispatcherStep
      PROVE  CartsOf(u)' \subseteq CartsOf(u) /\ Creating(u)' \subseteq Creating(u)
  <2>1. UNCHANGED req
    BY <1>6 DEF DispatcherStep, DispatcherAssigns, DispatcherMarks, DispatcherTakes
  <2>2. ASSUME NEW o \in Orders, NEW s \in Shippers, DispatcherAssigns(o, s)
        PROVE  CartsOf(u)' \subseteq CartsOf(u)
    <3>1. \A p \in Orders : carts'[p].user = carts[p].user
      BY <2>2, <1>t DEF DispatcherAssigns, Assign, Cart
    <3> QED BY <3>1
  <2>3. CartsOf(u)' \subseteq CartsOf(u)
    BY <1>6, <2>2 DEF DispatcherStep, DispatcherMarks, DispatcherTakes
  <2> QED BY <2>1, <2>3
<1>7. ASSUME Crash \/ UNCHANGED vars
      PROVE  CartsOf(u)' \subseteq CartsOf(u) /\ Creating(u)' \subseteq Creating(u)
  BY <1>7 DEF Crash, Idle, vars
<1> QED BY <1>1, <1>2, <1>3, <1>4, <1>5, <1>6, <1>7 DEF Next, HandlerStep

\* Concurrent requests pass the limit of createCart by one cart each at most.
THEOREM LimitOvershootIsBounded == Spec => []LimitOvershootBounded
<1>1. Init => LimitOvershootBounded
  <2> SUFFICES ASSUME Init, NEW u \in Customers PROVE LimitKept(u)
    BY DEF LimitOvershootBounded, LimitKept
  <2>1. CartsOf(u) = {} /\ Creating(u) = {}
    BY CollectionsAssumption
       DEF Init, InitCollections, CartsOf, Creating, At, NoCart, Idle
  <2>2. Cardinality(Requests) \in Nat /\ MaxUnfinished \in Nat \ {0}
    BY CreationCounts, CartsAssumption
  <2> QED BY <2>1, <2>2, FS_EmptySet DEF LimitKept
<1>2. Typed /\ LimitOvershootBounded /\ [Next]_vars => LimitOvershootBounded'
  <2> SUFFICES ASSUME Typed, LimitOvershootBounded, [Next]_vars, NEW u \in Customers
               PROVE  LimitKept(u)'
    BY DEF LimitOvershootBounded, LimitKept
  <2>1. LimitKept(u)
    BY DEF LimitOvershootBounded, LimitKept
  <2> QED BY <2>1, LimitCheck, LimitInsert, LimitOthers, LimitQuiet
<1> QED BY <1>1, <1>2, InitTyped, NextTyped, PTL DEF Spec

----------------------------------------------------------------------------
(* The check of acceptOrder *)

\* The orders s delivers that were not imposed on him.
Taken(s) == {o \in DeliveringOrders(s) : ~Imposed(o, s)}

DeliveriesKept(s) ==
    Cardinality(Taken(s)) + Cardinality(Accepting(s)) <= Cardinality(Requests)

LEMMA DeliveryCounts ==
    ASSUME NEW s
    PROVE  /\ IsFiniteSet(Taken(s)) /\ Cardinality(Taken(s)) \in Nat
           /\ IsFiniteSet(Accepting(s)) /\ Cardinality(Accepting(s)) \in Nat
           /\ Cardinality(Requests) \in Nat
<1>1. Taken(s) \subseteq Orders /\ Accepting(s) \subseteq Requests
  BY DEF Taken, DeliveringOrders, CartsOfShipper, Accepting
<1> QED BY <1>1, CountShrinks, CollectionsAssumption, CartsAssumption

\* The same after a step.
LEMMA DeliveryCountsNext ==
    ASSUME NEW s
    PROVE  /\ IsFiniteSet(Taken(s)') /\ Cardinality(Taken(s)') \in Nat
           /\ IsFiniteSet(Accepting(s)') /\ Cardinality(Accepting(s)') \in Nat
           /\ Cardinality(Accepting(s)') <= Cardinality(Requests)
<1>1. Taken(s)' \subseteq Orders /\ Accepting(s)' \subseteq Requests
  BY DEF Taken, DeliveringOrders, CartsOfShipper, Accepting
<1> QED BY <1>1, CountShrinks, CollectionsAssumption, CartsAssumption

\* A step that starts no delivery and lets no accept past the check.
LEMMA DeliveriesQuiet ==
    ASSUME NEW s, DeliveriesKept(s), Taken(s)' \subseteq Taken(s),
           Accepting(s)' \subseteq Accepting(s)
    PROVE  DeliveriesKept(s)'
<1>1. /\ Cardinality(Taken(s)') <= Cardinality(Taken(s))
      /\ Cardinality(Accepting(s)') <= Cardinality(Accepting(s))
  BY DeliveryCounts, CountShrinks
<1> QED BY <1>1, DeliveryCounts, DeliveryCountsNext DEF DeliveriesKept

LEMMA DeliveriesCheck ==
    ASSUME Typed, NEW s \in Shippers, DeliveriesKept(s), NEW r \in Requests,
           NEW t \in Shippers, NEW o \in Orders, AcceptCheck(r, t, o)
    PROVE  DeliveriesKept(s)'
<1>1. Taken(s)' = Taken(s)
  BY DEF AcceptCheck, collections, history, Taken, DeliveringOrders,
         CartsOfShipper, Imposed
<1>2. CASE t = s
  <2>1. Taken(s)' = {}
    BY <1>1, <1>2 DEF AcceptCheck, MayAccept, Taken
  <2> QED BY <2>1, FS_EmptySet, DeliveryCounts, DeliveryCountsNext DEF DeliveriesKept
<1>3. CASE t # s
  <2>1. Accepting(s)' \subseteq Accepting(s)
    BY <1>3 DEF AcceptCheck, Begin, Serving, Accepting, Typed, TypeOK
  <2> QED BY <1>1, <2>1, DeliveriesQuiet
<1> QED BY <1>2, <1>3

LEMMA DeliveriesSave ==
    ASSUME Typed, NEW s \in Shippers, DeliveriesKept(s), NEW r \in Requests,
           AcceptSave(r)
    PROVE  DeliveriesKept(s)'
<1>t. req \in [Requests -> Request] /\ carts \in [Orders -> Cart]
  BY DEF Typed, TypeOK, CollectionsTypeOK
<1>0. PICK o \in Orders, t \in Shippers : o = req[r].order /\ t = req[r].who
  BY DEF AcceptSave, At, Typed, RequestOK
<1>1. Accepting(s)' \subseteq Accepting(s) \ {r}
  BY <1>t DEF AcceptSave, Return, Idle, Accepting
<1>2. /\ \A p \in Orders \ {o} : carts'[p] = carts[p]
      /\ carts'[o].shipperId = t
      /\ UNCHANGED assigned
  BY <1>t, <1>0 DEF AcceptSave, history, Cart
<1>3. CASE t = s
  <2>1. r \in Accepting(s)
    BY <1>0, <1>3 DEF AcceptSave, At, Accepting
  <2>2. Taken(s)' \subseteq Taken(s) \cup {o}
    BY <1>2 DEF Taken, DeliveringOrders, CartsOfShipper, Imposed
  <2>3. Cardinality(Taken(s)') <= Cardinality(Taken(s)) + 1
    BY <2>2, DeliveryCounts, CountGrows
  <2>4. Cardinality(Accepting(s)') <= Cardinality(Accepting(s)) - 1
    BY <1>1, <2>1, DeliveryCounts, CountLoses
  <2> QED BY <2>3, <2>4, DeliveryCounts, DeliveryCountsNext DEF DeliveriesKept
<1>4. CASE t # s
  <2>1. Taken(s)' \subseteq Taken(s)
    BY <1>2, <1>4 DEF Taken, DeliveringOrders, CartsOfShipper, Imposed
  <2> QED BY <1>1, <2>1, DeliveriesQuiet
<1> QED BY <1>3, <1>4

LEMMA DeliveriesAssign ==
    ASSUME Typed, NEW s \in Shippers, DeliveriesKept(s),
           NEW o \in Orders, NEW t \in Shippers, DispatcherAssigns(o, t)
    PROVE  DeliveriesKept(s)'
<1>t. carts \in [Orders -> Cart]
  BY DEF Typed, TypeOK, CollectionsTypeOK
<1>1. Accepting(s)' = Accepting(s)
  BY DEF DispatcherAssigns, Accepting
<1>2. /\ \A p \in Orders \ {o} : carts'[p] = carts[p]
      /\ carts'[o].shipperId = t /\ carts'[o].status = carts[o].status
      /\ assigned \subseteq assigned' /\ <<o, t, carts[o].status>> \in assigned'
  BY <1>t DEF DispatcherAssigns, Assign, Cart
<1>3. o \notin Taken(s)'
  BY <1>2 DEF Taken, DeliveringOrders, CartsOfShipper, Imposed
<1>4. Taken(s)' \subseteq Taken(s)
  BY <1>2, <1>3 DEF Taken, DeliveringOrders, CartsOfShipper, Imposed
<1> QED BY <1>1, <1>4, DeliveriesQuiet

\* The orders being delivered and the accepts past the check, in every other
\* step.
LEMMA DeliveriesOthers ==
    ASSUME Typed, [Next]_vars, NEW s \in Shippers,
           ~ \E r \in Requests, t \in Shippers, o \in Orders : AcceptCheck(r, t, o),
           ~ \E r \in Requests : AcceptSave(r),
           ~ \E o \in Orders, t \in Shippers : DispatcherAssigns(o, t)
    PROVE  Taken(s)' \subseteq Taken(s) /\ Accepting(s)' \subseteq Accepting(s)
<1>t. req \in [Requests -> Request] /\ carts \in [Orders -> Cart]
  BY DEF Typed, TypeOK, CollectionsTypeOK
<1> USE DEF Taken, DeliveringOrders, CartsOfShipper, Imposed, Accepting, At,
            collections, history, cartVars
<1>1. ASSUME NEW r \in Requests, CreateStep(r)
      PROVE  Taken(s)' \subseteq Taken(s) /\ Accepting(s)' \subseteq Accepting(s)
  <2>1. Taken(s)' \subseteq Taken(s)
    BY <1>1, <1>t DEF CreateStep, CreateCheck, CreateNotFound, CreateInsert,
                      CreatePublish, NewCart
  <2>2. Accepting(s)' \subseteq Accepting(s)
    BY <1>1, <1>t DEF CreateStep, CreateCheck, CreateNotFound, CreateInsert,
                      CreatePublish, Begin, Serving, Return, Idle
  <2> QED BY <2>1, <2>2
<1>2. ASSUME NEW r \in Requests, AcceptLoad(r) \/ AcceptRefused(r)
      PROVE  Taken(s)' \subseteq Taken(s) /\ Accepting(s)' \subseteq Accepting(s)
  <2>1. UNCHANGED <<carts, assigned>>
    BY <1>2 DEF AcceptLoad, AcceptRefused
  <2>2. Accepting(s)' \subseteq Accepting(s)
    BY <1>2, <1>t DEF AcceptLoad, AcceptRefused, Goto, Return, Idle, Request
  <2> QED BY <2>1, <2>2
<1>3. ASSUME NEW r \in Requests, CompleteStep(r)
      PROVE  Taken(s)' \subseteq Taken(s) /\ Accepting(s)' \subseteq Accepting(s)
  <2>1. Taken(s)' \subseteq Taken(s)
    BY <1>3, <1>t DEF CompleteStep, CompleteLoad, CompleteMark, CompleteSave, Cart
  <2>2. Accepting(s)' \subseteq Accepting(s)
    BY <1>3, <1>t DEF CompleteStep, CompleteLoad, CompleteMark, CompleteSave,
                      Begin, Serving, Goto, Return, Idle, Request
  <2> QED BY <2>1, <2>2
<1>4. ASSUME NEW r \in Requests, MoveStep(r)
      PROVE  Taken(s)' \subseteq Taken(s) /\ Accepting(s)' \subseteq Accepting(s)
  <2>1. Taken(s)' \subseteq Taken(s)
    BY <1>4, <1>t DEF MoveStep, MoveLoad, MoveSave, Cart
  <2>2. Accepting(s)' \subseteq Accepting(s)
    BY <1>4, <1>t DEF MoveStep, MoveLoad, MoveSave, Begin, Serving, Return, Idle
  <2> QED BY <2>1, <2>2
<1>5. ASSUME NEW r \in Requests, RequestFails(r)
      PROVE  Taken(s)' \subseteq Taken(s) /\ Accepting(s)' \subseteq Accepting(s)
  <2>1. UNCHANGED <<carts, assigned>>
    BY <1>5 DEF RequestFails
  <2>2. Accepting(s)' \subseteq Accepting(s)
    BY <1>5, <1>t DEF RequestFails, Return, Idle
  <2> QED BY <2>1, <2>2
<1>6. ASSUME DispatcherStep
      PROVE  Taken(s)' \subseteq Taken(s) /\ Accepting(s)' \subseteq Accepting(s)
  BY <1>6 DEF DispatcherStep, DispatcherMarks, DispatcherTakes
<1>7. ASSUME Crash \/ UNCHANGED vars
      PROVE  Taken(s)' \subseteq Taken(s) /\ Accepting(s)' \subseteq Accepting(s)
  BY <1>7 DEF Crash, Idle, vars
<1> QED BY <1>1, <1>2, <1>3, <1>4, <1>5, <1>6, <1>7 DEF Next, HandlerStep, AcceptStep

\* A shipper delivers at most as many orders he accepted as there are accepts
\* served at once, whatever the dispatcher does meanwhile.
THEOREM DeliveriesAreBounded == Spec => []DeliveriesBounded
<1>1. Init => DeliveriesBounded
  <2> SUFFICES ASSUME Init, NEW s \in Shippers PROVE DeliveriesKept(s)
    BY DEF DeliveriesBounded, DeliveriesKept, Taken
  <2>1. Taken(s) = {} /\ Accepting(s) = {}
    BY DEF Init, InitCollections, Taken, DeliveringOrders, CartsOfShipper,
           Accepting, NoCart, Idle
  <2>2. Cardinality(Taken(s)) = 0 /\ Cardinality(Accepting(s)) = 0
    BY <2>1, FS_EmptySet
  <2>3. Cardinality(Requests) \in Nat
    BY DeliveryCounts
  <2> QED BY <2>2, <2>3 DEF DeliveriesKept
<1>2. Typed /\ DeliveriesBounded /\ [Next]_vars => DeliveriesBounded'
  <2> SUFFICES ASSUME Typed, DeliveriesBounded, [Next]_vars, NEW s \in Shippers
               PROVE  DeliveriesKept(s)'
    BY DEF DeliveriesBounded, DeliveriesKept, Taken
  <2>1. DeliveriesKept(s)
    BY DEF DeliveriesBounded, DeliveriesKept, Taken
  <2>2. CASE \E r \in Requests, t \in Shippers, o \in Orders : AcceptCheck(r, t, o)
    BY <2>1, <2>2, DeliveriesCheck
  <2>3. CASE \E r \in Requests : AcceptSave(r)
    BY <2>1, <2>3, DeliveriesSave
  <2>4. CASE \E o \in Orders, t \in Shippers : DispatcherAssigns(o, t)
    BY <2>1, <2>4, DeliveriesAssign
  <2> QED BY <2>1, <2>2, <2>3, <2>4, DeliveriesOthers, DeliveriesQuiet
<1> QED BY <1>1, <1>2, InitTyped, NextTyped, PTL DEF Spec
=============================================================================
