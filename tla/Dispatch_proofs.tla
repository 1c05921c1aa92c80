--------------------------- MODULE Dispatch_proofs ---------------------------
(***************************************************************************)
(* Proofs about Dispatch: the dispatcher and CartService together do what  *)
(* module Carts describes, so the theorems about Carts hold of both; no    *)
(* order is forgotten; redeliveries are the only reason an order is        *)
(* assigned twice.                                                         *)
(***************************************************************************)
EXTENDS Dispatch, Carts_proofs

----------------------------------------------------------------------------
(* The inductive invariant *)

DispatchTypeOK ==
    /\ jobs \in [Orders -> Job]
    /\ locations \in [Shippers -> Location]

\* A message, ready or delivered, is that of a stored order, and is in one
\* place; a job past the choice has its shipper, and past the assignment so
\* has the order.
JobOK(o) ==
    /\ o \in queue => jobs[o].pc = "none" /\ Exists(o)
    /\ jobs[o].pc # "none" => Exists(o)
    /\ jobs[o].pc = "none" => jobs[o].result = "none"
    /\ jobs[o].pc \in {"route", "assign", "count", "mark"} =>
          jobs[o].shipper \in Shippers
    /\ jobs[o].pc \in {"count", "mark"} \/ jobs[o].result = "decided" =>
          carts[o].shipperId # Null
    /\ jobs[o].pc \in {"ack", "acked"} => jobs[o].result # "none"

\* A request about to publish is the only one for its order, and the order
\* has no message yet.
PublishOK(r) ==
    At(r, "publish") =>
        /\ Exists(req[r].order)
        /\ req[r].order \notin queue
        /\ jobs[req[r].order].pc = "none"
        /\ \A q \in Requests :
              At(q, "publish") /\ req[q].order = req[r].order => q = r

DInv ==
    /\ Typed
    /\ DispatchTypeOK
    /\ \A o \in Orders : JobOK(o)
    /\ \A r \in Requests : PublishOK(r)

LEMMA InitDInv == DInit => DInv
<1> SUFFICES ASSUME DInit PROVE DInv OBVIOUS
<1>1. Typed
  BY InitTyped DEF DInit
<1>2. DispatchTypeOK
  BY DEF DInit, DispatchTypeOK, NoJob, Job, Unacked, BeforeAssign, AfterAssign,
         Coordinate, NoLocations, Location
<1>3. \A o \in Orders : JobOK(o)
  BY DEF DInit, Init, InitCollections, JobOK, NoJob
<1>4. \A r \in Requests : PublishOK(r)
  BY DEF DInit, Init, PublishOK, At, Idle
<1> QED BY <1>1, <1>2, <1>3, <1>4 DEF DInv

----------------------------------------------------------------------------
(* Every step of the composition is one of Carts, or none *)

LEMMA StepRefines ==
    ASSUME DInv, [DNext]_dVars PROVE [Next]_vars
<1> USE DEF cartVars, history, collections, vars
<1>1. CASE CartServiceStep
  BY <1>1 DEF CartServiceStep, Next
<1>2. ASSUME NEW o \in Orders, Consume(o) PROVE DispatcherStep
  BY <1>2 DEF Consume, TakeFromQueue, DispatcherTakes, DispatcherStep
<1>3. ASSUME NEW o \in Orders, JobStep(o) PROVE DispatcherStep \/ UNCHANGED vars
  <2>1. CASE AssignOrder(o)
    <3>1. PICK s \in Shippers : s = jobs[o].shipper
      BY <2>1 DEF AssignOrder, JobAt, DInv, JobOK
    <3>2. Exists(o)
      BY <2>1 DEF AssignOrder, JobAt, DInv, JobOK
    <3>3. DispatcherAssigns(o, s)
      BY <2>1, <3>1, <3>2 DEF AssignOrder, DispatcherAssigns
    <3> QED BY <3>3 DEF DispatcherStep
  <2>2. CASE MarkShipper(o)
    <3>1. PICK s \in Shippers : s = jobs[o].shipper
      BY <2>2 DEF MarkShipper, JobAt, DInv, JobOK
    <3>2. DispatcherMarks(s)
      BY <2>2, <3>1 DEF MarkShipper, DispatcherMarks
    <3> QED BY <3>2 DEF DispatcherStep
  <2>3. CASE LoadOrder(o) \/ ChooseShipper(o) \/ RouteFound(o) \/ CountOrders(o)
               \/ JobFails(o) \/ Ack(o)
    BY <2>3 DEF LoadOrder, ChooseShipper, RouteFound, CountOrders, JobFails, Ack
  <2> QED BY <1>3, <2>1, <2>2, <2>3 DEF JobStep
<1>4. ASSUME NEW s \in Shippers, ReportLocation(s) PROVE UNCHANGED vars
  BY <1>4 DEF ReportLocation
<1>5. CASE DCrash
  <2>1. Redelivered \in SUBSET {o \in Orders : Exists(o)}
    BY DEF Redelivered, Unacked, BeforeAssign, AfterAssign, DInv, JobOK
  <2> QED BY <1>5, <2>1 DEF DCrash, Crash, Next
<1>6. CASE UNCHANGED dVars
  BY <1>6 DEF dVars
<1> QED BY <1>1, <1>2, <1>3, <1>4, <1>5, <1>6 DEF DNext, Next

----------------------------------------------------------------------------
(* The invariant is inductive *)

\* An order that has a message and a shipper keeps both in a step of Carts.
OrdersStay ==
    \A o \in Orders : Exists(o) =>
        /\ Exists(o)'
        /\ carts[o].shipperId # Null => carts'[o].shipperId # Null

LEMMA CartServiceKeepsOrders ==
    ASSUME Typed, NEW r \in Requests, HandlerStep(r) \/ RequestFails(r)
    PROVE  OrdersStay
<1>t. req \in [Requests -> Request] /\ carts \in [Orders -> Cart]
  BY DEF Typed, TypeOK, CollectionsTypeOK
<1> USE DEF OrdersStay, Exists, collections, history
<1>1. CASE CreateStep(r)
  BY <1>1, <1>t DEF CreateStep, CreateCheck, CreateNotFound, CreateInsert, CreatePublish
<1>2. CASE AcceptStep(r)
  <2>1. CASE AcceptSave(r)
    <3>1. PICK o \in Orders, s \in Shippers : o = req[r].order /\ s = req[r].who
      BY <2>1 DEF AcceptSave, At, Typed, RequestOK
    <3>2. /\ \A p \in Orders \ {o} : carts'[p] = carts[p]
          /\ carts'[o].shipperId = s /\ carts'[o].status = "DELIVERING"
      BY <2>1, <3>1, <1>t DEF AcceptSave, Cart
    <3> QED BY <3>2, CollectionsAssumption
  <2> QED BY <1>2, <2>1 DEF AcceptStep, AcceptCheck, AcceptLoad, AcceptRefused
<1>3. CASE CompleteStep(r)
  BY <1>3, <1>t DEF CompleteStep, CompleteLoad, CompleteMark, CompleteSave, Cart
<1>4. CASE MoveStep(r)
  BY <1>4, <1>t DEF MoveStep, MoveLoad, MoveSave, Cart
<1>5. CASE RequestFails(r)
  BY <1>5 DEF RequestFails
<1> QED BY <1>1, <1>2, <1>3, <1>4, <1>5 DEF HandlerStep

\* Outside createCart's insert no request comes to the point of publishing,
\* and the queue is only written by its publishing.
LEMMA OthersPublishNothing ==
    ASSUME Typed, NEW r \in Requests, HandlerStep(r) \/ RequestFails(r),
           ~CreatePublish(r), ~ \E o \in Orders : CreateInsert(r, o)
    PROVE  /\ UNCHANGED queue
           /\ \A q \in Requests : At(q, "publish")' => At(q, "publish") /\ req'[q] = req[q]
<1>t. req \in [Requests -> Request]
  BY DEF Typed, TypeOK
<1> USE DEF collections, history, At
<1>1. CASE CreateStep(r)
  BY <1>1, <1>t DEF CreateStep, CreateCheck, CreateNotFound, Begin, Serving, Return, Idle
<1>2. CASE AcceptStep(r)
  BY <1>2, <1>t DEF AcceptStep, AcceptCheck, AcceptLoad, AcceptRefused, AcceptSave,
                    Begin, Serving, Goto, Return, Idle, Request
<1>3. CASE CompleteStep(r)
  BY <1>3, <1>t DEF CompleteStep, CompleteLoad, CompleteMark, CompleteSave,
                    Begin, Serving, Goto, Return, Idle, Request
<1>4. CASE MoveStep(r)
  BY <1>4, <1>t DEF MoveStep, MoveLoad, MoveSave, Begin, Serving, Return, Idle
<1>5. CASE RequestFails(r)
  BY <1>5, <1>t DEF RequestFails, Return, Idle
<1> QED BY <1>1, <1>2, <1>3, <1>4, <1>5 DEF HandlerStep

LEMMA CartServiceDInv ==
    ASSUME DInv, CartServiceStep, Typed'
    PROVE  DInv'
<1>1. PICK r \in Requests : HandlerStep(r) \/ RequestFails(r)
  BY DEF CartServiceStep
<1>2. UNCHANGED <<jobs, locations>>
  BY DEF CartServiceStep, dispatchVars
<1>3. DispatchTypeOK'
  BY <1>2 DEF DInv, DispatchTypeOK
<1>4. OrdersStay
  BY <1>1, CartServiceKeepsOrders DEF DInv
<1>t. req \in [Requests -> Request] /\ carts \in [Orders -> Cart]
  BY DEF DInv, Typed, TypeOK, CollectionsTypeOK
<1>5. CASE CreatePublish(r)
  <2>1. PICK o \in Orders : o = req[r].order
    BY <1>5 DEF CreatePublish, At, DInv, Typed, RequestOK
  <2>2. queue' = queue \cup {o} /\ UNCHANGED carts /\ req' = [req EXCEPT ![r] = Idle]
    BY <1>5, <2>1 DEF CreatePublish, Return
  <2>3. At(r, "publish") /\ Exists(o) /\ jobs[o].pc = "none"
    BY <1>5, <2>1 DEF CreatePublish, DInv, PublishOK
  <2>4. \A p \in Orders : JobOK(p)'
    BY <1>2, <2>2, <2>3 DEF DInv, JobOK, Exists
  <2>5. \A q \in Requests \ {r} : At(q, "publish") => req[q].order # o
    BY <2>1, <2>3 DEF DInv, PublishOK
  <2>6. \A q \in Requests : PublishOK(q)'
    BY <1>2, <1>t, <2>2, <2>5 DEF DInv, PublishOK, At, Idle, Exists
  <2> QED BY <1>3, <2>4, <2>6 DEF DInv
<1>6. CASE \E o \in Orders : CreateInsert(r, o)
  <2>1. PICK o \in Orders : CreateInsert(r, o) BY <1>6
  <2>2. /\ UNCHANGED queue
        /\ req'[r].pc = "publish" /\ req'[r].order = o
        /\ \A q \in Requests \ {r} : req'[q] = req[q]
    BY <2>1, <1>t DEF CreateInsert, Begin, Serving
  <2>3. Exists(o)' /\ ~Exists(o)
    BY <2>1, <1>t DEF CreateInsert, Exists, NewCart
  <2>4. o \notin queue /\ jobs[o].pc = "none" /\ jobs[o].result = "none"
    BY <2>3 DEF DInv, JobOK
  <2>5. \A p \in Orders : JobOK(p)'
    BY <1>2, <1>4, <2>2, <2>3, <2>4 DEF OrdersStay, DInv, JobOK
  <2>6. \A q \in Requests \ {r} : At(q, "publish") => req[q].order # o
    BY <2>3 DEF DInv, PublishOK
  <2>7. \A q \in Requests : At(q, "publish") => req[q].order \in Orders
    BY DEF DInv, Typed, RequestOK, At
  <2>8. \A q \in Requests : PublishOK(q)'
    BY <1>2, <1>4, <2>2, <2>3, <2>4, <2>6, <2>7 DEF DInv, PublishOK, At, OrdersStay
  <2> QED BY <1>3, <2>5, <2>8 DEF DInv
<1>7. CASE ~CreatePublish(r) /\ ~ \E o \in Orders : CreateInsert(r, o)
  <2>1. /\ UNCHANGED queue
        /\ \A q \in Requests : At(q, "publish")' => At(q, "publish") /\ req'[q] = req[q]
    BY <1>1, <1>7, OthersPublishNothing DEF DInv
  <2>2. \A p \in Orders : JobOK(p)'
    BY <1>2, <1>4, <2>1 DEF OrdersStay, DInv, JobOK
  <2>3. \A q \in Requests : At(q, "publish") => req[q].order \in Orders
    BY DEF DInv, Typed, RequestOK, At
  <2>4. \A q \in Requests : PublishOK(q)'
    BY <1>2, <1>4, <2>1, <2>3 DEF DInv, PublishOK, At, OrdersStay
  <2> QED BY <1>3, <2>2, <2>4 DEF DInv
<1> QED BY <1>5, <1>6, <1>7

\* A step of the dispatcher for an order that has a message.
LEMMA DispatcherWrites ==
    ASSUME DInv, Typed', DispatchTypeOK', OrdersStay,
           NEW o \in Orders, o \in queue \/ jobs[o].pc # "none", JobOK(o)',
           \A p \in Orders \ {o} : jobs'[p] = jobs[p],
           queue' \subseteq queue, UNCHANGED req
    PROVE  DInv'
<1>1. \A p \in Orders : JobOK(p)'
  BY DEF DInv, JobOK, OrdersStay
<1>2. \A q \in Requests : At(q, "publish") => req[q].order \in Orders \ {o}
  BY DEF DInv, PublishOK, Typed, RequestOK, At
<1>3. \A q \in Requests : PublishOK(q)'
  BY <1>2 DEF DInv, PublishOK, At, OrdersStay
<1> QED BY <1>1, <1>3 DEF DInv

LEMMA ConsumeDInv ==
    ASSUME DInv, Typed', NEW o \in Orders, Consume(o) PROVE DInv'
<1> USE DEF cartVars
<1>t. jobs \in [Orders -> Job]
  BY DEF DInv, DispatchTypeOK
<1>1. o \in queue /\ Exists(o)
  BY DEF Consume, DInv, JobOK
<1>2. jobs'[o] = [NoJob EXCEPT !.pc = "load"]
  BY <1>t DEF Consume
<1>3. JobOK(o)'
  BY <1>1, <1>2 DEF Consume, TakeFromQueue, JobOK, NoJob, Exists
<1>4. [NoJob EXCEPT !.pc = "load"] \in Job
  BY DEF NoJob, Job, Unacked, BeforeAssign, Coordinate
<1>5. DispatchTypeOK'
  BY <1>4 DEF Consume, DInv, DispatchTypeOK
<1>6. OrdersStay
  BY DEF Consume, OrdersStay, Exists
<1>7. \A p \in Orders \ {o} : jobs'[p] = jobs[p]
  BY <1>t DEF Consume
<1>8. queue' \subseteq queue /\ UNCHANGED req
  BY DEF Consume, TakeFromQueue
<1> QED BY <1>1, <1>3, <1>5, <1>6, <1>7, <1>8, DispatcherWrites

\* The steps of a job that write nothing but the job and the map.
LEMMA QuietJobDInv ==
    ASSUME DInv, Typed', NEW o \in Orders, UNCHANGED vars, DispatchTypeOK',
           jobs[o].pc # "none", JobOK(o)',
           \A p \in Orders \ {o} : jobs'[p] = jobs[p]
    PROVE  DInv'
<1>1. OrdersStay /\ queue' \subseteq queue /\ UNCHANGED req
  BY DEF vars, collections, cartVars, OrdersStay, Exists
<1> QED BY <1>1, DispatcherWrites

LEMMA JobStepDInv ==
    ASSUME DInv, Typed', NEW o \in Orders, JobStep(o) PROVE DInv'
<1>t. jobs \in [Orders -> Job] /\ locations \in [Shippers -> Location]
  BY DEF DInv, DispatchTypeOK
<1>c. carts \in [Orders -> Cart]
  BY DEF DInv, Typed, TypeOK, CollectionsTypeOK
<1>j. JobOK(o)
  BY DEF DInv
<1> USE DEF JobAt
<1>1. CASE LoadOrder(o)
  <2>1. /\ jobs[o].pc = "load"
        /\ jobs'[o] = [jobs[o] EXCEPT !.pc = "wait", !.from = carts[o].deliveryCoord]
        /\ \A p \in Orders \ {o} : jobs'[p] = jobs[p]
        /\ UNCHANGED <<vars, locations>>
    BY <1>1, <1>t DEF LoadOrder
  <2>2. jobs'[o] \in Job
    BY <2>1, <1>t, <1>c DEF Job, Cart, Unacked, BeforeAssign
  <2>3. DispatchTypeOK'
    BY <2>1, <2>2, <1>t, <1>1 DEF LoadOrder, DispatchTypeOK
  <2>4. JobOK(o)'
    BY <2>1, <1>j, <1>t DEF JobOK, Job, Exists, vars, collections
  <2> QED BY <2>1, <2>3, <2>4, QuietJobDInv
<1>2. CASE ChooseShipper(o)
  <2>1. PICK s \in Shippers :
          jobs' = [jobs EXCEPT ![o].pc = "route", ![o].shipper = s]
    BY <1>2 DEF ChooseShipper
  <2>2. /\ jobs[o].pc = "wait"
        /\ jobs'[o] = [jobs[o] EXCEPT !.pc = "route", !.shipper = s]
        /\ \A p \in Orders \ {o} : jobs'[p] = jobs[p]
        /\ UNCHANGED vars
    BY <1>2, <2>1, <1>t DEF ChooseShipper
  <2>3. jobs'[o] \in Job
    BY <2>2, <1>t DEF Job, Unacked, BeforeAssign
  <2>4. locations' \in [Shippers -> Location]
    BY <1>2, <1>t DEF ChooseShipper, Location
  <2>5. DispatchTypeOK'
    BY <2>1, <2>3, <2>4, <1>t DEF DispatchTypeOK
  <2>6. JobOK(o)'
    BY <2>2, <1>j, <1>t DEF JobOK, Job, Exists, vars, collections
  <2> QED BY <2>2, <2>5, <2>6, QuietJobDInv
<1>3. CASE RouteFound(o)
  <2>1. /\ jobs[o].pc = "route"
        /\ jobs'[o] = [jobs[o] EXCEPT !.pc = "assign"]
        /\ \A p \in Orders \ {o} : jobs'[p] = jobs[p]
        /\ UNCHANGED <<vars, locations>>
    BY <1>3, <1>t DEF RouteFound
  <2>2. jobs'[o] \in Job
    BY <2>1, <1>t DEF Job, Unacked, BeforeAssign
  <2>3. DispatchTypeOK'
    BY <2>1, <2>2, <1>t, <1>3 DEF RouteFound, DispatchTypeOK
  <2>4. JobOK(o)'
    BY <2>1, <1>j, <1>t DEF JobOK, Job, Exists, vars, collections
  <2> QED BY <2>1, <2>3, <2>4, QuietJobDInv
<1>4. CASE CountOrders(o)
  <2>1. PICK n \in Nat : n = Cardinality(CartsOfShipper(jobs[o].shipper))
    <3>1. CartsOfShipper(jobs[o].shipper) \subseteq Orders
      BY DEF CartsOfShipper
    <3> QED BY <3>1, CountShrinks, CollectionsAssumption
  <2>2. /\ jobs[o].pc = "count"
        /\ jobs'[o] = [jobs[o] EXCEPT !.pc = "mark", !.count = n]
        /\ \A p \in Orders \ {o} : jobs'[p] = jobs[p]
        /\ UNCHANGED <<vars, locations>>
    BY <1>4, <2>1, <1>t DEF CountOrders
  <2>3. jobs'[o] \in Job
    BY <2>2, <1>t DEF Job, Unacked, AfterAssign
  <2>4. DispatchTypeOK'
    BY <2>2, <2>3, <1>t, <1>4 DEF CountOrders, DispatchTypeOK
  <2>5. JobOK(o)'
    BY <2>2, <1>j, <1>t DEF JobOK, Job, Exists, vars, collections
  <2> QED BY <2>2, <2>4, <2>5, QuietJobDInv
<1>5. CASE JobFails(o)
  <2>1. /\ jobs[o].pc # "none"
        /\ jobs'[o] = [jobs[o] EXCEPT !.pc = "ack", !.result = "failed"]
        /\ \A p \in Orders \ {o} : jobs'[p] = jobs[p]
        /\ UNCHANGED <<vars, locations>>
    BY <1>5, <1>t DEF JobFails, BeforeAssign, AfterAssign
  <2>2. jobs'[o] \in Job
    BY <2>1, <1>t DEF Job, Unacked
  <2>3. DispatchTypeOK'
    BY <2>1, <2>2, <1>t, <1>5 DEF JobFails, DispatchTypeOK
  <2>4. JobOK(o)'
    BY <2>1, <1>j, <1>t DEF JobOK, Job, Exists, vars, collections
  <2> QED BY <2>1, <2>3, <2>4, QuietJobDInv
<1>6. CASE Ack(o)
  <2>1. /\ jobs[o].pc = "ack"
        /\ jobs'[o] = [NoJob EXCEPT !.pc = "acked", !.result = jobs[o].result]
        /\ \A p \in Orders \ {o} : jobs'[p] = jobs[p]
        /\ UNCHANGED <<vars, locations>>
    BY <1>6, <1>t DEF Ack, Ackable
  <2>2. jobs'[o] \in Job
    <3>1. jobs[o].result \in {"none", "decided", "failed"}
      BY <1>t DEF Job
    <3>2. jobs'[o] = [pc |-> "acked", from |-> AtStore, shipper |-> Null,
                      count |-> 0, result |-> jobs[o].result]
      BY <2>1 DEF NoJob
    <3> QED BY <3>1, <3>2 DEF Job, Coordinate
  <2>3. DispatchTypeOK'
    BY <2>1, <2>2, <1>t, <1>6 DEF Ack, DispatchTypeOK
  <2>4. JobOK(o)'
    BY <2>1, <1>j, <1>t DEF JobOK, NoJob, Job, Exists, vars, collections
  <2> QED BY <2>1, <2>3, <2>4, QuietJobDInv
<1>7. CASE AssignOrder(o)
  <2>1. PICK s \in Shippers : s = jobs[o].shipper
    BY <1>7, <1>j DEF AssignOrder, JobOK
  <2>2. /\ jobs[o].pc = "assign"
        /\ jobs'[o] = [jobs[o] EXCEPT !.pc = "count"]
        /\ \A p \in Orders \ {o} : jobs'[p] = jobs[p]
        /\ UNCHANGED <<queue, req, locations>>
    BY <1>7, <1>t DEF AssignOrder
  <2>3. /\ carts'[o].shipperId = s /\ carts'[o].status = carts[o].status
        /\ \A p \in Orders \ {o} : carts'[p] = carts[p]
    BY <1>7, <1>c, <2>1 DEF AssignOrder, Assign, Cart
  <2>4. OrdersStay
    BY <2>3, CollectionsAssumption DEF OrdersStay, Exists
  <2>5. jobs'[o] \in Job
    BY <2>2, <1>t DEF Job, Unacked, AfterAssign
  <2>6. DispatchTypeOK'
    BY <2>2, <2>5, <1>t, <1>7 DEF AssignOrder, DispatchTypeOK
  <2>7. JobOK(o)'
    BY <2>1, <2>2, <2>3, <1>j, <1>t, CollectionsAssumption DEF JobOK, Job, Exists
  <2> QED BY <2>2, <2>4, <2>6, <2>7, DispatcherWrites
<1>8. CASE MarkShipper(o)
  <2>1. /\ jobs[o].pc = "mark"
        /\ jobs'[o] = [jobs[o] EXCEPT !.pc = "ack", !.result = "decided"]
        /\ \A p \in Orders \ {o} : jobs'[p] = jobs[p]
        /\ UNCHANGED <<carts, queue, req, locations>>
    BY <1>8, <1>t DEF MarkShipper, cartVars
  <2>2. jobs'[o] \in Job
    BY <2>1, <1>t DEF Job, Unacked
  <2>3. DispatchTypeOK'
    BY <2>1, <2>2, <1>t, <1>8 DEF MarkShipper, DispatchTypeOK
  <2>4. JobOK(o)'
    BY <2>1, <1>j, <1>t DEF JobOK, Job, Exists
  <2>5. OrdersStay
    BY <2>1 DEF OrdersStay, Exists
  <2> QED BY <2>1, <2>3, <2>4, <2>5, DispatcherWrites
<1> QED BY <1>1, <1>2, <1>3, <1>4, <1>5, <1>6, <1>7, <1>8 DEF JobStep

LEMMA CrashDInv ==
    ASSUME DInv, Typed', DCrash PROVE DInv'
<1>t. jobs \in [Orders -> Job]
  BY DEF DInv, DispatchTypeOK
<1>1. OrdersStay
  BY DEF DCrash, OrdersStay, Exists
<1>2. NoJob \in Job
  BY DEF NoJob, Job, Coordinate
<1>3. DispatchTypeOK'
  BY <1>2, <1>t DEF DCrash, DispatchTypeOK, NoLocations, Location
<1>4. \A o \in Orders : JobOK(o)'
  BY <1>t DEF DCrash, DInv, JobOK, NoJob, Redelivered, Exists, Unacked,
              BeforeAssign, AfterAssign, Job
<1>5. \A r \in Requests : PublishOK(r)'
  BY DEF DCrash, PublishOK, At, Idle
<1> QED BY <1>3, <1>4, <1>5 DEF DInv

LEMMA NextDInv == DInv /\ [DNext]_dVars => DInv'
<1> SUFFICES ASSUME DInv, [DNext]_dVars PROVE DInv' OBVIOUS
<1>1. Typed'
  BY StepRefines, NextTyped DEF DInv
<1>2. CASE CartServiceStep
  BY <1>1, <1>2, CartServiceDInv
<1>3. CASE \E o \in Orders : Consume(o) \/ JobStep(o)
  BY <1>1, <1>3, ConsumeDInv, JobStepDInv
<1>4. CASE \E s \in Shippers : ReportLocation(s)
  <2>1. UNCHANGED <<vars, jobs>>
    BY <1>4 DEF ReportLocation
  <2>2. DispatchTypeOK'
    BY <1>4 DEF ReportLocation, DInv, DispatchTypeOK, Location
  <2> QED BY <1>1, <2>1, <2>2
          DEF DInv, JobOK, PublishOK, At, Exists, vars, collections, cartVars
<1>5. CASE DCrash
  BY <1>1, <1>5, CrashDInv
<1>6. CASE UNCHANGED dVars
  BY <1>1, <1>6 DEF DInv, DispatchTypeOK, JobOK, PublishOK, At, Exists, dVars,
                    vars, collections, cartVars, dispatchVars
<1> QED BY <1>2, <1>3, <1>4, <1>5, <1>6 DEF DNext

LEMMA DInvHolds == DSpec => []DInv
BY InitDInv, NextDInv, PTL DEF DSpec

----------------------------------------------------------------------------
(* The theorems *)

\* The composition implements Carts: DeliveryService does no more to the
\* collections than the environment of CartService may.
THEOREM DispatchImplementsCarts == DSpec => CartsSpec
<1>1. DInit => Init
  BY DEF DInit
<1>2. DInv /\ [DNext]_dVars => [Next]_vars
  BY StepRefines
<1> QED BY <1>1, <1>2, DInvHolds, PTL DEF DSpec, CartsSpec, Spec

\* Every variable of the composition keeps its type.
THEOREM DispatchTypeCorrect == DSpec => []DTypeOK
<1>1. DInv => DTypeOK
  BY DEF DInv, Typed, DispatchTypeOK, DTypeOK
<1> QED BY <1>1, DInvHolds, PTL

\* What is proved of Carts holds while orders are being dispatched.
THEOREM DispatchKeepsTheBounds ==
    DSpec => [](LimitOvershootBounded /\ DeliveriesBounded
                  /\ HeldOrdersAnnounced /\ CoordOfAnInvolvedShipper)
BY DispatchImplementsCarts, LimitOvershootIsBounded, DeliveriesAreBounded,
   HeldOrdersAreAnnounced, CoordsAreOfInvolvedShippers, PTL DEF CartsSpec

\* An order keeps its abstract life while it is being dispatched: whatever
\* the consumer, its jobs and a crash do, it is placed once, promised only
\* while it is CREATED and moved only by those who had to do with it.
THEOREM DispatchImplementsOrderLife == DSpec => OrderLifeSpec
BY DispatchImplementsCarts, CartsImplementOrderLife, PTL DEF CartsSpec

\* No order whose message was sent is forgotten.
THEOREM OrdersAreNotForgotten == DSpec => []NoOrderForgotten
<1>1. DInv => NoOrderForgotten
  <2> SUFFICES ASSUME DInv, NEW o \in Orders,
                      o \in queue \/ ~JobAt(o, "none"), carts[o].shipperId = Null
               PROVE  \/ o \in queue
                      \/ jobs[o].pc \in BeforeAssign
                      \/ jobs[o].result = "failed"
    BY DEF NoOrderForgotten
  <2>1. JobOK(o) /\ jobs[o] \in Job
    BY DEF DInv, DispatchTypeOK
  <2> QED BY <2>1 DEF JobOK, Job, JobAt, Unacked, AfterAssign
<1> QED BY <1>1, DInvHolds, PTL

----------------------------------------------------------------------------
(* Redelivery is the only reason an order is assigned again *)

\* The assignment that a message not handled yet still stands for.
MayBeAssigned(o) == jobs[o].pc \in {"none"} \cup BeforeAssign

Budget(o) ==
    /\ IsFiniteSet(AssignmentsOf(o))
    /\ Cardinality(AssignmentsOf(o)) <= crashes + 1
    /\ MayBeAssigned(o) => Cardinality(AssignmentsOf(o)) <= crashes

LEMMA BudgetQuiet ==
    ASSUME NEW o \in Orders, Budget(o), UNCHANGED <<assigned, crashes>>,
           MayBeAssigned(o)' => MayBeAssigned(o)
    PROVE  Budget(o)'
BY DEF Budget, AssignmentsOf

LEMMA BudgetAssign ==
    ASSUME DInv, NEW o \in Orders, NEW p \in Orders, Budget(o), AssignOrder(p)
    PROVE  Budget(o)'
<1>t. jobs \in [Orders -> Job] /\ crashes \in Nat
  BY CartsAssumption DEF DInv, DispatchTypeOK, Typed, TypeOK
<1> DEFINE a == <<p, jobs[p].shipper, carts[p].status>>
<1>1. assigned' = assigned \cup {a} /\ a[1] = p /\ UNCHANGED crashes
  BY DEF AssignOrder, Assign
<1>2. CASE p = o
  <2>1. AssignmentsOf(o)' = AssignmentsOf(o) \cup {a}
    BY <1>1, <1>2 DEF AssignmentsOf
  <2>2. MayBeAssigned(o) /\ ~MayBeAssigned(o)'
    <3>1. jobs[o].pc = "assign" /\ jobs'[o] = [jobs[o] EXCEPT !.pc = "count"]
      BY <1>2, <1>t DEF AssignOrder, JobAt
    <3>2. jobs'[o].pc = "count"
      BY <3>1, <1>t DEF Job
    <3> QED BY <3>1, <3>2 DEF MayBeAssigned, BeforeAssign
  <2>3. IsFiniteSet(AssignmentsOf(o)') /\ Cardinality(AssignmentsOf(o)') \in Nat
    <3>1. IsFiniteSet(AssignmentsOf(o)')
      BY <2>1, FS_AddElement, Zenon DEF Budget
    <3> QED BY <3>1, FS_CardinalityType
  <2>4. Cardinality(AssignmentsOf(o)') <= Cardinality(AssignmentsOf(o)) + 1
    BY <2>1, CountGrows DEF Budget
  <2>5. Cardinality(AssignmentsOf(o)) \in Nat /\ Cardinality(AssignmentsOf(o)) <= crashes
    BY <2>2, FS_CardinalityType DEF Budget
  <2> QED BY <1>1, <1>t, <2>2, <2>3, <2>4, <2>5 DEF Budget
<1>3. CASE p # o
  <2>1. AssignmentsOf(o)' = AssignmentsOf(o)
    BY <1>1, <1>3 DEF AssignmentsOf
  <2>2. MayBeAssigned(o)' <=> MayBeAssigned(o)
    BY <1>3, <1>t DEF AssignOrder, MayBeAssigned
  <2> QED BY <1>1, <2>1, <2>2 DEF Budget
<1> QED BY <1>2, <1>3

LEMMA BudgetNext ==
    ASSUME DInv, [DNext]_dVars, NEW o \in Orders, Budget(o)
    PROVE  Budget(o)'
<1>t. jobs \in [Orders -> Job]
  BY DEF DInv, DispatchTypeOK
<1> USE DEF vars, cartVars, history, MayBeAssigned, JobAt, BeforeAssign
<1>1. CASE CartServiceStep
  <2>1. UNCHANGED <<assigned, crashes, jobs>>
    BY <1>1 DEF CartServiceStep, dispatchVars, HandlerStep, RequestFails,
       CreateStep, CreateCheck, CreateNotFound, CreateInsert, CreatePublish,
       AcceptStep, AcceptCheck, AcceptLoad, AcceptRefused, AcceptSave,
       CompleteStep, CompleteLoad, CompleteMark, CompleteSave,
       MoveStep, MoveLoad, MoveSave
  <2> QED BY <2>1, BudgetQuiet
<1>2. ASSUME NEW p \in Orders, Consume(p) PROVE Budget(o)'
  <2>1. p \in queue /\ jobs[p].pc = "none"
    BY <1>2 DEF Consume, DInv, JobOK
  <2>2. MayBeAssigned(o)' => MayBeAssigned(o)
    BY <1>2, <1>t, <2>1 DEF Consume
  <2> QED BY <1>2, <2>2, BudgetQuiet DEF Consume
<1>3. ASSUME NEW p \in Orders, JobStep(p) PROVE Budget(o)'
  <2>1. CASE AssignOrder(p)
    BY <2>1, BudgetAssign
  <2>2. CASE LoadOrder(p) \/ RouteFound(p) \/ CountOrders(p) \/ JobFails(p) \/ Ack(p)
    <3>1. UNCHANGED <<assigned, crashes>>
      BY <2>2 DEF LoadOrder, RouteFound, CountOrders, JobFails, Ack
    <3>2. Ack(p) => (MayBeAssigned(o)' => MayBeAssigned(o))
      BY <1>t DEF Ack, NoJob
    <3>3. ~Ack(p) => (MayBeAssigned(o)' => MayBeAssigned(o))
      BY <2>2, <1>t DEF LoadOrder, RouteFound, CountOrders, JobFails, AfterAssign, Job
    <3> QED BY <3>1, <3>2, <3>3, BudgetQuiet
  <2>3. CASE ChooseShipper(p)
    <3>1. UNCHANGED <<assigned, crashes>>
      BY <2>3 DEF ChooseShipper
    <3>2. MayBeAssigned(o)' => MayBeAssigned(o)
      BY <2>3, <1>t DEF ChooseShipper, Job
    <3> QED BY <3>1, <3>2, BudgetQuiet
  <2>4. CASE MarkShipper(p)
    <3>1. UNCHANGED <<assigned, crashes>>
      BY <2>4 DEF MarkShipper
    <3>2. MayBeAssigned(o)' => MayBeAssigned(o)
      BY <2>4, <1>t DEF MarkShipper, Job
    <3> QED BY <3>1, <3>2, BudgetQuiet
  <2> QED BY <1>3, <2>1, <2>2, <2>3, <2>4 DEF JobStep
<1>4. CASE \E s \in Shippers : ReportLocation(s)
  BY <1>4, BudgetQuiet DEF ReportLocation
<1>5. CASE DCrash
  <2>1. AssignmentsOf(o)' = AssignmentsOf(o) /\ crashes' = crashes + 1
    BY <1>5 DEF DCrash, AssignmentsOf
  <2>2. Cardinality(AssignmentsOf(o)) \in Nat /\ crashes \in Nat
    BY FS_CardinalityType, CartsAssumption DEF Budget, DInv, Typed, TypeOK
  <2> QED BY <2>1, <2>2 DEF Budget
<1>6. CASE UNCHANGED dVars
  BY <1>6, BudgetQuiet DEF dVars, dispatchVars
<1> QED BY <1>1, <1>2, <1>3, <1>4, <1>5, <1>6 DEF DNext

\* An order is assigned at most once more than the process has crashed.
THEOREM AssignmentsAreBounded == DSpec => []AssignmentsBounded
<1> DEFINE Budgets == \A o \in Orders : Budget(o)
<1>1. DInit => Budgets
  <2> SUFFICES ASSUME DInit, NEW o \in Orders PROVE Budget(o)
    OBVIOUS
  <2>1. AssignmentsOf(o) = {} /\ crashes = 0
    BY DEF DInit, Init, AssignmentsOf
  <2> QED BY <2>1, FS_EmptySet DEF Budget
<1>2. DInv /\ Budgets /\ [DNext]_dVars => Budgets'
  BY BudgetNext
<1>3. Budgets => AssignmentsBounded
  BY DEF Budget, AssignmentsBounded
<1> QED BY <1>1, <1>2, <1>3, DInvHolds, PTL DEF DSpec
=============================================================================
