------------------------------ MODULE Dispatch ------------------------------
(***************************************************************************)
(* QueuesService and DeliveryService: the consumer of NEW_ORDER_NOTIFY and *)
(* requestShipperLocations, which picks the shipper nearest to the store   *)
(* and writes him into the order.  Composed with CartService: the handlers *)
(* of module Carts run in the same process, on the same collections.       *)
(*                                                                         *)
(* The consumer has no prefetch limit, so every delivered message is       *)
(* handled at once, concurrently with the others.  createCart publishes an *)
(* order once and the broker delivers a message again only after the       *)
(* consumer's process is gone, so there is one job at most for an order.   *)
(*                                                                         *)
(* Geometry is left out: any shipper of the map may be the nearest.        *)
(***************************************************************************)
EXTENDS Carts

CONSTANT EnoughOrders       \* the 3 from which a shipper's status is ENOUGH

ASSUME DispatchAssumption == EnoughOrders \in Nat

VARIABLES
    jobs,           \* the consumer's handling of each order's message
    locations       \* shipperLocationsMap, in the memory of the process

dispatchVars == <<jobs, locations>>
dVars == <<vars, dispatchVars>>

Location == {"none", "mock", "reported"}

BeforeAssign == {"load", "wait", "route", "assign"}
AfterAssign == {"count", "mark"}
Unacked == BeforeAssign \cup AfterAssign \cup {"ack"}

\* from: storeCoord; shipper: nearestShipperId; count: activeOrderCount.
Job == [pc : Unacked \cup {"none", "acked"},
        from : Coordinate,
        shipper : Shippers \cup {Null},
        count : Nat,
        result : {"none", "decided", "failed"}]

NoJob == [pc |-> "none", from |-> AtStore, shipper |-> Null,
          count |-> 0, result |-> "none"]

JobAt(o, pc) == jobs[o].pc = pc

NoLocations == [s \in Shippers |-> "none"]

DInit ==
    /\ Init
    /\ jobs = [o \in Orders |-> NoJob]
    /\ locations = NoLocations

----------------------------------------------------------------------------
(* consumNewOrderNoti *)

\* Mutant: the message stays in the queue while it is handled.
LeaveInQueue(o) == queue' = queue

TakeFromQueue(o) == queue' = queue \ {o}

Consume(o) ==
    /\ o \in queue
    /\ TakeFromQueue(o)
    /\ jobs' = [jobs EXCEPT ![o] = [NoJob EXCEPT !.pc = "load"]]
    /\ UNCHANGED <<carts, userStatus, cartVars, locations>>

\* Mutant: the message is acknowledged before its order is handled.
AckableEarly(o) == JobAt(o, "load")

\* requestShipperLocations has returned, or caught what was thrown in it:
\* the nack branch is for a message that is not JSON, which nobody sends.
Ackable(o) == JobAt(o, "ack")

Ack(o) ==
    /\ Ackable(o)
    /\ jobs' = [jobs EXCEPT ![o] =
                  [NoJob EXCEPT !.pc = "acked", !.result = jobs[o].result]]
    /\ UNCHANGED <<vars, locations>>

----------------------------------------------------------------------------
(* requestShipperLocations *)

\* Loads the order and all shippers (the filter on `state` keeps the ENOUGH
\* ones in), asks each for his location and starts the wait of 2 seconds.
LoadOrder(o) ==
    /\ JobAt(o, "load")
    /\ jobs' = [jobs EXCEPT ![o].pc = "wait",
                            ![o].from = carts[o].deliveryCoord]
    /\ UNCHANGED <<vars, locations>>

\* Mutant: the nearest is chosen before the shippers with no location get one.
ChooseBeforeMocks(o) ==
    LET known == {s \in Shippers : locations[s] # "none"} IN
    /\ JobAt(o, "wait")
    /\ \E s \in IF known = {} THEN {Null} ELSE known :
          jobs' = [jobs EXCEPT ![o].pc = "route", ![o].shipper = s]
    /\ UNCHANGED <<vars, locations>>

\* A shipper with no location gets a random one, and the nearest is chosen
\* among all the entries of the map.
ChooseShipper(o) ==
    /\ JobAt(o, "wait")
    /\ locations' = [s \in Shippers |->
                        IF locations[s] = "none" THEN "mock" ELSE locations[s]]
    /\ \E s \in Shippers :
          jobs' = [jobs EXCEPT ![o].pc = "route", ![o].shipper = s]
    /\ UNCHANGED vars

RouteFound(o) ==
    /\ JobAt(o, "route")
    /\ jobs' = [jobs EXCEPT ![o].pc = "assign"]
    /\ UNCHANGED <<vars, locations>>

\* Mutant: the assignment also starts the delivery.
AssignAndDeliver(o) ==
    /\ JobAt(o, "assign")
    /\ carts' = [carts EXCEPT ![o].shipperId = jobs[o].shipper,
                              ![o].deliveryCoord = jobs[o].shipper,
                              ![o].status = "DELIVERING"]
    /\ assigned' = assigned \cup {<<o, jobs[o].shipper, carts[o].status>>}
    /\ jobs' = [jobs EXCEPT ![o].pc = "count"]
    /\ UNCHANGED <<userStatus, queue, req, announced, crashes, locations>>

AssignOrder(o) ==
    /\ JobAt(o, "assign")
    /\ Assign(o, jobs[o].shipper)
    /\ jobs' = [jobs EXCEPT ![o].pc = "count"]
    /\ UNCHANGED <<userStatus, queue, req, announced, crashes, locations>>

\* The filter on `state` lets the DONE orders in.
CountOrders(o) ==
    /\ JobAt(o, "count")
    /\ jobs' = [jobs EXCEPT ![o].pc = "mark",
                    ![o].count = Cardinality(CartsOfShipper(jobs[o].shipper))]
    /\ UNCHANGED <<vars, locations>>

\* Finds the shipper and writes his document back, then emits
\* ORDER_DECIDE_SHIPPER.  Of the document only the status is kept, so that
\* the find and the write are one step.
MarkShipper(o) ==
    /\ JobAt(o, "mark")
    /\ userStatus' = [userStatus EXCEPT ![jobs[o].shipper] =
                         IF jobs[o].count < EnoughOrders THEN "DELIVERING" ELSE "ENOUGH"]
    /\ jobs' = [jobs EXCEPT ![o].pc = "ack", ![o].result = "decided"]
    /\ UNCHANGED <<carts, queue, cartVars, locations>>

\* A query fails, the map service does not answer, its distance is 0
\* ('Location not valid!') or there is no shipper to choose: the catch logs
\* it and the function returns.
JobFails(o) ==
    /\ jobs[o].pc \in BeforeAssign \cup AfterAssign
    /\ JobAt(o, "wait") => Shippers = {}
    /\ jobs' = [jobs EXCEPT ![o].pc = "ack", ![o].result = "failed"]
    /\ UNCHANGED <<vars, locations>>

\* handleShipperUpdateLocationInternal: a report is only taken from a
\* shipper the map already has.
ReportLocation(s) ==
    /\ locations[s] # "none"
    /\ locations' = [locations EXCEPT ![s] = "reported"]
    /\ UNCHANGED <<vars, jobs>>

----------------------------------------------------------------------------

\* Mutant: messages are consumed with noAck, none comes back.
RedeliveredNone == {}

Redelivered == {o \in Orders : jobs[o].pc \in Unacked}

DCrash ==
    /\ crashes < MaxCrashes
    /\ crashes' = crashes + 1
    /\ req' = [r \in Requests |-> Idle]
    /\ queue' = queue \cup Redelivered
    /\ jobs' = [o \in Orders |-> IF jobs[o].pc \in Unacked THEN NoJob ELSE jobs[o]]
    /\ locations' = NoLocations
    /\ UNCHANGED <<carts, userStatus, announced, assigned>>

JobStep(o) ==
    \/ LoadOrder(o)
    \/ ChooseShipper(o)
    \/ RouteFound(o)
    \/ AssignOrder(o)
    \/ CountOrders(o)
    \/ MarkShipper(o)
    \/ JobFails(o)
    \/ Ack(o)

CartServiceStep ==
    /\ \E r \in Requests : HandlerStep(r) \/ RequestFails(r)
    /\ UNCHANGED dispatchVars

DNext ==
    \/ CartServiceStep
    \/ \E o \in Orders : Consume(o) \/ JobStep(o)
    \/ \E s \in Shippers : ReportLocation(s)
    \/ DCrash

DSpec == DInit /\ [][DNext]_dVars

\* The broker delivers a ready message to the connected consumer, and Node
\* resumes a handler whose query was answered or rejected.  The request to
\* the map service has no timeout: nothing makes it end.
Fairness ==
    \A o \in Orders :
        /\ WF_dVars(Consume(o))
        /\ WF_dVars(~JobAt(o, "route") /\ JobStep(o))

FairDSpec == DSpec /\ Fairness

----------------------------------------------------------------------------
(* Type invariant *)

DTypeOK ==
    /\ TypeOK
    /\ jobs \in [Orders -> Job]
    /\ locations \in [Shippers -> Location]

(* Properties *)

\* DeliveryService does to the collections no more than module Carts lets
\* its environment do, so what is shown of Carts holds of the composition.
CartsSpec == Spec

\* An order a message was sent for is never forgotten: while it has no
\* shipper its message is in the queue or its job is before the assignment,
\* or the job failed (and was acknowledged all the same), through crashes
\* and redeliveries.
NoOrderForgotten ==
    \A o \in Orders :
        /\ o \in queue \/ ~JobAt(o, "none")
        /\ carts[o].shipperId = Null
        => o \in queue \/ jobs[o].pc \in BeforeAssign \/ jobs[o].result = "failed"

AssignmentsOf(o) == {a \in assigned : a[1] = o}

\* A redelivered message runs the whole dispatch again, and may hand the
\* order to another shipper; but that takes a crash each time: an order is
\* handed out at most once in a life of the process.
AssignmentsBounded ==
    \A o \in Orders : Cardinality(AssignmentsOf(o)) <= crashes + 1

\* Every message that reaches the queue is handled to the acknowledgement,
\* across crashes of the process as long as these stop, unless its request
\* to the map service hangs.
EveryMessageAcked ==
    \A o \in Orders :
        o \in queue ~> (JobAt(o, "acked") \/ []JobAt(o, "route"))

----------------------------------------------------------------------------
(* What messages and logs say, and the code does not keep *)

\* 'Failed to send order:' and the nack that requeues (queue.service.ts:87-88):
\* a message is only acknowledged when its order has been dispatched.
AckedMeansDecided ==
    \A o \in Orders : JobAt(o, "acked") => jobs[o].result = "decided"
=============================================================================
