------------------------------- MODULE Rooms -------------------------------
(***************************************************************************)
(* ShipperGateway: the sockets of the shippers and the rooms of the orders *)
(* they hear about, composed with the handlers of module Carts that run in *)
(* the same process.  A socket is in the gateway's map from the moment the *)
(* token middleware lets it in; handleConnection then awaits a query       *)
(* before it joins the rooms, and acceptOrder announces an order before it *)
(* saves it, so each can fall between the two halves of the other.         *)
(*                                                                         *)
(* handleConnection reads the id of the order it found before it looks     *)
(* whether it found one: without one its promise is rejected, nobody       *)
(* handles that, and Node ends the process.                                *)
(***************************************************************************)
EXTENDS Carts

CONSTANT Sockets            \* slots for the connections held at the same time

VARIABLES
    socket,         \* the connection in each slot
    rooms,          \* the orders whose room it has joined
    before          \* what had been announced to its shipper when it came

socketVars == <<socket, rooms, before>>
rVars == <<vars, socketVars>>

\* found: currentOrder.
Socket == [pc : {"closed", "connecting", "found", "joined"},
           who : Shippers \cup {Null},
           found : Orders \cup {Null}]

Closed == [pc |-> "closed", who |-> Null, found |-> Null]

IsOpen(k) == socket[k].pc # "closed"
IsSocketOf(k, s) == IsOpen(k) /\ socket[k].who = s

AnnouncedTo(s) == {o \in Orders : <<o, s>> \in announced}

NoSockets ==
    /\ socket = [k \in Sockets |-> Closed]
    /\ rooms = [k \in Sockets |-> {}]
    /\ before = [k \in Sockets |-> {}]

RInit == Init /\ NoSockets

----------------------------------------------------------------------------
(* Connections *)

\* The token middleware called next() for a token of shipper s.  A token it
\* refuses leaves no trace.
Connect(k, s) ==
    /\ ~IsOpen(k)
    /\ socket' = [socket EXCEPT ![k] = [pc |-> "connecting", who |-> s, found |-> Null]]
    /\ before' = [before EXCEPT ![k] = AnnouncedTo(s)]
    /\ UNCHANGED <<vars, rooms>>

\* getCurrentOrderByShipper: any one of the orders he is delivering.
FindCurrentOrder(k) ==
    LET current == DeliveringOrders(socket[k].who) IN
    /\ socket[k].pc = "connecting"
    /\ \E o \in IF current = {} THEN {Null} ELSE current :
          socket' = [socket EXCEPT ![k].pc = "found", ![k].found = o]
    /\ UNCHANGED <<vars, rooms, before>>

\* Mutant: the check for null is gone.
JoinUnchecked(k) ==
    /\ socket[k].pc = "found"
    /\ socket' = [socket EXCEPT ![k].pc = "joined"]
    /\ rooms' = [rooms EXCEPT ![k] = @ \cup {socket[k].found}]
    /\ UNCHANGED <<vars, before>>

JoinRooms(k) ==
    /\ socket[k].pc = "found"
    /\ socket[k].found # Null
    /\ socket' = [socket EXCEPT ![k].pc = "joined"]
    /\ rooms' = [rooms EXCEPT ![k] = @ \cup {socket[k].found}]
    /\ UNCHANGED <<vars, before>>

\* Mutant: the slot keeps the rooms of the connection that ended.
LeaveOwnRoomOnly(k) ==
    /\ IsOpen(k)
    /\ socket' = [socket EXCEPT ![k] = Closed]
    /\ UNCHANGED <<vars, rooms, before>>

\* A socket that closes leaves its rooms; what its handleConnection still
\* does reaches nobody.
Disconnect(k) ==
    /\ IsOpen(k)
    /\ socket' = [socket EXCEPT ![k] = Closed]
    /\ rooms' = [rooms EXCEPT ![k] = {}]
    /\ before' = [before EXCEPT ![k] = {}]
    /\ UNCHANGED vars

CloseAll ==
    /\ socket' = [k \in Sockets |-> Closed]
    /\ rooms' = [k \in Sockets |-> {}]
    /\ before' = [k \in Sockets |-> {}]

RCrash == Crash /\ CloseAll

\* currentOrder._id of null, in the log line before the check.
ConnectionFails(k) ==
    /\ socket[k].pc = "found"
    /\ socket[k].found = Null
    /\ RCrash

----------------------------------------------------------------------------
(* The handlers of Carts that meet the sockets *)

\* Mutant: the loop keeps one socket of the shipper and joins that.
JoinOne(o, s) ==
    \E k \in {j \in Sockets : IsSocketOf(j, s)} \cup {Null} :
        rooms' = [j \in Sockets |-> IF j = k THEN rooms[j] \cup {o} ELSE rooms[j]]

\* handleDeliverOrder: every socket of the shipper joins the order's room.
\* Sockets whose handleConnection still waits are in the map as well.
JoinSocketsOf(o, s) ==
    rooms' = [k \in Sockets |->
                 IF IsSocketOf(k, s) THEN rooms[k] \cup {o} ELSE rooms[k]]

\* emit runs the gateway's listener before it returns.
AcceptAndJoin(r) ==
    /\ AcceptLoad(r)
    /\ JoinSocketsOf(req[r].order, req[r].who)
    /\ UNCHANGED <<socket, before>>

\* 'shipper-update-location': the shipper is the one the socket belongs to.
MoveFromSocket(r, k, o) ==
    /\ IsOpen(k)
    /\ MoveLoad(r, socket[k].who, o)
    /\ UNCHANGED socketVars

\* The rest of Carts does not touch the sockets.
RestOfAccept(r) ==
    \/ \E s \in Shippers, o \in Orders : AcceptCheck(r, s, o)
    \/ AcceptRefused(r)
    \/ AcceptSave(r)

OtherHandlerStep(r) ==
    /\ \/ CreateStep(r)
       \/ RestOfAccept(r)
       \/ CompleteStep(r)
       \/ MoveSave(r)
       \/ RequestFails(r)
    /\ UNCHANGED socketVars

OtherDispatcherStep == DispatcherStep /\ UNCHANGED socketVars

----------------------------------------------------------------------------

ConnectionStep(k) ==
    \/ \E s \in Shippers : Connect(k, s)
    \/ FindCurrentOrder(k)
    \/ JoinRooms(k)
    \/ Disconnect(k)
    \/ ConnectionFails(k)

RNext ==
    \/ \E k \in Sockets : ConnectionStep(k)
    \/ \E r \in Requests : AcceptAndJoin(r) \/ OtherHandlerStep(r)
    \/ \E r \in Requests, k \in Sockets, o \in Orders : MoveFromSocket(r, k, o)
    \/ OtherDispatcherStep
    \/ RCrash

RSpec == RInit /\ [][RNext]_rVars

----------------------------------------------------------------------------
(* Type invariant *)

RTypeOK ==
    /\ TypeOK
    /\ socket \in [Sockets -> Socket]
    /\ rooms \in [Sockets -> SUBSET Orders]
    /\ before \in [Sockets -> SUBSET Orders]

(* Properties *)

\* The gateway and the handlers do to the collections no more than module
\* Carts allows, the process that a failed connection ends included: what
\* is shown of Carts holds beside the sockets.
CartsSpec == Spec

\* The room of an order is told where the order is and where it should be
\* reported from.  Only sockets of shippers who took the order, or whom the
\* dispatcher gave it, are ever in it, whatever connections, accepts,
\* assignments and crashes overtake each other.
RoomsOfInvolvedShippers ==
    \A k \in Sockets : \A o \in rooms[k] : Involved(o, socket[k].who)

\* A shipper's socket that has joined hears of every order he is delivering,
\* with two exceptions: an order the dispatcher imposed on him is announced
\* to nobody, and of the orders he had taken before he connected one is
\* enough for handleConnection.  An accept that falls between the two halves
\* of a connection, or a connection between the two halves of an accept, is
\* no third one.
DeliveriesHeard ==
    \A k \in Sockets :
        socket[k].pc = "joined" =>
            \A o \in DeliveringOrders(socket[k].who) \ rooms[k] :
                \/ Imposed(o, socket[k].who)
                \/ o \in before[k] /\ rooms[k] # {}

----------------------------------------------------------------------------
(* What a check in the code says, and the code does not keep *)

\* "if (!isNil(currentOrder))" (shipper.gateway.ts:51): a shipper without an
\* order to deliver can connect, and joins his own rooms.
IdleShipperCanConnect == [][\A k \in Sockets : ~ConnectionFails(k)]_rVars
=============================================================================
