---------------------------- MODULE Rooms_proofs ----------------------------
(***************************************************************************)
(* Proofs about Rooms: with the gateway beside them the handlers still do  *)
(* what module Carts describes; no socket is in the room of an order its   *)
(* shipper has nothing to do with; and a joined socket hears of what its   *)
(* shipper delivers, with the exceptions DeliveriesHeard names.            *)
(***************************************************************************)
EXTENDS Rooms, Carts_proofs

----------------------------------------------------------------------------
(* The composition implements Carts *)

LEMMA OtherHandlerRefines ==
    ASSUME NEW r \in Requests, OtherHandlerStep(r) PROVE Next /\ UNCHANGED socketVars
BY DEF OtherHandlerStep, RestOfAccept, AcceptStep, MoveStep, HandlerStep, Next

LEMMA MoveRefines ==
    ASSUME NEW r \in Requests, NEW k \in Sockets, NEW o \in Orders,
           socket[k].who \in Shippers, MoveFromSocket(r, k, o)
    PROVE  Next /\ UNCHANGED socketVars
BY DEF MoveFromSocket, MoveStep, HandlerStep, Next

\* An open socket is a shipper's.
SocketTyped ==
    /\ socket \in [Sockets -> Socket]
    /\ rooms \in [Sockets -> SUBSET Orders]
    /\ before \in [Sockets -> SUBSET Orders]
    /\ \A k \in Sockets : IsOpen(k) => socket[k].who \in Shippers

\* A step of a socket or of the gateway leaves the variables of Carts as
\* they are, or is a crash.
LEMMA StepRefines == SocketTyped /\ [RNext]_rVars => [Next]_vars
<1> SUFFICES ASSUME SocketTyped, [RNext]_rVars PROVE [Next]_vars OBVIOUS
<1>1. ASSUME NEW k \in Sockets, ConnectionStep(k) PROVE [Next]_vars
  BY <1>1 DEF ConnectionStep, Connect, FindCurrentOrder, JoinRooms, Disconnect,
              ConnectionFails, RCrash, Next
<1>2. ASSUME NEW r \in Requests, AcceptAndJoin(r) PROVE Next
  BY <1>2 DEF AcceptAndJoin, AcceptStep, HandlerStep, Next
<1>3. ASSUME NEW r \in Requests, OtherHandlerStep(r) PROVE Next
  BY <1>3, OtherHandlerRefines
<1>4. ASSUME NEW r \in Requests, NEW k \in Sockets, NEW o \in Orders,
             MoveFromSocket(r, k, o)
      PROVE  Next
  BY <1>4, MoveRefines DEF MoveFromSocket, SocketTyped
<1>5. OtherDispatcherStep \/ RCrash => Next
  BY DEF OtherDispatcherStep, RCrash, Next
<1>6. UNCHANGED rVars => UNCHANGED vars
  BY DEF rVars
<1> QED BY <1>1, <1>2, <1>3, <1>4, <1>5, <1>6 DEF RNext

----------------------------------------------------------------------------
(* The invariant *)

\* What a socket knows, or will find where it is going to look: the rooms it
\* is in are of orders its shipper was given, and it has every announcement
\* that came after it.
SocketKnown(k) ==
    /\ IsOpen(k) /\ socket[k].found # Null => Involved(socket[k].found, socket[k].who)
    /\ \A o \in rooms[k] : Involved(o, socket[k].who)
    /\ IsOpen(k) => AnnouncedTo(socket[k].who) \subseteq rooms[k] \cup before[k]
    /\ socket[k].pc = "joined" => rooms[k] # {}
    /\ ~IsOpen(k) => rooms[k] = {}

RInv ==
    /\ Typed
    /\ Known
    /\ SocketTyped
    /\ \A k \in Sockets : SocketKnown(k)

LEMMA InitRInv == RInit => RInv
<1> SUFFICES ASSUME RInit PROVE RInv OBVIOUS
<1>1. Typed /\ Known
  BY InitTyped, InitKnown DEF RInit
<1>2. SocketTyped /\ \A k \in Sockets : SocketKnown(k)
  BY DEF RInit, NoSockets, SocketTyped, SocketKnown, Closed, Socket, IsOpen
<1> QED BY <1>1, <1>2 DEF RInv

\* What was announced or assigned stays so, and only acceptOrder announces.
LEMMA HistoriesGrow ==
    ASSUME [Next]_vars
    PROVE  announced \subseteq announced' /\ assigned \subseteq assigned'
<1> USE DEF vars, collections, cartVars, history
<1>1. ASSUME NEW r \in Requests, HandlerStep(r) \/ RequestFails(r)
      PROVE  announced \subseteq announced' /\ assigned \subseteq assigned'
  BY <1>1 DEF HandlerStep, RequestFails,
       CreateStep, CreateCheck, CreateNotFound, CreateInsert, CreatePublish,
       AcceptStep, AcceptCheck, AcceptLoad, AcceptRefused, AcceptSave,
       CompleteStep, CompleteLoad, CompleteMark, CompleteSave,
       MoveStep, MoveLoad, MoveSave
<1>2. DispatcherStep => announced \subseteq announced' /\ assigned \subseteq assigned'
  BY DEF DispatcherStep, DispatcherAssigns, Assign, DispatcherMarks, DispatcherTakes
<1>3. Crash \/ UNCHANGED vars => announced' = announced /\ assigned' = assigned
  BY DEF Crash
<1> QED BY <1>1, <1>2, <1>3 DEF Next

LEMMA OthersAnnounceNothing ==
    /\ \A r \in Requests : OtherHandlerStep(r) => UNCHANGED announced
    /\ \A r \in Requests, k \in Sockets, o \in Orders :
          MoveFromSocket(r, k, o) => UNCHANGED announced
    /\ OtherDispatcherStep \/ Crash => UNCHANGED announced
<1> USE DEF collections, cartVars, history
<1>1. ASSUME NEW r \in Requests, OtherHandlerStep(r) PROVE UNCHANGED announced
  BY <1>1 DEF OtherHandlerStep, RestOfAccept, RequestFails,
       CreateStep, CreateCheck, CreateNotFound, CreateInsert, CreatePublish,
       AcceptCheck, AcceptRefused, AcceptSave,
       CompleteStep, CompleteLoad, CompleteMark, CompleteSave, MoveSave
<1>2. ASSUME NEW r \in Requests, NEW k \in Sockets, NEW o \in Orders,
             MoveFromSocket(r, k, o)
      PROVE  UNCHANGED announced
  BY <1>2 DEF MoveFromSocket, MoveLoad
<1>3. OtherDispatcherStep \/ Crash => UNCHANGED announced
  BY DEF OtherDispatcherStep, DispatcherStep, DispatcherAssigns, Assign,
         DispatcherMarks, DispatcherTakes, Crash
<1> QED BY <1>1, <1>2, <1>3

\* A socket that nothing happens to.
LEMMA SocketKept ==
    ASSUME NEW k \in Sockets, SocketKnown(k),
           announced' = announced, assigned \subseteq assigned',
           socket'[k] = socket[k], rooms'[k] = rooms[k], before'[k] = before[k]
    PROVE  SocketKnown(k)'
BY DEF SocketKnown, Involved, IsOpen, AnnouncedTo

\* A connection that is closed knows nothing.
LEMMA SocketClosed ==
    ASSUME NEW k \in Sockets, socket'[k] = Closed, rooms'[k] = {}
    PROVE  SocketKnown(k)'
BY DEF SocketKnown, IsOpen, Closed

LEMMA ConnectionRInv ==
    ASSUME RInv, NEW k \in Sockets, ConnectionStep(k)
    PROVE  SocketTyped' /\ \A j \in Sockets : SocketKnown(j)'
<1>t. /\ socket \in [Sockets -> Socket]
      /\ rooms \in [Sockets -> SUBSET Orders]
      /\ before \in [Sockets -> SUBSET Orders]
      /\ \A j \in Sockets : IsOpen(j) => socket[j].who \in Shippers
      /\ \A j \in Sockets : SocketKnown(j)
  BY DEF RInv, SocketTyped
<1>1. CASE \E s \in Shippers : Connect(k, s)
  <2>1. PICK s \in Shippers : Connect(k, s) BY <1>1
  <2>2. SocketTyped'
    BY <2>1, <1>t DEF Connect, SocketTyped, Socket, IsOpen, AnnouncedTo
  <2>3. rooms[k] = {} /\ UNCHANGED <<announced, assigned, rooms>>
    BY <1>t, <2>1 DEF Connect, SocketKnown, vars, cartVars, history
  <2>4. /\ socket'[k] = [pc |-> "connecting", who |-> s, found |-> Null]
        /\ before'[k] = AnnouncedTo(s)
        /\ \A j \in Sockets \ {k} : socket'[j] = socket[j] /\ before'[j] = before[j]
    BY <2>1, <1>t DEF Connect
  <2>5. SocketKnown(k)'
    BY <2>3, <2>4 DEF SocketKnown, IsOpen, AnnouncedTo
  <2> QED BY <2>2, <2>3, <2>4, <2>5, <1>t, SocketKept
<1>2. CASE FindCurrentOrder(k)
  <2>1. PICK o \in DeliveringOrders(socket[k].who) \cup {Null} :
           socket' = [socket EXCEPT ![k].pc = "found", ![k].found = o]
    BY <1>2 DEF FindCurrentOrder
  <2>2. /\ socket[k].pc = "connecting" /\ socket[k].who \in Shippers
        /\ UNCHANGED <<announced, assigned, rooms, before>>
    BY <1>2, <1>t DEF FindCurrentOrder, vars, cartVars, history, IsOpen
  <2>3. /\ socket'[k] = [pc |-> "found", who |-> socket[k].who, found |-> o]
        /\ \A j \in Sockets \ {k} : socket'[j] = socket[j]
    BY <2>1, <1>t DEF Socket
  <2>4. o # Null => o \in Orders /\ Involved(o, socket[k].who)
    BY <2>2, CollectionsAssumption
       DEF DeliveringOrders, CartsOfShipper, RInv, Known, OrderKnown
  <2>5. SocketTyped'
    BY <2>1, <2>2, <2>3, <2>4, <1>t DEF SocketTyped, Socket, IsOpen
  <2>6. SocketKnown(k)'
    <3>1. SocketKnown(k) /\ socket'[k].pc = "found" /\ socket'[k].found = o
          /\ socket'[k].who = socket[k].who
      BY <2>3, <1>t
    <3> QED BY <2>2, <2>4, <3>1 DEF SocketKnown, IsOpen, AnnouncedTo, Involved
  <2> QED BY <2>2, <2>3, <2>5, <2>6, <1>t, SocketKept
<1>3. CASE JoinRooms(k)
  <2>1. /\ socket[k].pc = "found" /\ socket[k].found # Null
        /\ socket[k].found \in Orders /\ socket[k].who \in Shippers
        /\ UNCHANGED <<announced, assigned, before>>
    BY <1>3, <1>t DEF JoinRooms, vars, cartVars, history, IsOpen, Socket
  <2>2. /\ socket'[k] = [socket[k] EXCEPT !.pc = "joined"]
        /\ rooms'[k] = rooms[k] \cup {socket[k].found}
        /\ \A j \in Sockets \ {k} : socket'[j] = socket[j] /\ rooms'[j] = rooms[j]
    BY <1>3, <1>t DEF JoinRooms
  <2>3. SocketTyped'
    BY <1>3, <2>1, <1>t DEF JoinRooms, SocketTyped, Socket, IsOpen
  <2>4. SocketKnown(k)'
    BY <2>1, <2>2, <1>t DEF SocketKnown, IsOpen, AnnouncedTo, Involved, Socket
  <2> QED BY <2>1, <2>2, <2>3, <2>4, <1>t, SocketKept
<1>4. CASE Disconnect(k)
  <2>1. UNCHANGED <<announced, assigned>>
    BY <1>4 DEF Disconnect, vars, cartVars, history
  <2>2. /\ socket'[k] = Closed /\ rooms'[k] = {}
        /\ \A j \in Sockets \ {k} : /\ socket'[j] = socket[j]
                                    /\ rooms'[j] = rooms[j]
                                    /\ before'[j] = before[j]
    BY <1>4, <1>t DEF Disconnect
  <2>3. SocketTyped'
    BY <1>4, <1>t DEF Disconnect, SocketTyped, Socket, Closed, IsOpen
  <2> QED BY <2>1, <2>2, <2>3, <1>t, SocketKept, SocketClosed
<1>5. CASE ConnectionFails(k)
  <2>1. \A j \in Sockets : SocketKnown(j)'
    BY <1>5, SocketClosed DEF ConnectionFails, RCrash, CloseAll
  <2>2. SocketTyped'
    BY <1>5 DEF ConnectionFails, RCrash, CloseAll, SocketTyped, Socket, Closed, IsOpen
  <2> QED BY <2>1, <2>2
<1> QED BY <1>1, <1>2, <1>3, <1>4, <1>5 DEF ConnectionStep

\* The announcement of acceptOrder reaches every socket of the shipper.
LEMMA AcceptRInv ==
    ASSUME RInv, NEW r \in Requests, AcceptAndJoin(r)
    PROVE  SocketTyped' /\ \A k \in Sockets : SocketKnown(k)'
<1>t. /\ socket \in [Sockets -> Socket]
      /\ rooms \in [Sockets -> SUBSET Orders]
      /\ before \in [Sockets -> SUBSET Orders]
      /\ \A j \in Sockets : IsOpen(j) => socket[j].who \in Shippers
      /\ \A j \in Sockets : SocketKnown(j)
  BY DEF RInv, SocketTyped
<1>1. PICK o \in Orders, s \in Shippers : o = req[r].order /\ s = req[r].who
  BY DEF RInv, Typed, RequestOK, AcceptAndJoin, AcceptLoad, At
<1>2. announced' = announced \cup {<<o, s>>} /\ UNCHANGED <<assigned, socket, before>>
  BY <1>1 DEF AcceptAndJoin, AcceptLoad
<1>3. \A k \in Sockets : rooms'[k] = IF IsSocketOf(k, s) THEN rooms[k] \cup {o}
                                                         ELSE rooms[k]
  BY <1>1 DEF AcceptAndJoin, JoinSocketsOf
<1>4. SocketTyped'
  BY <1>t, <1>1, <1>2 DEF AcceptAndJoin, JoinSocketsOf, SocketTyped, IsOpen
<1>5. ASSUME NEW k \in Sockets PROVE SocketKnown(k)'
  <2>1. SocketKnown(k) /\ socket'[k] = socket[k] /\ before'[k] = before[k]
    BY <1>t, <1>2
  <2>2. CASE IsSocketOf(k, s)
    <3>1. IsOpen(k) /\ socket[k].who = s /\ rooms'[k] = rooms[k] \cup {o}
      BY <1>3, <2>2 DEF IsSocketOf
    <3>2. \A p \in rooms'[k] : Involved(p, s)'
      BY <2>1, <3>1, <1>2 DEF SocketKnown, Involved
    <3>3. AnnouncedTo(s)' \subseteq rooms'[k] \cup before'[k]
      BY <2>1, <3>1, <1>2 DEF SocketKnown, AnnouncedTo
    <3> QED BY <2>1, <3>1, <3>2, <3>3, <1>2 DEF SocketKnown, IsOpen, Involved
  <2>3. CASE ~IsSocketOf(k, s)
    <3>1. rooms'[k] = rooms[k] BY <1>3, <2>3
    <3>2. IsOpen(k) => AnnouncedTo(socket[k].who)' = AnnouncedTo(socket[k].who)
      BY <2>3, <1>2 DEF IsSocketOf, AnnouncedTo
    <3> QED BY <2>1, <3>1, <3>2, <1>2 DEF SocketKnown, IsOpen, Involved
  <2> QED BY <2>2, <2>3
<1> QED BY <1>4, <1>5

LEMMA NextRInv == RInv /\ [RNext]_rVars => RInv'
<1> SUFFICES ASSUME RInv, [RNext]_rVars PROVE RInv' OBVIOUS
<1>1. Typed' /\ Known'
  BY StepRefines, NextTyped, NextKnown DEF RInv
<1>2. ASSUME UNCHANGED socketVars, UNCHANGED announced
      PROVE  SocketTyped' /\ \A k \in Sockets : SocketKnown(k)'
  <2>1. assigned \subseteq assigned'
    BY StepRefines, HistoriesGrow DEF RInv
  <2> QED BY <1>2, <2>1, SocketKept DEF RInv, socketVars, SocketTyped, IsOpen
<1>3. CASE \E k \in Sockets : ConnectionStep(k)
  BY <1>1, <1>3, ConnectionRInv DEF RInv
<1>4. CASE \E r \in Requests : AcceptAndJoin(r)
  BY <1>1, <1>4, AcceptRInv DEF RInv
<1>5. CASE \E r \in Requests : OtherHandlerStep(r)
  BY <1>1, <1>2, <1>5, OthersAnnounceNothing DEF RInv, OtherHandlerStep
<1>6. CASE \E r \in Requests, k \in Sockets, o \in Orders : MoveFromSocket(r, k, o)
  BY <1>1, <1>2, <1>6, OthersAnnounceNothing DEF RInv, MoveFromSocket
<1>7. CASE OtherDispatcherStep
  BY <1>1, <1>2, <1>7, OthersAnnounceNothing DEF RInv, OtherDispatcherStep
<1>8. CASE RCrash
  <2>1. \A k \in Sockets : SocketKnown(k)'
    BY <1>8, SocketClosed DEF RCrash, CloseAll
  <2>2. SocketTyped'
    BY <1>8 DEF RCrash, CloseAll, SocketTyped, Socket, Closed, IsOpen
  <2> QED BY <1>1, <2>1, <2>2 DEF RInv
<1>9. CASE UNCHANGED rVars
  BY <1>1, <1>2, <1>9 DEF RInv, rVars, vars, cartVars, history
<1> QED BY <1>3, <1>4, <1>5, <1>6, <1>7, <1>8, <1>9 DEF RNext

LEMMA RInvHolds == RSpec => []RInv
BY InitRInv, NextRInv, PTL DEF RSpec

----------------------------------------------------------------------------
(* The theorems *)

\* The composition implements Carts: what the gateway adds is invisible to
\* the collections, and a connection that fails is one more crash.
THEOREM RoomsImplementCarts == RSpec => CartsSpec
<1>1. RInit => Init
  BY DEF RInit
<1>2. RInv /\ [RNext]_rVars => [Next]_vars
  BY StepRefines DEF RInv
<1> QED BY <1>1, <1>2, RInvHolds, PTL DEF RSpec, CartsSpec, Spec

\* What is proved of Carts holds beside the sockets, also when a failed
\* connection ends the process.
THEOREM RoomsKeepTheBounds ==
    RSpec => /\ [](LimitOvershootBounded /\ DeliveriesBounded
                     /\ HeldOrdersAnnounced /\ CoordOfAnInvolvedShipper)
             /\ OrderLifeSpec
BY RoomsImplementCarts, LimitOvershootIsBounded, DeliveriesAreBounded,
   HeldOrdersAreAnnounced, CoordsAreOfInvolvedShippers, CartsImplementOrderLife,
   PTL DEF CartsSpec

\* Every variable of the composition keeps its type.
THEOREM RoomsTypeCorrect == RSpec => []RTypeOK
<1>1. RInv => RTypeOK
  BY DEF RInv, Typed, SocketTyped, RTypeOK
<1> QED BY <1>1, RInvHolds, PTL

\* No socket hears of an order its shipper was not given.
THEOREM RoomsAreOfInvolvedShippers == RSpec => []RoomsOfInvolvedShippers
<1>1. RInv => RoomsOfInvolvedShippers
  BY DEF RInv, SocketKnown, RoomsOfInvolvedShippers
<1> QED BY <1>1, RInvHolds, PTL

\* A joined socket misses a delivery of its shipper only if the dispatcher
\* imposed it on him, or he had taken it before he connected and was found
\* to have another.
THEOREM DeliveriesAreHeard == RSpec => []DeliveriesHeard
<1>1. ASSUME RInv PROVE DeliveriesHeard
  <2> SUFFICES ASSUME NEW k \in Sockets, socket[k].pc = "joined",
                      NEW o \in DeliveringOrders(socket[k].who) \ rooms[k],
                      ~Imposed(o, socket[k].who)
               PROVE  o \in before[k] /\ rooms[k] # {}
    BY DEF DeliveriesHeard
  <2>1. <<o, socket[k].who>> \in announced
    BY <1>1 DEF RInv, Known, OrderKnown, DeliveringOrders, CartsOfShipper
  <2>2. SocketKnown(k)
    BY <1>1 DEF RInv
  <2> QED BY <2>1, <2>2 DEF SocketKnown, IsOpen, AnnouncedTo, DeliveringOrders,
                            CartsOfShipper
<1> QED BY <1>1, RInvHolds, PTL
=============================================================================
