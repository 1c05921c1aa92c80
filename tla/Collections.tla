---------------------------- MODULE Collections ----------------------------
(***************************************************************************)
(* The state that outlives a handler and a crash of the Node process: the  *)
(* MongoDB collections `carts` and `users` (of the users, the shippers'    *)
(* status) and the durable RabbitMQ queue NEW_ORDER_NOTIFY.  Every query   *)
(* and every findOneAndUpdate of the repositories is one atomic step.      *)
(*                                                                         *)
(* A coordinate is abstracted to whose place it is: AtStore, or the place  *)
(* of a shipper.  Items, prices, paths and distances are left out: no      *)
(* guard of the code reads them once the order is stored.                  *)
(***************************************************************************)
EXTENDS Naturals, FiniteSets

CONSTANTS
    Orders,         \* the ids MongoDB can give to carts
    Customers,      \* users of role CLIENT
    Shippers,       \* users of role SHIPPER
    Null,           \* the null of the documents
    AtStore         \* the coordinate of the store

ASSUME CollectionsAssumption ==
    /\ IsFiniteSet(Orders)
    /\ IsFiniteSet(Shippers)
    /\ Null \notin Orders \cup Customers \cup Shippers
    /\ AtStore \notin Shippers

VARIABLES
    carts,          \* the carts collection
    userStatus,     \* `status` of every shipper's user document
    queue           \* orders whose NEW_ORDER_NOTIFY message is ready in the queue

collections == <<carts, userStatus, queue>>

----------------------------------------------------------------------------
(* Entities *)

CartState == {"CREATED", "DELIVERING", "DONE"}
ShipperStatus == {"NONE", "DELIVERING", "ENOUGH"}
Coordinate == Shippers \cup {AtStore}

\* "ABSENT" marks an id that no document of the collection has.
Cart == [user : Customers \cup {Null},
         shipperId : Shippers \cup {Null},
         status : CartState \cup {"ABSENT"},
         deliveryCoord : Coordinate]

NoCart == [user |-> Null, shipperId |-> Null,
           status |-> "ABSENT", deliveryCoord |-> AtStore]

\* Mutant: the schema gives a new order no status.
NewCartWithoutStatus(u) == [user |-> u, shipperId |-> Null,
                            status |-> Null, deliveryCoord |-> AtStore]

\* What the schema defaults and createCart give a new document.
NewCart(u) == [user |-> u, shipperId |-> Null,
               status |-> "CREATED", deliveryCoord |-> AtStore]

InitCollections ==
    /\ carts = [o \in Orders |-> NoCart]
    /\ userStatus = [s \in Shippers |-> "NONE"]
    /\ queue = {}

----------------------------------------------------------------------------
(* Queries.  A filter on `state` matches every document: the schema's      *)
(* field is `status`, and `state: {$ne: v}` holds where there is no such   *)
(* field.                                                                  *)

Exists(o) == carts[o].status # "ABSENT"

CartsOf(u) == {o \in Orders : carts[o].user = u}

CartsOfShipper(s) == {o \in Orders : carts[o].shipperId = s}

DeliveringOrders(s) ==
    {o \in CartsOfShipper(s) : carts[o].status = "DELIVERING"}

Unfinished(S) == {o \in S : carts[o].status # "DONE"}

CollectionsTypeOK ==
    /\ carts \in [Orders -> Cart]
    /\ userStatus \in [Shippers -> ShipperStatus]
    /\ queue \subseteq Orders
=============================================================================
