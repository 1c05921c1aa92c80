SPECIFICATION FairDSpec
CONSTANTS
    Orders = {o1}
    Customers = {u1}
    Shippers = {s1, s2}
    Requests = {r1}
    MaxUnfinished = 2
    EnoughOrders = 1
    MaxCrashes = 1
    Null = Null
    AtStore = AtStore
INVARIANTS
    DTypeOK
    NoOrderForgotten
    AssignmentsBounded
PROPERTIES
    CartsSpec
    EveryMessageAcked
CHECK_DEADLOCK FALSE
