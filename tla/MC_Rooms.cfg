SPECIFICATION RSpec
CONSTANTS
    Orders = {o1, o2}
    Customers = {u1}
    Shippers = {s1, s2}
    Requests = {r1}
    Sockets = {k1, k2}
    MaxUnfinished = 2
    MaxTaken = 2
    MaxCrashes = 1
    Null = Null
    AtStore = AtStore
INVARIANTS
    RTypeOK
    RoomsOfInvolvedShippers
    DeliveriesHeard
SYMMETRY Symmetry
CONSTRAINT FewTaken
CHECK_DEADLOCK FALSE
VIEW WhatIsRead
