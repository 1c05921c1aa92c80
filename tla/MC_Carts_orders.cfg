SPECIFICATION Spec
CONSTANTS
    Orders = {o1, o2, o3}
    Customers = {u1}
    Shippers = {s1, s2}
    Requests = {r1, r2}
    MaxUnfinished = 1
    MaxAssigns = 1
    MaxCrashes = 1
    Null = Null
    AtStore = AtStore
INVARIANTS
    TypeOK
    LimitOvershootBounded
    DeliveriesBounded
    HeldOrdersAnnounced
    CoordOfAnInvolvedShipper
PROPERTIES
    OrderLifeSpec
SYMMETRY Symmetry
CONSTRAINT FewAssigns
CHECK_DEADLOCK FALSE
VIEW WhatCartServiceReads
