SPECIFICATION Spec
CONSTANTS
    Orders = {o1}
    Customers = {u1}
    Shippers = {s1, s2}
    Requests = {r1, r2}
    MaxUnfinished = 3
    MaxAssigns = 0
    MaxCrashes = 0
    Null = Null
    AtStore = AtStore
PROPERTY OnlyCreatedOrdersAccepted
CONSTRAINT FewAssigns
CHECK_DEADLOCK FALSE
