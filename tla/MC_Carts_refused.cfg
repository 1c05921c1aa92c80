SPECIFICATION Spec
CONSTANTS
    Orders = {o1, o2, o3}
    Customers = {u1}
    Shippers = {s1}
    Requests = {r1}
    MaxUnfinished = 3
    MaxAssigns = 0
    MaxCrashes = 0
    Null = Null
    AtStore = AtStore
INVARIANT RefusedOnlyForUnfinished
CONSTRAINT FewAssigns
CHECK_DEADLOCK FALSE
