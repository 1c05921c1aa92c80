SPECIFICATION DSpec
CONSTANTS
    Orders = {o1}
    Customers = {u1}
    Shippers = {s1}
    Requests = {r1}
    MaxUnfinished = 3
    EnoughOrders = 3
    MaxCrashes = 0
    Null = Null
    AtStore = AtStore
INVARIANT AckedMeansDecided
CHECK_DEADLOCK FALSE
