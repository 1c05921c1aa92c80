SPECIFICATION RSpec
CONSTANTS
    Orders = {o1}
    Customers = {u1}
    Shippers = {s1}
    Requests = {r1}
    Sockets = {k1}
    MaxUnfinished = 2
    MaxTaken = 2
    MaxCrashes = 1
    Null = Null
    AtStore = AtStore
PROPERTY IdleShipperCanConnect
CHECK_DEADLOCK FALSE
