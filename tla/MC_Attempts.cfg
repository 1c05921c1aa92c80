SPECIFICATION FairSpec
CONSTANTS
    Requests = {r1, r2}
    LoginKeys = {u1}
    Keys = {u1}
    Limit = 2
    Timeout = 2
    Latency = 1
    MaxTime = 4
    MaxFaults = 1
    MaxLost = 1
    Null = Null
INVARIANTS
    TypeOK
    ExclusiveWhileRenewed
    StreakBounded
PROPERTIES
    LocksFreed
    ThrottleSpec
CHECK_DEADLOCK FALSE
