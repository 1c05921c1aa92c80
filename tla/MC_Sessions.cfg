SPECIFICATION Spec
CONSTANTS
    Sessions = {s1, s2}
    Users = {u1}
    Requests = {r1, r2}
    AccessDays = 1
    RefreshDays = 2
    Latency = 1
    MaxDay = 20
    Null = Null
INVARIANTS
    TypeOK
    EndedStaysEnded
    ExpiredIsRefused
    BlacklistedForCause
    OneCurrentToken
PROPERTIES
    SessionLifeSpec
VIEW DaysLeft
CONSTRAINT ChecksRunAlone
SYMMETRY Symmetry
CHECK_DEADLOCK FALSE
