SPECIFICATION FairSpec
CONSTANTS
    Ids <- MCIds
    Ways <- MCWays
    Lengths = {0, 1, 3}
    Infinity = Infinity
    None = None
INVARIANTS
    TypeOK
    PathIsShortest
PROPERTIES
    SettledNodesKeepTheirDistance
    NoTurnInVain
    RouteEnds
CHECK_DEADLOCK FALSE
