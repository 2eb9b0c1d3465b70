SPECIFICATION FairPingPongSpec
CONSTANTS
    Partitions = {p1, p2}
    MaxPings = 3
    MaxCrashes = 2
INVARIANTS
    PingsAreLogged
PROPERTY PingsGetThrough
CHECK_DEADLOCK FALSE
