SPECIFICATION FairSpec
CONSTANTS
    Conns = {c1, c2, c3}
INVARIANTS
    OrderlyExitCutsAtMostOne
PROPERTIES
    SignalEndsProcess
    ManagerSpec
CHECK_DEADLOCK FALSE
