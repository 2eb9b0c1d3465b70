SPECIFICATION FairSpec
CONSTANTS
    Conns = {c1, c2, c3}
    MaxAcceptErrors = 1
INVARIANTS
    AtMostOneLeftBehind
PROPERTIES
    DrainSpec
    ShutdownReturns
    NobodyStaysBehind
CHECK_DEADLOCK FALSE
