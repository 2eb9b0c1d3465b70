SPECIFICATION FairSpec
CONSTANTS
    Clients = {c1}
    LivenessProbes = {l1}
    ReadinessProbes = {r1}
    Checks = {k1}
INVARIANTS
    NoSuccessAfterClosed
    UnreachableMeansClosed
PROPERTIES
    NobodyStaysBlocked
CHECK_DEADLOCK FALSE
