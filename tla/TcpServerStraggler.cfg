SPECIFICATION Spec
CONSTANTS
    Conns = {c1, c2, c3, c4}
    MaxAcceptErrors = 0
SYMMETRY Symmetry
INVARIANT ShutdownWaitsForConnections
CHECK_DEADLOCK FALSE
