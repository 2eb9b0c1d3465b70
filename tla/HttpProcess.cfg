SPECIFICATION FairSpec
CONSTANTS
    Requests = {r1, r2, r3}
    MaxConns = 2
INVARIANTS
    ErrorTellsTheFate
    PoolOutlivesRequests
    ExitIsOrderly
PROPERTIES
    SignalEndsProcess
    RequestsAreAnswered
CHECK_DEADLOCK FALSE
