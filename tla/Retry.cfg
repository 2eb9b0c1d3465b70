SPECIFICATION RetrySpec
CONSTANTS
    Attempts = {0, 1, 3, 6}
    Delays = {1, 5, 15}
    MaxShift = 3
    Width = 8
INVARIANTS
    ResultTellsTheCalls
    AtMostOneLateCall
CHECK_DEADLOCK FALSE
