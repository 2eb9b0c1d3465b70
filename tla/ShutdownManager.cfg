SPECIFICATION FairSpec
CONSTANTS
    Kinds = {"obedient", "stubborn", "nil"}
    MaxServices = 3
INVARIANTS
    StopsInReverse
PROPERTIES
    StoppedOnce
    SignalEndsRun
CHECK_DEADLOCK FALSE
