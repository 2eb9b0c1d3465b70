SPECIFICATION FairSpec
CONSTANTS
    Sizes = {0, 1, 2, 3}
    Capacity = 2
INVARIANTS
    FramesAgree
    NothingPartial
    NeverBothWait
PROPERTIES
    BothEnd
CHECK_DEADLOCK FALSE
