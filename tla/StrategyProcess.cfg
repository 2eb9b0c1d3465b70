SPECIFICATION FairSpec
CONSTANTS
    Strategies = {s1, s2, s3}
    MaxTokens = 3
    MayFail = TRUE
INVARIANTS
    NoSendAfterClose
    SuccessIsComplete
    SomeoneCanRun
PROPERTIES
    NobodyStaysBlocked
CHECK_DEADLOCK FALSE
