SPECIFICATION FairSpec
CONSTANTS
    Names = {db, cache}
    Middleware <- MiddlewareChoices
INVARIANTS
    LogTellsTheWire
    AnswersAreMarked
    ReadinessTellsTheChecks
    SessionsAreSound
PROPERTY EveryRequestIsAnswered
CHECK_DEADLOCK FALSE
