SPECIFICATION FairSpec
CONSTANTS
    Modes <- BothModes
    Concurrency = 2
    Warmup = 1
    Requests = 3
    Runs = 2
    MayFail = TRUE
    MaxAborts = 2
    MaxCancels = 1
INVARIANTS ClosedAtRest NothingLeftBehind
PROPERTIES ResultsTellTheTruth LoadsDoNotOverlap SuiteEnds
CHECK_DEADLOCK FALSE
