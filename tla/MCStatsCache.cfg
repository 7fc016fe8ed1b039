CHECK_DEADLOCK FALSE
SPECIFICATION FairSpec
CONSTANTS
    Hashes = {1, 2}
    FirstEquivalences <- Separate
    PublicUser = FALSE
    FixerBatch = 1
    MaxRunning = 1
    Slots <- TwoSlots
    MaxHistory = 2
    MaxCrashes = 1
    MaxFailures = 1
    TroubleWhileFixing = FALSE
    MaxMerges = 1
    MergeWhileFetching = FALSE
    RequestsWhileLoading = FALSE
INVARIANTS
    StaleStatsGetRepaired
PROPERTIES
    EventuallyCorrect
