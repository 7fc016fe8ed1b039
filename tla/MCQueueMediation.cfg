CHECK_DEADLOCK FALSE
SPECIFICATION MediationSpec
CONSTANTS
    MaximumQueueLength = 3
    HistoryLimit = 1
    TrimLength = 1
    MaxQueueID = 4
    InitialFetch = 1
    FetchMargin = 1
    ExtraFetch = 2
    FetchBatch = 1
    MaxInFlight = 1
    MaxEarlyEvents = 1
    StartLength = 3
    MaxLocalOperations = 2
    MaxOtherChanges = 2
INVARIANTS
    RowsAreInStep
    ViewIsPredicted
    ViewConverges
PROPERTIES
    MirrorsTheQueue
