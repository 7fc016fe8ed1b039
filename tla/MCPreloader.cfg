CHECK_DEADLOCK FALSE
SPECIFICATION PreloaderFairSpec
CONSTANTS
    MaximumQueueLength = 2
    HistoryLimit = 1
    TrimLength = 0
    MaxQueueID = 2
    PreloadRange = 1
    MaxJobs = 1
    JobIterations = 2
    ExpirationLimit = 2
    MaxLocks = 2
    MaxFileLosses = 1
INVARIANTS
    TracksAreLookedAfter
PROPERTIES
    LockedFilesStay
    FrontIsPreloaded
