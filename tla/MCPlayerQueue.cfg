SPECIFICATION QueueSpec
CONSTANTS
    MaximumQueueLength = 3
    HistoryLimit = 1
    TrimLength = 1
    MaxQueueID = 4
INVARIANTS
    QueueTypeOK
    FirstTrackIsCached
    LookupIsConsistent
PROPERTIES
    SignalsDescribeTheChange
CHECK_DEADLOCK FALSE
