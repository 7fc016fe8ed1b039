CHECK_DEADLOCK FALSE
SPECIFICATION PlayerSpec
CONSTANTS
    MaximumQueueLength = 2
    HistoryLimit = 2
    TrimLength = 1
    MaxQueueID = 3
    Instances = {1, 2, 3, 4, 5}
    MaxPlaybackErrors = 1
INVARIANTS
    StartedTracksAreNotLost
    InstancesAreManaged
    AlwaysAnInstance
