SPECIFICATION Spec
CONSTANTS
    Hashes = {a, b, c}
    NewHashes = {c}
    Unusable = {}
    HighScored = {a, b}
    Users = {public, alice}
    Public = public
    MaximumQueueLength = 2
    DesiredQueueLength = 1
    ExpandCount = 1
    DynamicTake = 2
    DynamicKeep = 1
    WaveTake = 2
    WaveKeep = 2
    WaveGoal = 2
    NotifyBatch = 3
    NotifyTarget = 3
    MaxCommands = 2
    MaxRejections = 1
INVARIANTS EachTrackIsInOnePlace NobodyWaitsInVain
PROPERTIES OnlyFreshTracksAreAdded PreferencesAreRestored
CHECK_DEADLOCK FALSE
