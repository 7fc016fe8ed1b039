CHECK_DEADLOCK FALSE
SPECIFICATION FairSpec
CONSTANTS
    FetchSize = 2
    SslPresent = TRUE
    MaxHistory = 2
    MaxAnnouncements = 1
    MaxTimeouts = 1
    MaxTrouble = 1
    MaxAuthentications = 1
    MaxToggles = 1
INVARIANTS
    NoTrackIsForgotten
    ScrobbledOnceAndInOrder
PROPERTIES
    EventuallyScrobbled
