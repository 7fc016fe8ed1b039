CHECK_DEADLOCK FALSE
SPECIFICATION FairSpec
CONSTANTS
    Users = {"u1", "u2"}
    FirstUsers = {"u1"}
    CollectionBatches = 1
    SharedTopics = {"player", "length", "delayed", "indexing", "health"}
    OwnTopics = {"volume"}
    RequestKinds = {"scanning", "undelay", "insert", "hash info", "collection", "reload", "history"}
    MaxMoves = 2
    MayOvertake = TRUE
INVARIANTS
    CopiesAreCurrent
    EachRequestIsAnswered
    LoginIsMutual
PROPERTIES
    SilentServerIsNoticed
