SPECIFICATION Spec
CONSTANTS
    InitialFetch = 2
    FetchMargin = 1
    ExtraFetch = 2
    FetchBatch = 1
    FetcherZone = 2
    Me = 1
    HistoryGoal = 2
    HistorySize = 2
    WishedVolumes = {50, 60}
    MaxWishes <- MCMaxWishes
    Tags <- MCTags
    WithFile = {2, 4}
    WordParts <- MCWordParts
    Numeral <- MCNumeral
    HashWord <- MCHashWord
    DateWords <- MCDateWords
    TimeWords <- MCTimeWords
    FutureTimes <- MCFutureTimes
    Today = "today"
    FetchLimit = 2
    Beginnings <- MCBeginnings
    OtherRequests <- MCOtherRequests
    MaxOtherChanges <- MCMaxOtherChanges
    CanLose <- MCCanLose
INVARIANTS
    SuccessIsTrue
    CommandsGetDone
    OnlyDocumentedCommandsRun
    InfoIsShown
    PresenceIsTrue
    MainWindowIsCurrent
CHECK_DEADLOCK FALSE
