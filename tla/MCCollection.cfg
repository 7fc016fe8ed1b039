CHECK_DEADLOCK FALSE
SPECIFICATION Spec
CONSTANTS
    LinearLimit = 2
    Hashes = {1, 2, 3}
    KnownFirst = {1, 2}
    Tags <- MCTags
    FirstTags <- First
    NoTags <- Untagged
    BatchSize = 2
    MaxEvents = 3
INVARIANTS
    CollectionIsCurrent
    TableShowsTheCollection
