CHECK_DEADLOCK FALSE
SPECIFICATION FairSpec
CONSTANTS
    Futures = {1, 2, 3}
    Continuations = {1, 2}
    Receivers = {r}
    LoopThread = main
    PoolThreads = {p}
    Nobody = nobody
INVARIANTS
    OutcomesAreStoredOnce
    RunsWhereItBelongs
PROPERTIES
    EverybodyIsContinued
