\* Safety, liveness and refinement of the key search with two workers.
SPECIFICATION Spec
CONSTANTS
    w1 = w1
    w2 = w2
    Workers <- MCWorkers
    Measures <- MCMeasures
    MinDifficulty <- MCMinDifficulty
    Difficulty <- MCDifficulty
    NoKey = NoKey
    NoWorker = NoWorker
INVARIANTS
    TypeOK
    SelectionWhole
    EmptyOnlyIfCancelled
PROPERTIES
    WriteOnce
    ScoreDropsOnlyAtWin
    CancelledFirstSelectsNothing
    CancelEndsSearch
    ImplementsKeySelection
CHECK_DEADLOCK FALSE
