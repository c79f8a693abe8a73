\* The status line's "best difficulty so far" can go down.
SPECIFICATION Safety
CONSTANTS
    w1 = w1
    w2 = w2
    Workers <- MCWorkers
    Measures <- MCMeasures
    MinDifficulty <- MCMinDifficulty
    Difficulty <- MCDifficulty
    NoKey = NoKey
    NoWorker = NoWorker
PROPERTY BestSoFar
CHECK_DEADLOCK FALSE
