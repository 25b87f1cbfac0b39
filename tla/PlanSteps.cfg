SPECIFICATION Spec
CONSTANTS
    NumItems = 2
    Batches <- SleepBetween
    TotalRounds = 2
    AbortItems = {1}
    MaxRetries = 2
    RetryItems = {2}
    Executors = {x1}
    First = x1
    Stoppers = {s1}
    Watchdogs = {}
    Readers = {}
    LongRuns = FALSE
    Corrections = FALSE
    SnapshotReads = TRUE
INVARIANTS TypeOK SuccessIsEarned StopIsPrompt AbortEndsRound
