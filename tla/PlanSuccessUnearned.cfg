SPECIFICATION Spec
CONSTANTS
    NumItems = 2
    Batches <- SleepBetween
    TotalRounds = 1
    AbortItems = {1}
    MaxRetries = 1
    RetryItems = {1}
    Executors = {x1}
    First = x1
    Stoppers = {}
    Watchdogs = {}
    Readers = {r1}
    LongRuns = FALSE
    Corrections = FALSE
    SnapshotReads = TRUE
INVARIANTS SuccessIsEarned
