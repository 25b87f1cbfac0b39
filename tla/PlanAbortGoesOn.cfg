SPECIFICATION Spec
CONSTANTS
    NumItems = 1
    Batches <- OneItem
    TotalRounds = 2
    AbortItems = {1}
    MaxRetries = 0
    RetryItems = {}
    Executors = {x1}
    First = x1
    Stoppers = {}
    Watchdogs = {}
    Readers = {}
    LongRuns = FALSE
    Corrections = FALSE
    SnapshotReads = TRUE
INVARIANT AbortEndsPlanRun
