SPECIFICATION Spec
CONSTANTS
    NumItems = 1
    Batches <- OneItem
    TotalRounds = 1
    AbortItems = {1}
    MaxRetries = 1
    RetryItems = {1}
    Executors = {x1}
    First = x1
    Stoppers = {}
    Watchdogs = {}
    Readers = {r1}
    LongRuns = TRUE
    Corrections = TRUE
    SnapshotReads = TRUE
PROPERTY RetriedSuccessStands
