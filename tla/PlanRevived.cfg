SPECIFICATION Spec
CONSTANTS
    NumItems = 1
    Batches <- OneItem
    TotalRounds = 1
    AbortItems = {1}
    MaxRetries = 0
    RetryItems = {}
    Executors = {x1}
    First = x1
    Stoppers = {s1}
    Watchdogs = {}
    Readers = {}
    LongRuns = TRUE
    Corrections = TRUE
    SnapshotReads = TRUE
PROPERTY EndedIsNotExecuted
