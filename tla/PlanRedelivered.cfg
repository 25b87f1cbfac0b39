SPECIFICATION FairSpec
CONSTANTS
    NumItems = 1
    Batches <- OneItem
    TotalRounds = 1
    AbortItems = {1}
    MaxRetries = 0
    RetryItems = {}
    Executors = {x1, x2}
    First = x1
    Stoppers = {}
    Watchdogs = {w1}
    Readers = {r1}
    LongRuns = TRUE
    Corrections = FALSE
    SnapshotReads = TRUE
INVARIANTS PlanIsReleased
PROPERTY RevivedOnlyAtEntry EveryPlanRunEnds
