SPECIFICATION FairSpec
CONSTANTS
    NumAgents = 1
    WaveSize = 1
    Deliveries = {d1, d2}
    Poller = poller
    Stoppers = {s1}
    Watchdogs = {w1}
    Readers = {}
    DispatchRetries = 1
    PollRetries = 0
    SnapshotReads = TRUE
INVARIANTS TypeOK LaunchedAtMostOnce
PROPERTIES EveryRunEnds QueuedStopIsFinal KeepsContract
CHECK_DEADLOCK FALSE
