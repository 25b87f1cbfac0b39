SPECIFICATION MCSpec
CONSTANTS
    NumAgents = 2
    WaveSize = 1
    Deliveries = {d1}
    Poller = poller
    Stoppers = {s1}
    Watchdogs = {}
    Readers = {}
    MCReaders = {r1}
    DispatchRetries = 0
    PollRetries = 1
    SnapshotReads = TRUE
INVARIANTS SucceededMeansIdle FailureStopsAgents
PROPERTIES EndedStaysEnded
CHECK_DEADLOCK FALSE
