SPECIFICATION Spec
CONSTANTS
    NumAgents = 1
    WaveSize = 1
    Deliveries = {d1}
    Poller = poller
    Stoppers = {s1}
    Watchdogs = {}
    Readers = {}
    DispatchRetries = 0
    PollRetries = 0
    SnapshotReads = TRUE
PROPERTIES EvidenceNeverOverwrites
CHECK_DEADLOCK FALSE
