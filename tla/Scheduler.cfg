SPECIFICATION MCSpec
CONSTANTS
    NumAgents = 2
    Pods <- MCPods
    Env <- MCEnv
    Static = {1}
    RealDiscovery = TRUE
    Grace = 1
    Exec <- MCExec
    Period = 1
    MaxTime = 2
    Scans = {s1, s2}
    JobRuns = {1, 2, 3}
    Slots <- MCSlots
    Posts <- MCPosts
    MaxSeconds = 3
    MaxReadings = 3
    Keep = 2
    Step = 2
INVARIANTS TypeOK AgentsNotShared StartedOnce JobsHold ReadingsHold
PROPERTIES PoolIsKept 
CHECK_DEADLOCK FALSE
