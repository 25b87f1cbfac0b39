SPECIFICATION MCSpec
CONSTANTS
    MaxLines = 4
    MaxPods = 3
    Idle = 3
    Assets = {1, 2, 3}
    Sessions = {d1}
    Tasks = {k1, k2}
    ScriptTasks = {t1, t2}
    Scripts = {s1, s2, s3}
    Users = {u1, u2}
    MaxWrites = 1
    LogAgents = {g1, g2}
    MaxLog = 3
    PageLimit = 1
    ScanLimit = 2
    Hooks = {1, 2}
    RetryCap = 1
    MaxEdits = 1
    ReportIds = {1}
    Makers = {1, 2}
    Viewers = {1, 2}
    Retries = 1
    Targets = {1, 7, 100, 5000}
    MaxAgents = 3
    Threads = {1, 50, 300}
    Mixes <- MCMixes
    Plans <- MCPlans
    MinTimeout = 2
    Slack = 1
    WaitLimit = 4
    RetryDelay = 1
    Grace = 1
    ChildGrace = 1
    MaxLate = 2
    Courses <- MCCourses
    Attempts = 2
    MaxRounds = 2
    ReportScan = 3
    Endpoints = {"e1", "e2"}
    Loads <- MCLoads
    MaxTicks = 2
    MaxMissed = 1
    Bucket = 2
    Kinds = {"jmeter", "http", "grpc", "mixed"}
    SourceAgents = {1, 2}
    JudgedRuns = {1, 2}
    ProtocolOf <- MCProtocols
    MaxPending = 2
    FigureSets <- MCFigures
    OtherFigures <- MCOther
    TimeLimit = 120
    Findings <- MCFindings
    MaxReports = 1
    TaskOf <- MCTasks
    PlanForms <- MCForms
    Spaced = {"big shop"}
    Finds <- MCFinds
    Queries <- MCQueries
    MaxListed = 3
    MaxTurns = 2
    Pods = {1, 2, 3}
    AskedFor = {3, 4}
    PeakOf <- MCPeaks
INVARIANTS TypeOK SlicesHold AssetsHold  HooksHold ReportsHold SharesHold DeadlinesHold PagesHold FiguresHold JudgementsHold
PROPERTIES EditStaysPrivate
CHECK_DEADLOCK FALSE
