SPECIFICATION FairSpec
CONSTANTS
    Engines = {"k6", "jmeter", "mock"}
    Stoppers = {s1}
    Readers = {r1}
INVARIANTS TypeOK StoppedMeansIdle SuccessIsSound ArchiveIsComplete
PROPERTIES StopIsFinal RunEnds
CHECK_DEADLOCK FALSE
