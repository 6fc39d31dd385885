\* The parts of one process, each by itself.
SPECIFICATION FairSpec
CONSTANTS
    Parts = {"dag", "supervisor", "saga", "deque", "lsm", "log", "snapshots"}
    \* DagCompiler: every graph of three tasks, with an id that is no task
    Task = {a, b, c}
    Unknown = {u}
    DependencyLists <- NamedOnce
    \* Supervisor: two runs whose children may hang, be deaf or be killed
    Run = {r1, r2}
    Steps = 4
    \* ChaseLevDeque: two doublings
    Item = {x, y}
    Nothing = Nothing
    InitialCapacity = 2
    MaxPushes = 6
    \* LsmTree: three small rows, or a large and a small one, fill a memtable
    Key = {k1, k2}
    Value = {v1}
    None = None
    NoRow = NoRow
    PutBytes = 2
    DeleteBytes = 1
    MemTableMaxBytes = 3
    CompactionThreshold = 2
    TiesAllowed = FALSE
    CrashBetweenUnlinks = FALSE
    MaxCalls = 5
    MaxCrashes = 1
    MaxFailures = 1
    \* SegmentedLog: a segment of two or three records, an index entry for two bytes
    Payload = {1, 2}
    Torn = 9
    MaxSegmentBytes = 3
    IndexIntervalBytes = 2
    RetentionBytes = 5
    MaxOffset = 6
    MaxLogCalls = 7
    MaxDeaths = 2
    Chunks <- ChunkCounts
    MaxDied = 1
INVARIANTS TypesOK RefusedIfCyclic StagesAreDepths TimeoutIsFailure UndoneInReverse  StreamsAreWhole
PROPERTIES HearingRunsEnd DequeIsSequence  
\* Calls and faults are bounded, and compilations and sagas end.
CHECK_DEADLOCK FALSE
