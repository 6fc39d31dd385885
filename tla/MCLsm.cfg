\* A process that may die between the removal of two merged tables.
SPECIFICATION LsmSpec
CONSTANTS
    Key = {k1}
    Value = {v1, v2}
    None = None
    NoRow = NoRow
    PutBytes = 2
    DeleteBytes = 1
    MemTableMaxBytes = 2
    CompactionThreshold = 2
    TiesAllowed = FALSE
    CrashBetweenUnlinks = TRUE
    MaxCalls = 3
    MaxCrashes = 1
    MaxFailures = 1
INVARIANT NewestWins
\* Calls are bounded: a run ends there.
CHECK_DEADLOCK FALSE
