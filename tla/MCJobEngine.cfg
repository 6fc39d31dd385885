\* Two jobs, one of them a diamond, with retries, on a worker of two slots.
SPECIFICATION FairSpec
CONSTANTS
    Job = {"etl", "report"}
    Task = {"a", "b", "c", "d", "e"}
    Deps <- Diamond
    Priority <- EtlFirst
    MaxRetries = 1
    MaxSubmissions = 1
    Concurrency = 2
    MaxWorkerStops = 1
INVARIANTS RunsAreTracked  NoIdleSlot
PROPERTIES KeepsContract WorkflowsEnd
\* All jobs may be over.
CHECK_DEADLOCK FALSE
