\* Batches shorter than the log.
SPECIFICATION Spec
CONSTANTS
    Server = {s1, s2, s3}
    Value = {v}
    Nobody = Nobody
    NoOp = NoOp
    MaxEntriesPerRpc = 1
    RepliesOutliveTerm = TRUE
    MaxTerm = 3
    MaxLogLen = 3
    MaxTimeouts = 3
    MaxStops = 0
    MaxCrashes = 0
    MaxInFlight = 1
SYMMETRY Symmetry
VIEW LiveView
INVARIANT AppliedOnQuorum
CHECK_DEADLOCK FALSE
