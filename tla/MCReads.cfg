\* A read of a leader whose reign has just begun, or is already over.
SPECIFICATION ReadSpec
CONSTANTS
    Server = {s1, s2, s3}
    Value = {v}
    Nobody = Nobody
    NoOp = NoOp
    MaxEntriesPerRpc = 256
    RepliesOutliveTerm = TRUE
    MaxTerm = 2
    MaxLogLen = 2
    MaxTimeouts = 2
    MaxStops = 0
    MaxCrashes = 0
    MaxInFlight = 1
    MaxReads = 1
INVARIANT ReadsAreLinearizable
CHECK_DEADLOCK FALSE
