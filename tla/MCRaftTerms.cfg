\* Three leaderships over a log of two, a node stopped in between, one RPC in flight.
SPECIFICATION Spec
CONSTANTS
    Server = {s1, s2, s3}
    Value = {v}
    Nobody = Nobody
    NoOp = NoOp
    MaxEntriesPerRpc = 256
    RepliesOutliveTerm = TRUE
    MaxTerm = 3
    MaxLogLen = 2
    MaxTimeouts = 3
    MaxStops = 1
    MaxCrashes = 0
    MaxInFlight = 1
SYMMETRY Symmetry
VIEW LiveView
INVARIANTS LogMatching LeaderCompleteness
CHECK_DEADLOCK FALSE
