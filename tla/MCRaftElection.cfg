\* Elections under message loss, reordering, restarts and process deaths.
SPECIFICATION Spec
CONSTANTS
    Server = {s1, s2, s3}
    Value = {v}
    Nobody = Nobody
    NoOp = NoOp
    MaxEntriesPerRpc = 1
    RepliesOutliveTerm = TRUE
    MaxTerm = 2
    MaxLogLen = 1
    MaxTimeouts = 2
    MaxStops = 0
    MaxCrashes = 1
    MaxInFlight = 2
SYMMETRY Symmetry
VIEW LiveView
INVARIANTS TypeOK ElectionSafety OneCountPerVote
PROPERTY OneVotePerTerm
CHECK_DEADLOCK FALSE
