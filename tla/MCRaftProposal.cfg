\* A proposal outlives the leadership it was made in.
SPECIFICATION Spec
CONSTANTS
    Server = {s1, s2, s3}
    Value = {v}
    Nobody = Nobody
    NoOp = NoOp
    MaxEntriesPerRpc = 256
    RepliesOutliveTerm = TRUE
    MaxTerm = 2
    MaxLogLen = 2
    MaxTimeouts = 2
    MaxStops = 0
    MaxCrashes = 0
    MaxInFlight = 1
SYMMETRY Symmetry
VIEW LiveView
INVARIANT ProposalResolvedAsProposed
CHECK_DEADLOCK FALSE
