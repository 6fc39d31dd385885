\* Every pre-vote round of a cluster is lost once.
SPECIFICATION Spec
CONSTANTS
    Server = {s1, s2, s3}
    Value = {v}
    Nobody = Nobody
    NoOp = NoOp
    MaxEntriesPerRpc = 256
    RepliesOutliveTerm = TRUE
    MaxTerm = 2
    MaxLogLen = 2
    MaxTimeouts = 3
    MaxStops = 0
    MaxCrashes = 0
    MaxInFlight = 1
SYMMETRY Symmetry
VIEW LiveView
INVARIANT NoElectionDeadlock
CHECK_DEADLOCK FALSE
