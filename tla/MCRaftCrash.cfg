\* A process dies and its log with it.
SPECIFICATION Spec
CONSTANTS
    Server = {s1, s2, s3}
    Value = {v}
    Nobody = Nobody
    NoOp = NoOp
    MaxEntriesPerRpc = 256
    RepliesOutliveTerm = TRUE
    MaxTerm = 2
    MaxLogLen = 1
    MaxTimeouts = 2
    MaxStops = 0
    MaxCrashes = 1
    MaxInFlight = 1
SYMMETRY Symmetry
VIEW LiveView
INVARIANT StateMachineSafety
CHECK_DEADLOCK FALSE
