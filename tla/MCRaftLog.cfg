\* Two leaderships replicate a log, two RPCs in flight, replies of any age.
SPECIFICATION Spec
CONSTANTS
    Server = {s1, s2, s3}
    Value = {v}
    Nobody = Nobody
    NoOp = NoOp
    MaxEntriesPerRpc = 256
    RepliesOutliveTerm = TRUE
    MaxTerm = 2
    MaxLogLen = 2
    MaxTimeouts = 2
    MaxStops = 0
    MaxCrashes = 0
    MaxInFlight = 2
SYMMETRY Symmetry
VIEW LiveView
INVARIANTS StateMachineSafety AppliedStaysInLog AppliedOnQuorum
CHECK_DEADLOCK FALSE
