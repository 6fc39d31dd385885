\* What nodes share or tell each other, each part by itself.
SPECIFICATION ClusterSpec
CONSTANTS
    Parts = {"leases", "locks", "swim", "joint", "rate", "frames", "clocks", "heap"}
    \* Leases: two nodes and the lease of a manager that is started again once
    Node = {n1, n2}
    Key = {k1}
    Manager = {m1}
    ManagerOf <- Shared
    Ttls = {1, 2}
    Drift = 0
    None = None
    Nobody = Nobody
    MaxTime = 3
    MaxToken = 4
    MaxRestarts = 1
    \* Locks: two owners of one session each and two resources
    Session = {"s1", "s2"}
    Owner = {"ann", "bob"}
    OwnerOf <- OwnSession
    Resource = {r1, r2}
    LockTtls = {1, 2}
    Extensions = {1, 2}
    NoLock = NoLock
    NoOwner = "nobody"
    MaxLockTime = 4
    MaxNumber = 3
    \* Membership: two members of a node, two probes in flight
    Host = {"self", "m", "n"}
    Self = "self"
    Tokens <- SharedHash
    Probe = {1, 2}
    NoHost = NoHost
    MaxIncarnation = 1
    MaxEvents = 2
    \* JointConsensus
    Member = {"a", "b", "c"}
    MemberLists <- ShortLists
    \* RateLimiter: one client
    Client = {t1}
    Capacity = 3
    Rate = 2
    Costs = {0, 1, 3}
    MaxClock = 3
    MaxGranted = 10
    \* FrameDecoder: streams of two pieces
    Payload <- FramePayloads
    MaxPayload = 2
    MaxPieces = 2
    \* CausalClocks: five events of three sites
    Site = {c1, c2, c3}
    MaxHappened = 5
    \* PriorityQueue: a heap of three levels
    Rank = {1, 2, 3}
    MaxHeap = 7
INVARIANTS TypesOK OneHolder HolderIsValid OneOwner RingHoldsTheLiving GrantsWithinRate QuorumsMeet  CompareIsCausality TopIsFirst
PROPERTIES StaysFenced  LocksKeepFencing  MovesAreMinimal
\* Times, calls and numbers are bounded: a run ends there.
CHECK_DEADLOCK FALSE
