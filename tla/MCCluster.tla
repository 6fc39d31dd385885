------------------------------ MODULE MCCluster ------------------------------
(***************************************************************************)
(* What nodes of a cluster share or tell each other, for TLC: part says    *)
(* which of the parts a behaviour is about, the others stay as they begin. *)
(* The states of the run are the sum of the parts, not their product.      *)
(***************************************************************************)
EXTENDS Leases, Locks, Membership, JointConsensus, RateLimiter, FrameDecoder,
        CausalClocks, PriorityQueue

CONSTANT Parts
VARIABLE part

\* One manager for all nodes.
Shared == [n \in Node |-> CHOOSE m \in Manager : TRUE]

\* One session for each owner.
OwnSession == CHOOSE f \in [Session -> Owner] : \A s1, s2 \in Session : s1 # s2 => f[s1] # f[s2]

\* Tokens of three hosts; two of them share a hash.
SharedHash ==
    [h \in Host |-> IF h = "m" THEN <<4, 1>> ELSE <<3>>]

\* Lists of up to two members, which may be the same, and all three.
ShortLists == UNION {[1 .. n -> Member] : n \in 0 .. 2} \cup {<<"a", "b", "c">>}

\* Payloads, among them the magic, parts of it, and one that is too long.
FramePayloads == {<<>>, <<Data>>, <<KR>>, Magic, <<ON, KR>>, <<Data, KR, Data>>}

\* All variables but those of a part.
NotLeases == <<lockVars, swimVars, jointVars, rateVars, frameVars, clockVars, heapVars, part>>
NotLocks == <<vars, swimVars, jointVars, rateVars, frameVars, clockVars, heapVars, part>>
NotSwim == <<vars, lockVars, jointVars, rateVars, frameVars, clockVars, heapVars, part>>
NotJoint == <<vars, lockVars, swimVars, rateVars, frameVars, clockVars, heapVars, part>>
NotRate == <<vars, lockVars, swimVars, jointVars, frameVars, clockVars, heapVars, part>>
NotFrames == <<vars, lockVars, swimVars, jointVars, rateVars, clockVars, heapVars, part>>
NotClocks == <<vars, lockVars, swimVars, jointVars, rateVars, frameVars, heapVars, part>>
NotHeap == <<vars, lockVars, swimVars, jointVars, rateVars, frameVars, clockVars, part>>

ClusterInit ==
    /\ part \in Parts
    /\ Init /\ LockInit /\ SwimInit /\ RateInit /\ FrameInit /\ ClockInit /\ HeapInit
    /\ IF part = "joint" THEN JointInit
       ELSE config = [oldNodes |-> <<>>, newNodes |-> <<>>, stage |-> "STABLE"] /\ former = config

ClusterNext ==
    \/ part = "leases" /\ Next /\ UNCHANGED NotLeases
    \/ part = "locks" /\ LockNext /\ UNCHANGED NotLocks
    \/ part = "swim" /\ SwimNext /\ UNCHANGED NotSwim
    \/ part = "joint" /\ JointNext /\ UNCHANGED NotJoint
    \/ part = "rate" /\ RateNext /\ UNCHANGED NotRate
    \/ part = "frames" /\ FrameNext /\ UNCHANGED NotFrames
    \/ part = "clocks" /\ ClockNext /\ UNCHANGED NotClocks
    \/ part = "heap" /\ HeapNext /\ UNCHANGED NotHeap

\* The fair actions of the detector are enabled after a step of it only.
ClusterSpec == ClusterInit /\ [][ClusterNext]_<<NotHeap, heapVars>> /\ SwimFairness

\* The types of all parts, with what each says of the order of its state.
TypesOK == TypeOK /\ LockTypeOK /\ SwimTypeOK /\ JointTypeOK /\ RateTypeOK
=============================================================================
