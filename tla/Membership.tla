----------------------------- MODULE Membership -----------------------------
(***************************************************************************)
(* One node of a cluster: its failure detector, packages/cluster/src/      *)
(* swim_detector.js, and the hash ring its coordinator keeps by the        *)
(* detector's events, packages/cluster/src/cluster_coordinator.js.         *)
(*                                                                         *)
(* A probe is an async function: between its awaits anything may happen,   *)
(* other probes of the same member included, and stop() does not end it.   *)
(***************************************************************************)
EXTENDS HashRing, FiniteSets

CONSTANTS
    Self,            \* localNodeId
    Probe,           \* numbers for the probes that may be in flight at a time
    NoHost,
    MaxIncarnation, MaxEvents   \* bounds of the exploration

Other == Host \ {Self}

ASSUME SelfAssumption == Self \in Host /\ NoHost \notin Host /\ Probe \subseteq Nat

VARIABLES
    members,        \* the keys of the table besides Self, in the order of insertion
    status, incarnation,   \* of the members
    timer,          \* timer[m]: the suspicion timer of m runs
    localIncarnation,
    isRunning, probeIndex,
    probe,          \* probe[p]: target, candidates of its round, what is awaited, and
                    \* whether the answer is there
    ring,           \* of the coordinator
    up,             \* the nodes that really run
    events          \* gossip, stops and faults so far, for the bound

memberTable == <<members, status, incarnation, timer, localIncarnation>>
swimVars == <<memberTable, isRunning, probeIndex, probe, ring, up, events>>

Known(m) == Contains(members, m)
NoProbe == [target |-> NoHost, among |-> {}, waits |-> "none", answered |-> FALSE]

-----------------------------------------------------------------------------
\* The effects of the events nodeAlive and nodeDead on the ring are part of the step
\* that emits them, as listeners are called at once.

\* A mutant: the timer of the suspicion goes on.
MarkAliveOnly(m, inc) ==
    /\ UNCHANGED timer
    /\ IF status[m] # "ALIVE" \/ inc > incarnation[m]
       THEN /\ status' = [status EXCEPT ![m] = "ALIVE"]
            /\ incarnation' = [incarnation EXCEPT ![m] = IF inc > @ THEN inc ELSE @]
            /\ ring' = AddNode(ring, m)
       ELSE UNCHANGED <<status, incarnation, ring>>

MarkAlive(m, inc) ==
    /\ timer' = [timer EXCEPT ![m] = FALSE]
    /\ IF status[m] # "ALIVE" \/ inc > incarnation[m]
       THEN /\ status' = [status EXCEPT ![m] = "ALIVE"]
            /\ incarnation' = [incarnation EXCEPT ![m] = IF inc > @ THEN inc ELSE @]
            /\ ring' = AddNode(ring, m)
       ELSE UNCHANGED <<status, incarnation, ring>>

MarkSuspect(m, inc) ==
    /\ IF status[m] = "ALIVE" /\ inc >= incarnation[m]
       THEN /\ status' = [status EXCEPT ![m] = "SUSPECT"]
            /\ timer' = [timer EXCEPT ![m] = TRUE]
       ELSE UNCHANGED <<status, timer>>
    /\ UNCHANGED <<incarnation, ring>>

\* A mutant: the ring is told of deaths by the timer only.
MarkDeadUnheard(m) ==
    /\ timer' = [timer EXCEPT ![m] = FALSE]
    /\ status' = [status EXCEPT ![m] = "DEAD"]
    /\ UNCHANGED <<incarnation, ring>>

MarkDead(m) ==
    /\ timer' = [timer EXCEPT ![m] = FALSE]
    /\ IF status[m] # "DEAD"
       THEN /\ status' = [status EXCEPT ![m] = "DEAD"]
            /\ ring' = RemoveNode(ring, m)
       ELSE UNCHANGED <<status, ring>>
    /\ UNCHANGED incarnation

\* A member is inserted; one that is heard of as suspect gets no timer, since
\* _markSuspect finds it suspect already, and no place on the ring.
Insert(m, st, inc) ==
    /\ members' = Append(members, m)
    /\ status' = [status EXCEPT ![m] = st]
    /\ incarnation' = [incarnation EXCEPT ![m] = inc]
    /\ ring' = IF st = "ALIVE" THEN AddNode(ring, m) ELSE ring
    /\ UNCHANGED timer

-----------------------------------------------------------------------------
Start ==
    /\ ~isRunning /\ isRunning' = TRUE
    /\ UNCHANGED <<memberTable, probeIndex, probe, ring, up, events>>

\* stop: timers are cleared; probes in flight go on and may set others.
Stop ==
    /\ isRunning /\ events < MaxEvents
    /\ isRunning' = FALSE /\ events' = events + 1
    /\ timer' = [m \in Other |-> FALSE]
    /\ UNCHANGED <<members, status, incarnation, localIncarnation, probeIndex, probe, ring, up>>

\* addMember of a seed
AddMember(m) ==
    /\ isRunning /\ ~Known(m)
    /\ Insert(m, "ALIVE", 0)
    /\ UNCHANGED <<localIncarnation, isRunning, probeIndex, probe, up, events>>

\* A mutant: the same member is probed again and again.
FirstCandidate(candidates, i) == Head(candidates)

CandidateAt(candidates, i) == candidates[i + 1]

\* _probeNextMember up to its first await
ProbeNextMember(p) ==
    LET living == {i \in DOMAIN members : status[members[i]] # "DEAD"}
        candidates == EntriesAt(members, living, Upwards(living))
        next == (probeIndex + 1) % Cardinality(living)
    IN  /\ isRunning /\ living # {}
        /\ probe[p] = NoProbe /\ \A q \in Probe : q < p => probe[q] # NoProbe
        /\ probeIndex' = next
        /\ probe' = [probe EXCEPT ![p] = [target |-> CandidateAt(candidates, next),
                                          among |-> {members[i] : i \in living},
                                          waits |-> "direct", answered |-> FALSE]]
        /\ UNCHANGED <<memberTable, isRunning, ring, up, events>>

\* A target that runs answers, directly or to a helper; the answer is on its way.
Answer(p) ==
    /\ probe[p] # NoProbe /\ ~probe[p].answered /\ probe[p].target \in up
    /\ probe' = [probe EXCEPT ![p].answered = TRUE]
    /\ UNCHANGED <<memberTable, isRunning, probeIndex, ring, up, events>>

\* The incarnation is read from the table when the await is over.
AckArrives(p) ==
    /\ probe[p].waits = "direct" /\ probe[p].answered
    /\ MarkAlive(probe[p].target, incarnation[probe[p].target])
    /\ probe' = [probe EXCEPT ![p] = NoProbe]
    /\ UNCHANGED <<members, localIncarnation, isRunning, probeIndex, up, events>>

\* The ping fails or times out, though the answer may be on its way: other live members
\* are asked, or the member is suspected if there is none.
PingFails(p) ==
    LET m == probe[p].target
        helpers == {h \in probe[p].among \ {m} : status[h] = "ALIVE"}
    IN  /\ probe[p].waits = "direct"
        /\ IF helpers = {}
           THEN MarkSuspect(m, incarnation[m]) /\ probe' = [probe EXCEPT ![p] = NoProbe]
           ELSE /\ probe' = [probe EXCEPT ![p] = [@ EXCEPT !.waits = "indirect",
                                                           !.answered = FALSE]]
                /\ UNCHANGED <<status, incarnation, timer, ring>>
        /\ UNCHANGED <<members, localIncarnation, isRunning, probeIndex, up, events>>

\* All helpers have reported or failed; one of them may have heard the target.
HelpersReport(p, acked) ==
    LET m == probe[p].target
    IN  /\ probe[p].waits = "indirect" /\ (acked => probe[p].answered)
        /\ IF acked THEN MarkAlive(m, incarnation[m]) ELSE MarkSuspect(m, incarnation[m])
        /\ probe' = [probe EXCEPT ![p] = NoProbe]
        /\ UNCHANGED <<members, localIncarnation, isRunning, probeIndex, up, events>>

\* The suspicion timer fires; it is set for suspects only.
SuspicionEnds(m) ==
    /\ timer[m]
    /\ IF status[m] = "SUSPECT" THEN MarkDead(m)
       ELSE timer' = [timer EXCEPT ![m] = FALSE] /\ UNCHANGED <<status, incarnation, ring>>
    /\ UNCHANGED <<members, localIncarnation, isRunning, probeIndex, probe, up, events>>

-----------------------------------------------------------------------------
\* handleGossip, one update: of this node ...
GossipOfSelf(st, inc) ==
    /\ events < MaxEvents /\ events' = events + 1
    /\ st # "ALIVE" /\ inc >= localIncarnation
    /\ localIncarnation' = inc + 1
    /\ ring' = AddNode(ring, Self)
    /\ UNCHANGED <<members, status, incarnation, timer, isRunning, probeIndex, probe, up>>

\* ... of a node that is new, unless it is dead ...
GossipOfNew(m, st, inc) ==
    /\ events < MaxEvents /\ events' = events + 1
    /\ ~Known(m) /\ st # "DEAD"
    /\ Insert(m, st, inc)
    /\ UNCHANGED <<localIncarnation, isRunning, probeIndex, probe, up>>

\* ... and of a known one, if the news is newer.
GossipOfMember(m, st, inc) ==
    /\ events < MaxEvents /\ events' = events + 1
    /\ Known(m) /\ inc > incarnation[m]
    /\ CASE st = "ALIVE" -> MarkAlive(m, inc)
         [] st = "SUSPECT" -> MarkSuspect(m, inc)
         [] st = "DEAD" -> MarkDead(m)
    /\ UNCHANGED <<members, localIncarnation, isRunning, probeIndex, probe, up>>

\* A node fails or comes back.
Fault(m) ==
    /\ events < MaxEvents /\ events' = events + 1
    /\ up' = IF m \in up THEN up \ {m} ELSE up \cup {m}
    /\ UNCHANGED <<memberTable, isRunning, probeIndex, probe, ring>>

-----------------------------------------------------------------------------
SwimInit ==
    /\ members = <<>>
    /\ status = [m \in Other |-> "ALIVE"]
    /\ incarnation = [m \in Other |-> 0]
    /\ timer = [m \in Other |-> FALSE]
    /\ localIncarnation = 0 /\ isRunning = FALSE /\ probeIndex = 0
    /\ probe = [p \in Probe |-> NoProbe]
    /\ ring = AddNode(<<>>, Self)
    /\ up = Host
    /\ events = 0

SwimNext ==
    \/ Start \/ Stop
    \/ \E p \in Probe : \/ ProbeNextMember(p) \/ Answer(p) \/ AckArrives(p) \/ PingFails(p)
                        \/ \E acked \in BOOLEAN : HelpersReport(p, acked)
    \/ \E m \in Other : \/ AddMember(m) \/ SuspicionEnds(m) \/ Fault(m)
                        \/ \E st \in {"ALIVE", "SUSPECT", "DEAD"}, inc \in 0 .. MaxIncarnation :
                              GossipOfNew(m, st, inc) \/ GossipOfMember(m, st, inc)
    \/ \E st \in {"SUSPECT", "DEAD"}, inc \in 0 .. MaxIncarnation : GossipOfSelf(st, inc)

SwimSpec == SwimInit /\ [][SwimNext]_swimVars

\* The interval and the timers fire, and a ping settles since it has a timeout.  That
\* PING_REQ settles is an assumption on the transport: the detector sets it no timeout.
SwimFairness ==
    /\ WF_swimVars(\E p \in Probe : ProbeNextMember(p))
    /\ \A p \in Probe : WF_swimVars(PingFails(p)) /\ WF_swimVars(HelpersReport(p, FALSE))
    /\ \A m \in Other : WF_swimVars(SuspicionEnds(m))

-----------------------------------------------------------------------------
\* Types; besides, a suspicion timer never outlives its suspicion, so that a later
\* suspicion of the member runs its full time.
SwimTypeOK ==
    /\ Range(members) \subseteq Other
    /\ status \in [Other -> {"ALIVE", "SUSPECT", "DEAD"}]
    /\ incarnation \in [Other -> Nat] /\ timer \in [Other -> BOOLEAN]
    /\ localIncarnation \in Nat /\ isRunning \in BOOLEAN /\ probeIndex \in Nat
    /\ \A p \in Probe : probe[p].waits # "none" => Known(probe[p].target)
    /\ \A m \in Other : timer[m] => Known(m) /\ status[m] = "SUSPECT"

\* The ring holds this node and every member it takes for alive, and none it declared
\* dead, whatever order probes, timers and gossip come in.
RingHoldsTheLiving ==
    /\ Self \in NodesOf(ring)
    /\ \A m \in Other : /\ Known(m) /\ status[m] = "ALIVE" => m \in NodesOf(ring)
                        /\ ~Known(m) \/ status[m] = "DEAD" => m \notin NodesOf(ring)

\* A member that is gone, and is taken for alive, is declared dead, unless it comes back
\* or the detector is stopped.
CrashedAreFound ==
    \A m \in Other :
        isRunning /\ Known(m) /\ status[m] = "ALIVE" /\ m \notin up
            ~> status[m] = "DEAD" \/ m \in up \/ ~isRunning

Precedes(list, m, n) ==
    \E i, j \in DOMAIN list : i < j /\ list[i] = m /\ list[j] = n

\* Keys move as little as they can: a change of the ring leaves the order of preference
\* of every key among the nodes that stay, so that a key changes its owner, or a replica,
\* only from a node that leaves or to one that joins.  Every key is served like one that
\* has the hash of some token.
MovesAreMinimal ==
    [][ring' # ring => \A key \in UNION {Range(Tokens[n]) : n \in Host} :
            LET before == PreferenceList(ring, key, Len(ring))
                after == PreferenceList(ring', key, Len(ring'))
            IN  \A i, j \in DOMAIN before :
                    i < j /\ {before[i], before[j]} \subseteq NodesOf(ring')
                        => Precedes(after, before[i], before[j])]_swimVars
=============================================================================
