-------------------------------- MODULE Raft --------------------------------
(***************************************************************************)
(* The consensus node of packages/raft: raft_node.js with the replicated   *)
(* log, the peer trackers, the persistent term and vote, and the one-shot  *)
(* election timer it owns.                                                 *)
(*                                                                         *)
(* node[s] is the object of server s, one field per field of the object.   *)
(* An RPC is a promise: the request is handled by the target in one step,  *)
(* the reply by the sender's closure in another, and any request or reply  *)
(* may be lost or overtaken.  rpcs is the set of the requests and replies  *)
(* that are neither lost nor handled.  A handler of the code is a function *)
(* from the old object to the new one, so that the handlers compose as the *)
(* calls in the code do.                                                   *)
(***************************************************************************)
EXTENDS Integers, Sequences, FiniteSets, FiniteSetsExt

CONSTANTS
    Server,              \* the nodes of the cluster; every other one is a peer
    Value,               \* the commands clients propose
    Nobody,              \* null, of votedFor and leaderId
    NoOp,                \* the data of a leader's first entry
    MaxEntriesPerRpc,    \* RaftDefaults.MAX_ENTRIES_PER_RPC
    RepliesOutliveTerm,  \* may an AppendEntries reply reach a later leadership?
    \* Bounds of the exploration, none of them in the code.
    MaxTerm, MaxLogLen, MaxInFlight,
    MaxTimeouts, MaxStops, MaxCrashes    \* of the whole cluster

ASSUME ServerAssumption == IsFiniteSet(Server) /\ Server # {}
ASSUME NobodyAssumption == Nobody \notin Server
ASSUME NoOpAssumption   == NoOp \notin Value
ASSUME BatchAssumption  == MaxEntriesPerRpc \in Nat \ {0}

VARIABLES
    node,    \* node[s]: the RaftNode object of server s
    rpcs,    \* requests and replies in flight
    used     \* how many timeouts, stops and crashes there were, for the bounds

vars == <<node, rpcs, used>>

-----------------------------------------------------------------------------
Roles  == {"FOLLOWER", "PRE_CANDIDATE", "CANDIDATE", "LEADER"}

\* off: not running; armed: a timeout is pending; fired: running, but the one
\* timeout that was scheduled has gone off and nobody called reset since.
Timers == {"off", "armed", "fired"}

QuorumSize == Cardinality(Server) \div 2 + 1

Peers(s) == Server \ {s}

\* The constructor: what a new process starts from, given what it loaded.
NewNode(term, votedFor, incarnation) ==
    [running     |-> FALSE,
     role        |-> "FOLLOWER",
     term        |-> term,
     votedFor    |-> votedFor,
     leader      |-> Nobody,
     timer       |-> "off",
     log         |-> <<>>,
     commit      |-> 0,
     applied     |-> <<>>,
     next        |-> [p \in Server |-> 1],
     match       |-> [p \in Server |-> 0],
     votes       |-> {},
     preVotes    |-> <<>>,
     pending     |-> {},
     resolved    |-> {},
     incarnation |-> incarnation]

-----------------------------------------------------------------------------
(* replicated_log.js: nothing in the node compacts the log, so that an     *)
(* entry's index is its position.                                          *)

GetTerm(log, i) == IF i \in 1..Len(log) THEN log[i].term ELSE 0

LastLogTerm(log) == GetTerm(log, Len(log))

GetEntriesFrom(log, i) ==
    SubSeq(log, i, Min({Len(log), i + MaxEntriesPerRpc - 1}))

\* A mutant: the log is cut behind the entries even where nothing conflicts.
MergeEntriesCutsTail(log, prev, entries) == SubSeq(log, 1, prev) \o entries

Truncate(log, i) == SubSeq(log, 1, Min({i - 1, Len(log)}))

\* Appends what is new of entries, which follow prev, after cutting the log at
\* the first of them whose term differs.
MergeEntries(log, prev, entries) ==
    LET Agrees(k) == prev + k <= Len(log) /\ log[prev + k].term = entries[k].term
        fresh     == {k \in 1..Len(entries) : ~Agrees(k)}
        first     == Min(fresh)
    IN  IF fresh = {} THEN log
        ELSE Truncate(log, prev + first) \o SubSeq(entries, first, Len(entries))

-----------------------------------------------------------------------------
(* peer_manager.js: the progress of a peer, as the leader sees it.          *)

InitLeaderProgress(n) ==
    [n EXCEPT !.next  = [p \in Server |-> Len(n.log) + 1],
              !.match = [p \in Server |-> 0]]

UpdateProgress(n, p, matchedIndex) ==
    LET m == Max({n.match[p], matchedIndex})
    IN  [n EXCEPT !.match[p] = m, !.next[p] = m + 1]

\* A mutant: the next index may reach 0.
BackOffToZero(n, p, conflictIndex) == [n EXCEPT !.next[p] = @ - 1]

BackOff(n, p, conflictIndex) ==
    LET lower == Max({1, n.next[p] - 1})
    IN  [n EXCEPT !.next[p] = IF conflictIndex > 0 THEN Min({lower, conflictIndex})
                                                   ELSE lower]

\* A mutant: the position before the middle.
QuorumMatchIndexEarly(n, s) ==
    Max({Len(n.log)} \cup {n.match[p] : p \in Server})

\* The middle of the sorted match indices, the leader's own being its last
\* index: the greatest of them that a quorum reaches.
QuorumMatchIndex(n, s) ==
    LET index(p) == IF p = s THEN Len(n.log) ELSE n.match[p]
        Reached(i) == {p \in Server : index(p) >= i}
    IN  Max({i \in {index(p) : p \in Server} : Cardinality(Reached(i)) >= QuorumSize})

-----------------------------------------------------------------------------
(* Steps of the node, as functions on its object.                          *)

TimerStart(n) == [n EXCEPT !.timer = "armed"]

TimerReset(n) == IF n.timer = "off" THEN n ELSE TimerStart(n)

TimerStop(n) == [n EXCEPT !.timer = "off"]

StepDown(n, newTerm, newLeader) ==
    TimerStart([n EXCEPT !.role = "FOLLOWER", !.leader = newLeader,
                         !.term = newTerm, !.votedFor = Nobody])

\* Emits 'apply' for every entry up to the commit index, and settles the
\* proposals that wait at the applied indices.
ApplyEntries(n) ==
    LET done  == {i \in 1..n.commit : i > Len(n.applied)}
        fresh == SubSeq(n.log, Len(n.applied) + 1, n.commit)
        over  == {p \in n.pending : p.index \in done}
    IN  [n EXCEPT !.applied  = @ \o fresh,
                  !.pending  = @ \ over,
                  !.resolved = @ \cup {[proposed |-> p, got |-> n.log[p.index]] : p \in over}]

\* Only an entry of the own term is committed by counting.
CheckCommitIndex(n, s) ==
    LET i == QuorumMatchIndex(n, s)
    IN  IF i \in n.commit + 1 .. Len(n.log) /\ n.log[i].term = n.term
        THEN ApplyEntries([n EXCEPT !.commit = i])
        ELSE n

\* The progress is initialised before the no-op entry is appended.
BecomeLeader(n, s) ==
    LET led == InitLeaderProgress(TimerStop([n EXCEPT !.role = "LEADER", !.leader = s]))
    IN  [led EXCEPT !.log = Append(@, [term |-> n.term, value |-> NoOp])]

BecomeCandidate(n, s) ==
    LET cand == TimerReset([n EXCEPT !.role     = "CANDIDATE",
                                     !.term     = @ + 1,
                                     !.votedFor = s,
                                     !.votes    = {s}])
    IN  IF QuorumSize = 1 THEN BecomeLeader(cand, s) ELSE cand

StartPreVote(n, s) ==
    LET pre == [n EXCEPT !.role = "PRE_CANDIDATE", 
                         !.preVotes = Append(@, [term |-> n.term + 1, granted |-> {s}])]
    IN  IF QuorumSize = 1 THEN BecomeCandidate(pre, s) ELSE pre

-----------------------------------------------------------------------------
(* The requests a node sends, from its object at the time it sends them.    *)
(* round names the closure that counts the pre-votes, incarnation the       *)
(* process that made it: both die with the process.                         *)

VoteRequest(n, s, p) ==
    [type |-> "RequestVote", from |-> s, to |-> p,
     preVote |-> n.role = "PRE_CANDIDATE",
     term |-> IF n.role = "PRE_CANDIDATE" THEN n.term + 1 ELSE n.term,
     lastIndex |-> Len(n.log), lastTerm |-> LastLogTerm(n.log),
     round |-> Len(n.preVotes), incarnation |-> n.incarnation]

AppendRequest(n, s, p) ==
    [type |-> "AppendEntries", from |-> s, to |-> p,
     term |-> n.term,
     prevIndex |-> n.next[p] - 1, prevTerm |-> GetTerm(n.log, n.next[p] - 1),
     entries |-> GetEntriesFrom(n.log, n.next[p]),
     commit |-> n.commit, incarnation |-> n.incarnation]

VoteRequests(n, s)   == {VoteRequest(n, s, p) : p \in Peers(s)}
AppendRequests(n, s) == {AppendRequest(n, s, p) : p \in Peers(s)}

\* What a node sends as it takes a new role.
Announce(n, s) ==
    CASE n.role = "LEADER" -> AppendRequests(n, s)
      [] n.role \in {"PRE_CANDIDATE", "CANDIDATE"} -> VoteRequests(n, s)
      [] OTHER -> {}

\* A subset of msgs is on its way, the rest is lost.
Send(inFlight, msgs) ==
    \E sent \in SUBSET msgs :
        /\ Cardinality(inFlight \cup sent) <= MaxInFlight
        /\ rpcs' = inFlight \cup sent

\* An identical heartbeat, or its reply, may still be in flight.
Without(m) == {rpcs \ {m}} \cup (IF m.type \in {"AppendEntries", "AppendEntriesReply"}
                                 THEN {rpcs} ELSE {})

WithinBounds(n) == n.term <= MaxTerm /\ Len(n.log) <= MaxLogLen

-----------------------------------------------------------------------------
(* The calls that start and end a node.                                    *)

Started(n) ==
    TimerStart([n EXCEPT !.running = TRUE, !.role = "FOLLOWER", !.leader = Nobody])

Start(s) ==
    /\ ~node[s].running
    /\ node' = [node EXCEPT ![s] = Started(@)]
    /\ UNCHANGED <<rpcs, used>>

\* The pending proposals are rejected; the role stays what it was.
Stop(s) ==
    /\ node[s].running
    /\ used.stops < MaxStops
    /\ node' = [node EXCEPT ![s] = TimerStop([@ EXCEPT !.running = FALSE,
                                                       !.pending = {}])]
    /\ used' = [used EXCEPT !.stops = @ + 1]
    /\ UNCHANGED rpcs

\* A mutant: the vote is not written to the state file.
ReloadedWithoutVote(n) == NewNode(n.term, Nobody, n.incarnation + 1)

\* The term and the vote come back from the state file, the log was only in
\* memory.
Reloaded(n) == NewNode(n.term, n.votedFor, n.incarnation + 1)

\* The process dies and a new one is constructed.  The clients keep what they
\* were told.
Crash(s) ==
    /\ used.crashes < MaxCrashes
    /\ used' = [used EXCEPT !.crashes = @ + 1]
    /\ node' = [node EXCEPT ![s] = [Reloaded(@) EXCEPT !.resolved = node[s].resolved]]
    /\ UNCHANGED rpcs

-----------------------------------------------------------------------------
(* Timers and client calls.                                                *)

ElectionTimeout(s) ==
    LET fired == [node[s] EXCEPT !.timer = "fired"]
        after == StartPreVote(fired, s)
    IN  /\ node[s].timer = "armed"
        /\ IF node[s].running /\ node[s].role # "LEADER"
           THEN /\ used.timeouts < MaxTimeouts
                /\ used' = [used EXCEPT !.timeouts = @ + 1]
                /\ WithinBounds(after)
                /\ node' = [node EXCEPT ![s] = after]
                /\ Send(rpcs, Announce(after, s))
           ELSE node' = [node EXCEPT ![s] = fired] /\ UNCHANGED <<rpcs, used>>

\* The interval is cleared by stop() and by a step down.
Heartbeat(s) ==
    /\ node[s].running /\ node[s].role = "LEADER"
    /\ Send(rpcs, AppendRequests(node[s], s))
    /\ UNCHANGED <<node, used>>

\* Only the role is checked, not that the node runs.
Propose(s, v) ==
    LET entry    == [term |-> node[s].term, value |-> v]
        appended == [node[s] EXCEPT !.log = Append(@, entry)]
        index    == Len(appended.log)
        waiting  == [appended EXCEPT
                        !.pending = {p \in @ : p.index # index}
                                        \cup {[index |-> index, entry |-> entry]}]
    IN  /\ node[s].role = "LEADER"
        /\ WithinBounds(appended)
        /\ node' = [node EXCEPT ![s] = IF Peers(s) = {} THEN CheckCommitIndex(waiting, s)
                                                        ELSE waiting]
        /\ Send(rpcs, AppendRequests(waiting, s))
        /\ UNCHANGED used

-----------------------------------------------------------------------------
(* RPC handlers.  The transport reaches a node only while it runs.          *)

\* A mutant: the vote given before is not looked at.
VoteIsFreeAlways(n, m) == TRUE

VoteIsFree(n, m) == m.preVote \/ n.votedFor \in {Nobody, m.from}

\* A mutant: the longer log wins.
LogUpToDateByLength(n, m) == m.lastIndex >= Len(n.log)

LogUpToDate(n, m) ==
    \/ m.lastTerm > LastLogTerm(n.log)
    \/ m.lastTerm = LastLogTerm(n.log) /\ m.lastIndex >= Len(n.log)

\* A refused pre-vote is nothing to the closure that asked for it: only a
\* granted one is sent back.
HandleRequestVote(m) ==
    LET s  == m.to
        n  == IF m.term > node[s].term /\ ~m.preVote
              THEN StepDown(node[s], m.term, Nobody) ELSE node[s]
        granted == m.term >= n.term /\ VoteIsFree(n, m) /\ LogUpToDate(n, m)
        reply == [type |-> "RequestVoteReply", from |-> s, to |-> m.from,
                  preVote |-> m.preVote, term |-> n.term, granted |-> granted,
                  round |-> m.round, incarnation |-> m.incarnation]
    IN  /\ m.type = "RequestVote"
        /\ node[s].running
        /\ node' = [node EXCEPT ![s] = IF granted /\ ~m.preVote
                                       THEN TimerReset([n EXCEPT !.votedFor = m.from])
                                       ELSE n]
        /\ \E rest \in Without(m) :
                Send(rest, IF m.preVote /\ ~granted THEN {} ELSE {reply})
        /\ UNCHANGED used

\* A mutant: any log is taken to hold the previous entry.
PrevMatchesAlways(n, m) == m.prevIndex <= Len(n.log)

PrevMatches(n, m) == m.prevIndex > 0 => GetTerm(n.log, m.prevIndex) = m.prevTerm

\* An equal term leaves the role alone, and the commit index follows the
\* leader's up to the end of the own log, checked or not.
HandleAppendEntries(m) ==
    LET s  == m.to
        n  == IF m.term > node[s].term
              THEN StepDown(node[s], m.term, m.from) ELSE node[s]
        heard   == TimerReset([n EXCEPT !.leader = m.from])
        merged  == [heard EXCEPT !.log = MergeEntries(@, m.prevIndex, m.entries)]
        caughtUp == IF m.commit > merged.commit
                    THEN ApplyEntries([merged EXCEPT !.commit = Min({m.commit, Len(merged.log)})])
                    ELSE merged
        Reply(after, success, conflict) ==
            [type |-> "AppendEntriesReply", from |-> s, to |-> m.from,
             term |-> after.term, success |-> success,
             matchIndex |-> Len(after.log), conflictIndex |-> conflict,
             sentIn |-> m.term, incarnation |-> m.incarnation]
        Finish(after, success, conflict) ==
            /\ node' = [node EXCEPT ![s] = after]
            /\ \E rest \in Without(m) : Send(rest, {Reply(after, success, conflict)})
    IN  /\ m.type = "AppendEntries"
        /\ node[s].running
        /\ \/ m.term < n.term /\ Finish(n, FALSE, 0)
           \/ /\ m.term >= n.term /\ ~PrevMatches(n, m)
              /\ Finish(heard, FALSE, Max({1, Len(n.log)}))
           \/ m.term >= n.term /\ PrevMatches(n, m) /\ Finish(caughtUp, TRUE, 0)
        /\ UNCHANGED used

-----------------------------------------------------------------------------
(* Replies: the closures of _startPreVote, _becomeCandidate and             *)
(* _replicateToPeer.                                                       *)

Deliverable(m) == m.incarnation = node[m.to].incarnation

\* Takes the new state of the receiver and sends what the new role announces.
Settle(m, after) ==
    /\ WithinBounds(after)
    /\ node' = [node EXCEPT ![m.to] = after]
    /\ \E rest \in Without(m) :
            Send(rest, IF after.role # node[m.to].role THEN Announce(after, m.to) ELSE {})
    /\ UNCHANGED used

\* Neither the round's term nor whether the node still runs is checked.
HandlePreVoteReply(m) ==
    LET s       == m.to
        counted == [node[s] EXCEPT !.preVotes[m.round].granted = @ \cup {m.from}]
    IN  /\ m.type = "RequestVoteReply" /\ m.preVote
        /\ Deliverable(m)
        /\ Settle(m, IF node[s].role # "PRE_CANDIDATE" THEN node[s]
                     ELSE IF Cardinality(counted.preVotes[m.round].granted) >= QuorumSize
                     THEN BecomeCandidate(counted, s)
                     ELSE counted)

HandleVoteReply(m) ==
    LET s       == m.to
        n       == node[s]
        counted == [n EXCEPT !.votes = @ \cup {m.from}]
        counts  == m.granted /\ n.role = "CANDIDATE" /\ m.term = n.term
    IN  /\ m.type = "RequestVoteReply" /\ ~m.preVote
        /\ Deliverable(m)
        /\ Settle(m, IF ~n.running THEN n
                     ELSE IF m.term > n.term THEN StepDown(n, m.term, Nobody)
                     ELSE IF ~counts THEN n
                     ELSE IF Cardinality(counted.votes) >= QuorumSize
                     THEN BecomeLeader(counted, s)
                     ELSE counted)

\* Nothing ties a reply to the leadership that sent the request; a transport
\* that gives up on a call earlier is RepliesOutliveTerm = FALSE.
HandleAppendReply(m) ==
    LET s == m.to
        n == node[s]
    IN  /\ m.type = "AppendEntriesReply"
        /\ Deliverable(m)
        /\ RepliesOutliveTerm \/ m.sentIn = n.term
        /\ Settle(m, IF ~n.running THEN n
                     ELSE IF m.term > n.term THEN StepDown(n, m.term, Nobody)
                     ELSE IF n.role # "LEADER" THEN n
                     ELSE IF m.success
                     THEN CheckCommitIndex(UpdateProgress(n, m.from, m.matchIndex), s)
                     ELSE BackOff(n, m.from, m.conflictIndex))

-----------------------------------------------------------------------------
\* A new cluster: every node has been constructed and started.
Init ==
    /\ node = [s \in Server |-> Started(NewNode(0, Nobody, 0))]
    /\ rpcs = {}
    /\ used = [timeouts |-> 0, stops |-> 0, crashes |-> 0]

Next ==
    \/ \E s \in Server :
        \/ Start(s)
        \/ Stop(s)
        \/ Crash(s)
        \/ ElectionTimeout(s)
        \/ Heartbeat(s)
        \/ \E v \in Value : Propose(s, v)
    \/ \E m \in rpcs :
        \/ HandleRequestVote(m)
        \/ HandleAppendEntries(m)
        \/ HandlePreVoteReply(m)
        \/ HandleVoteReply(m)
        \/ HandleAppendReply(m)

Spec == Init /\ [][Next]_vars
=============================================================================
