---------------------------- MODULE CommitProofs ----------------------------
(***************************************************************************)
(* What the state machines of Raft apply, for every cluster: no two apply  *)
(* different entries at one index, later leaders have what was applied,    *)
(* and a quorum stores it.                                                 *)
(*                                                                         *)
(* The code promises it as long as the processes live (a log is only in    *)
(* memory), a batch takes a log to its end (a follower answers with the    *)
(* length of its log, checked or not), and answers of an earlier           *)
(* leadership do not count, which matters for more than three servers.     *)
(***************************************************************************)
EXTENDS CommitHistory, RaftProofs

LogsSurvive     == MaxCrashes = 0
BatchesCoverLog == MaxLogLen \in Nat /\ MaxLogLen <= MaxEntriesPerRpc
AcksAreOfTheReign == ~RepliesOutliveTerm \/ Cardinality(Server) <= 3

-----------------------------------------------------------------------------
(* What the steps of the node do to the fields a commit depends on.        *)

\* The log and what is applied of it.
Idle(n, k) == k.log = n.log /\ k.commit = n.commit /\ k.applied = n.applied

SameProgress(n, k) == k.next = n.next /\ k.match = n.match

Unmoved(n, k) == SameBallot(n, k) /\ Idle(n, k) /\ SameProgress(n, k)

Applying(applied, log, c) == applied \o SubSeq(log, Len(applied) + 1, c)

LEMMA TimersUnmoved ==
    ASSUME NEW n \in NodeType
    PROVE  /\ Unmoved(n, TimerStart(n))
           /\ Unmoved(n, TimerReset(n))
           /\ Unmoved(n, TimerStop(n))
BY DEF NodeType, TimerStart, TimerReset, TimerStop, Unmoved, SameBallot, Idle, SameProgress

LEMMA StepDownIdle ==
    ASSUME NEW n \in NodeType, NEW t, NEW l
    PROVE  Idle(n, StepDown(n, t, l)) /\ StepDown(n, t, l).role = "FOLLOWER"
           /\ StepDown(n, t, l).term = t
BY DEF NodeType, StepDown, TimerStart, Idle

LEMMA StartedIdle ==
    ASSUME NEW n \in NodeType
    PROVE  Idle(n, Started(n))
BY DEF NodeType, Started, TimerStart, Idle

LEMMA ApplyEntriesMoves ==
    ASSUME NEW n \in NodeType
    PROVE  LET k == ApplyEntries(n)
           IN  /\ SameBallot(n, k) /\ SameProgress(n, k) /\ k.log = n.log
               /\ k.commit = n.commit /\ k.applied = Applying(n.applied, n.log, n.commit)
BY DEF NodeType, ApplyEntries, SameBallot, SameProgress, Applying

\* What counting the matches may do: the commit index moves to what a quorum
\* reached, if that is of the leader's term.
Commits(s, n, k) ==
    \/ k.commit = n.commit /\ k.applied = n.applied
    \/ /\ k.commit = QuorumMatchIndex(k, s)
       /\ k.commit \in n.commit + 1 .. Len(k.log)
       /\ k.log[k.commit].term = k.term
       /\ k.applied = Applying(n.applied, k.log, k.commit)

LEMMA QuorumMatchIndexOf ==
    ASSUME NEW n, NEW k, NEW s, k.log = n.log, k.match = n.match
    PROVE  QuorumMatchIndex(n, s) = QuorumMatchIndex(k, s)
BY DEF QuorumMatchIndex

LEMMA CheckCommitIndexMoves ==
    ASSUME NEW n \in NodeType, NEW s \in Server
    PROVE  LET k == CheckCommitIndex(n, s)
           IN  /\ SameBallot(n, k) /\ SameProgress(n, k) /\ k.log = n.log
               /\ Commits(s, n, k)
<1> DEFINE i == QuorumMatchIndex(n, s)
           g == [n EXCEPT !.commit = i]
           k == CheckCommitIndex(n, s)
<1>1. CASE i \in n.commit + 1 .. Len(n.log) /\ n.log[i].term = n.term
    <2>1. g \in NodeType /\ g.log = n.log /\ g.commit = i /\ g.applied = n.applied
          /\ SameBallot(n, g) /\ SameProgress(n, g)
        <3> HIDE DEF i
        <3>1. i \in Nat
            BY <1>1, LenProperties DEF NodeType
        <3>2. QED
            BY <3>1 DEF NodeType, SameBallot, SameProgress
    <2>2. k = ApplyEntries(g)
        BY <1>1 DEF CheckCommitIndex
    <2> HIDE DEF g, i, k
    <2>3. /\ SameBallot(n, k) /\ SameProgress(n, k) /\ k.log = n.log /\ k.commit = i
          /\ k.applied = Applying(n.applied, n.log, i)
        BY <2>1, <2>2, ApplyEntriesMoves DEF SameBallot, SameProgress
    <2>4. i = QuorumMatchIndex(k, s)
        BY <2>3, QuorumMatchIndexOf DEF SameProgress, i
    <2>5. Commits(s, n, k)
        BY <1>1, <2>3, <2>4 DEF Commits, SameBallot
    <2>6. QED
        BY <2>3, <2>5 DEF k
<1>2. CASE ~(i \in n.commit + 1 .. Len(n.log) /\ n.log[i].term = n.term)
    BY <1>2 DEF CheckCommitIndex, SameBallot, SameProgress, Commits
<1>3. QED
    BY <1>1, <1>2

LEMMA UpdateProgressMoves ==
    ASSUME NEW n \in NodeType, NEW p \in Server, NEW i \in Nat
    PROVE  LET k == UpdateProgress(n, p, i)
               m == IF n.match[p] >= i THEN n.match[p] ELSE i
           IN  /\ SameBallot(n, k) /\ Idle(n, k)
               /\ k.match = [n.match EXCEPT ![p] = m]
               /\ k.next = [n.next EXCEPT ![p] = m + 1]
<1>1. n.match[p] \in Int
    BY DEF NodeType
<1>2. Max({n.match[p], i}) = IF n.match[p] >= i THEN n.match[p] ELSE i
    BY <1>1, MaxOfTwo
<1>3. QED
    BY <1>2 DEF UpdateProgress, NodeType, SameBallot, Idle

LEMMA BackOffMoves ==
    ASSUME NEW n \in NodeType, NEW p \in Server, NEW i \in Nat
    PROVE  LET k == BackOff(n, p, i)
           IN  /\ SameBallot(n, k) /\ Idle(n, k) /\ k.match = n.match
               /\ \A q \in Server : k.next[q] <= n.next[q]
<1> DEFINE lower == Max({1, n.next[p] - 1})
           new   == IF i > 0 THEN Min({lower, i}) ELSE lower
           k     == [n EXCEPT !.next[p] = new]
<1>1. n.next \in [Server -> Nat \ {0}]
    BY DEF NodeType
<1>2. lower \in Nat \ {0} /\ lower <= n.next[p]
    BY <1>1, MaxOfTwo
<1>3. new <= n.next[p]
    <2> HIDE DEF lower
    <2>1. QED
        BY <1>1, <1>2, MinOfTwo
<1>4. BackOff(n, p, i) = k
    BY DEF BackOff
<1> HIDE DEF new
<1>5. /\ SameBallot(n, k) /\ Idle(n, k) /\ k.match = n.match
      /\ k.next = [n.next EXCEPT ![p] = new]
    BY DEF NodeType, SameBallot, Idle
<1> HIDE DEF k
<1>6. QED
    BY <1>1, <1>3, <1>4, <1>5

\* What a new leader knows of its peers.
Inaugural(n, k) ==
    /\ k.role = "LEADER" /\ k.log = Append(n.log, NoOpOf(k.term))
    /\ k.commit = n.commit /\ k.applied = n.applied
    /\ k.next = [p \in Server |-> Len(n.log) + 1]
    /\ k.match = [p \in Server |-> 0]

LEMMA BecomeLeaderMoves ==
    ASSUME NEW n \in NodeType, NEW s \in Server
    PROVE  Inaugural(n, BecomeLeader(n, s))
<1> DEFINE k   == TimerStop([n EXCEPT !.role = "LEADER", !.leader = s])
           led == InitLeaderProgress(k)
<1>1. k \in NodeType /\ Idle(n, k)
    BY DEF TimerStop, NodeType, Roles, Timers, Idle
<1>2. /\ led.commit = n.commit /\ led.applied = n.applied
      /\ led.next = [p \in Server |-> Len(n.log) + 1] /\ led.match = [p \in Server |-> 0]
    <2> HIDE DEF k
    <2>1. QED
        BY <1>1 DEF InitLeaderProgress, NodeType, Idle
<1>3. led \in NodeType
    <2> HIDE DEF k
    <2>1. QED
        BY <1>1, ProgressType
<1>4. BecomeLeader(n, s) = [led EXCEPT !.log = Append(led.log, NoOpOf(n.term))]
    BY DEF BecomeLeader, NoOpOf
<1>5. /\ BecomeLeader(n, s).log = Append(n.log, NoOpOf(n.term))
      /\ BecomeLeader(n, s).role = "LEADER" /\ BecomeLeader(n, s).term = n.term
    BY BecomeLeaderLog, BecomeLeaderType
<1> HIDE DEF led, k
<1>6. QED
    BY <1>2, <1>3, <1>4, <1>5 DEF NodeType, Inaugural

\* Standing for election: of a cluster of one, leading at once.
StoodMoves(s, n, k) ==
    /\ k.term = n.term + 1 /\ k.votes = {s}
    /\ \/ k.role = "CANDIDATE" /\ Idle(n, k)
       \/ Inaugural(n, k)

LEMMA BecomeCandidateMoves ==
    ASSUME NEW n \in NodeType, NEW s \in Server
    PROVE  StoodMoves(s, n, BecomeCandidate(n, s))
<1> DEFINE t    == n.term + 1
           k    == [n EXCEPT !.role = "CANDIDATE", !.term = t, !.votedFor = s,
                             !.votes = {s}]
           cand == TimerReset(k)
<1>1. /\ k \in NodeType /\ k.role = "CANDIDATE" /\ Idle(n, k) /\ k.term = t /\ k.votes = {s}
    <2>1. t \in Nat
        BY DEF NodeType
    <2> HIDE DEF t
    <2>2. QED
        BY <2>1 DEF NodeType, Roles, Idle
<1>2. /\ cand \in NodeType /\ cand.role = "CANDIDATE" /\ Idle(n, cand)
      /\ cand.term = t /\ cand.votes = {s}
    <2> HIDE DEF k
    <2>1. QED
        BY <1>1, TimersType, TimersUnmoved DEF Unmoved, SameBallot, Idle
<1>3. BecomeCandidate(n, s) = IF QuorumSize = 1 THEN BecomeLeader(cand, s) ELSE cand
    BY DEF BecomeCandidate
<1> HIDE DEF cand, k
<1>4. /\ Inaugural(cand, BecomeLeader(cand, s))
      /\ BecomeLeader(cand, s).term = t /\ BecomeLeader(cand, s).votes = {s}
    BY <1>2, BecomeLeaderType, BecomeLeaderMoves
<1>5. Inaugural(n, BecomeLeader(cand, s))
    BY <1>2, <1>4 DEF Inaugural, Idle
<1>6. QED
    BY <1>2, <1>3, <1>4, <1>5 DEF StoodMoves

LEMMA StartPreVoteMoves ==
    ASSUME NEW n \in NodeType, NEW s \in Server
    PROVE  LET k == StartPreVote(n, s)
           IN  \/ k.role = "PRE_CANDIDATE" /\ k.term = n.term /\ Idle(n, k)
               \/ StoodMoves(s, n, k)
<1> DEFINE round == [term |-> n.term + 1, granted |-> {s}]
           pre   == [n EXCEPT !.role = "PRE_CANDIDATE", !.preVotes = Append(n.preVotes, round)]
<1>1. Append(n.preVotes, round) \in Seq(Round)
    BY AppendProperties DEF NodeType, Round
<1>2. /\ pre \in NodeType /\ pre.role = "PRE_CANDIDATE" /\ pre.term = n.term
      /\ Idle(n, pre)
    BY <1>1 DEF NodeType, Roles, Idle
<1>3. StartPreVote(n, s) = IF QuorumSize = 1 THEN BecomeCandidate(pre, s) ELSE pre
    BY DEF StartPreVote
<1> HIDE DEF pre
<1>4. StoodMoves(s, pre, BecomeCandidate(pre, s))
    BY <1>2, BecomeCandidateMoves
<1>5. StoodMoves(s, n, BecomeCandidate(pre, s))
    BY <1>2, <1>4 DEF StoodMoves, Inaugural, Idle
<1>6. QED
    BY <1>2, <1>3, <1>5

-----------------------------------------------------------------------------
(* How a step moves each server: n is its object before, k the one after.   *)

\* Nothing of the log, and no role that was not there.
Rests(n, k) ==
    /\ Idle(n, k) /\ k.term >= n.term
    /\ k.role = "LEADER" => /\ n.role = "LEADER" /\ k.term = n.term
                            /\ k.match = n.match
                            /\ \A p \in Server : k.next[p] <= n.next[p]
    /\ k.role = "CANDIDATE" => n.role = "CANDIDATE" /\ k.term = n.term /\ k.votes = n.votes

Polls(s, n, k) ==
    Idle(n, k) /\ k.role = "CANDIDATE" /\ k.term = n.term + 1 /\ k.votes = {s}

\* A grant of the candidate's term is counted.
CountsVote(s, n, k) ==
    /\ n.role = "CANDIDATE" /\ k.term = n.term
    /\ \E m \in rpcs : /\ IsGrant(m) /\ m.to = s /\ m.term = n.term
                       /\ k.votes = n.votes \cup {m.from}

Tallies(s, n, k) == Idle(n, k) /\ k.role = "CANDIDATE" /\ CountsVote(s, n, k)

Wins(s, n, k) ==
    /\ Inaugural(n, k)
    /\ (k.term = n.term + 1 /\ k.votes = {s}) \/ CountsVote(s, n, k)

Leading(n, k) == n.role = "LEADER" /\ k.role = "LEADER" /\ k.term = n.term

Proposes(s, n, k) ==
    /\ Leading(n, k) /\ SameProgress(n, k) /\ Commits(s, n, k)
    /\ \E v \in Value : k.log = Append(n.log, [term |-> k.term, value |-> v])

\* A follower's answer moves what the leader knows of it.
Learns(s, n, k) ==
    /\ Leading(n, k) /\ k.log = n.log /\ Commits(s, n, k)
    /\ \E m \in rpcs :
        /\ m.type = "AppendEntriesReply" /\ m.success /\ m.to = s
        /\ RepliesOutliveTerm \/ m.sentIn = n.term
        /\ LET i == IF n.match[m.from] >= m.matchIndex THEN n.match[m.from] ELSE m.matchIndex
           IN  /\ k.match = [n.match EXCEPT ![m.from] = i]
               /\ k.next = [n.next EXCEPT ![m.from] = i + 1]

\* A follower takes the entries of request m, and its commit index.
Accepts(s, n, k, m) ==
    /\ m.type = "AppendEntries" /\ m.to = s /\ k.term = m.term /\ k.term >= n.term
    /\ m.prevIndex > 0 => GetTerm(n.log, m.prevIndex) = m.prevTerm
    /\ k.log = MergeEntries(n.log, m.prevIndex, m.entries)
    /\ k.role = "LEADER" => n.role = "LEADER" /\ k.term = n.term
    /\ k.role = "CANDIDATE" => n.role = "CANDIDATE" /\ k.term = n.term /\ k.votes = n.votes
    /\ IF m.commit > n.commit
       THEN /\ k.commit = IF m.commit <= Len(k.log) THEN m.commit ELSE Len(k.log)
            /\ k.applied = Applying(n.applied, k.log, k.commit)
       ELSE k.commit = n.commit /\ k.applied = n.applied

Move(s, n, k) ==
    \/ Rests(n, k)
    \/ Polls(s, n, k)
    \/ Tallies(s, n, k)
    \/ Wins(s, n, k)
    \/ Proposes(s, n, k)
    \/ Learns(s, n, k)
    \/ \E m \in rpcs : Accepts(s, n, k, m)

-----------------------------------------------------------------------------
(* What s sends as it moves.                                               *)

\* The vote that grant m tells of was asked for, by a log as good as n's.
Grants(s, n, k, m) ==
    /\ m.from = s /\ m.term = k.term /\ Rests(n, k)
    /\ \E q \in rpcs : /\ q.type = "RequestVote" /\ ~q.preVote
                       /\ q.from = m.to /\ q.term = m.term /\ LogUpToDate(n, q)

\* What ack m tells of was taken from a request.
Acks(s, n, k, m) ==
    \E q \in rpcs : /\ Accepts(s, n, k, q)
                    /\ m.from = s /\ m.to = q.from /\ m.sentIn = q.term
                    /\ m.matchIndex = Len(k.log)

Sent(s, n, k, m) ==
    /\ m.type = "RequestVote" /\ ~m.preVote
            => k.role = "CANDIDATE" /\ m \in VoteRequests(k, s)
    /\ m.type = "AppendEntries" => k.role = "LEADER" /\ m \in AppendRequests(k, s)
    /\ IsGrant(m) => Grants(s, n, k, m)
    /\ m.type = "AppendEntriesReply" /\ m.success => Acks(s, n, k, m)

\* A log is not extended beyond the bound on logs, but for what a leader sent.
Bounded(s, n, k) ==
    k.log = n.log \/ Len(k.log) <= MaxLogLen \/ \E m \in rpcs : Accepts(s, n, k, m)

\* One server moves, and sends what goes with it.
CommitShape(s, k) ==
    /\ node' = [node EXCEPT ![s] = k]
    /\ Move(s, node[s], k) /\ Bounded(s, node[s], k)
    /\ \A m \in rpcs' \ rpcs : Sent(s, node[s], k, m)

LEMMA UnmovedRests ==
    ASSUME NEW n \in NodeType, NEW k, Unmoved(n, k)
    PROVE  Rests(n, k)
BY DEF Unmoved, SameBallot, SameProgress, Rests, NodeType

LEMMA RestsMoves ==
    ASSUME NEW s, NEW n, NEW k, Rests(n, k)
    PROVE  Move(s, n, k) /\ Bounded(s, n, k)
BY DEF Move, Bounded, Rests, Idle

LEMMA StepDownRests ==
    ASSUME NEW n \in NodeType, NEW t \in Nat, NEW l \in Server \cup {Nobody}, t > n.term
    PROVE  /\ StepDown(n, t, l) \in NodeType /\ StepDown(n, t, l).term = t
           /\ Rests(n, StepDown(n, t, l))
<1> DEFINE d == StepDown(n, t, l)
<1>1. d \in NodeType /\ d.role = "FOLLOWER" /\ d.term = t
    BY StepDownType
<1>2. Idle(n, d)
    BY StepDownIdle
<1>3. n.term \in Nat
    BY DEF NodeType
<1> HIDE DEF d
<1>4. Rests(n, d)
    BY <1>1, <1>2, <1>3 DEF Rests
<1>5. QED
    BY <1>1, <1>4 DEF d

LEMMA StoodMoved ==
    ASSUME NEW s, NEW n, NEW k, StoodMoves(s, n, k)
    PROVE  Move(s, n, k)
BY DEF StoodMoves, Move, Polls, Wins

LEMMA AnnounceSent ==
    ASSUME NEW s, NEW n, NEW k, NEW m \in Announce(k, s)
    PROVE  Sent(s, n, k, m)
<1>1. CASE k.role = "LEADER"
    <2>1. m \in AppendRequests(k, s) /\ m.type = "AppendEntries"
        BY <1>1 DEF Announce, AppendRequests, AppendRequest
    <2>2. QED
        BY <1>1, <2>1 DEF Sent, IsGrant
<1>2. CASE k.role \in {"PRE_CANDIDATE", "CANDIDATE"}
    <2>1. m \in VoteRequests(k, s)
        BY <1>2 DEF Announce
    <2>2. PICK p \in Peers(s) : m = VoteRequest(k, s, p)
        BY <2>1 DEF VoteRequests
    <2>3. m.type = "RequestVote" /\ (m.preVote <=> k.role = "PRE_CANDIDATE")
        BY <2>2 DEF VoteRequest
    <2>4. QED
        BY <1>2, <2>1, <2>3 DEF Sent, IsGrant
<1>3. QED
    BY <1>1, <1>2 DEF Announce

LEMMA StartCommit ==
    ASSUME TypeOK, NEW s \in Server, Start(s)
    PROVE  \E k \in NodeType : CommitShape(s, k)
<1> DEFINE k == Started(node[s])
<1>1. node[s] \in NodeType /\ node[s].term \in Nat
    BY DEF TypeOK, NodeType
<1>2. k \in NodeType /\ k.role = "FOLLOWER" /\ k.term = node[s].term /\ Idle(node[s], k)
    BY <1>1, StartedType, StartedIdle
<1>3. node' = [node EXCEPT ![s] = k] /\ rpcs' = rpcs
    BY DEF Start
<1> HIDE DEF k
<1>4. Rests(node[s], k)
    BY <1>1, <1>2 DEF Rests
<1>5. QED
    BY <1>2, <1>3, <1>4, RestsMoves DEF CommitShape

LEMMA StopCommit ==
    ASSUME TypeOK, NEW s \in Server, Stop(s)
    PROVE  \E k \in NodeType : CommitShape(s, k)
<1> DEFINE n == node[s]
           k == [n EXCEPT !.running = FALSE, !.pending = {}, !.timer = "off"]
<1>1. n \in NodeType
    BY DEF TypeOK
<1>2. k \in NodeType /\ Unmoved(n, k)
    BY <1>1 DEF NodeType, Unmoved, SameBallot, SameProgress, Idle, Timers
<1>3. node' = [node EXCEPT ![s] = k] /\ rpcs' = rpcs
    BY <1>1 DEF Stop, TimerStop, NodeType
<1> HIDE DEF k
<1>4. QED
    BY <1>1, <1>2, <1>3, UnmovedRests, RestsMoves DEF CommitShape

\* The processes of the theorems below do not die.
LEMMA CrashCommit ==
    ASSUME TypeOK, LogsSurvive, NEW s \in Server
    PROVE  ~Crash(s)
BY DEF TypeOK, LogsSurvive, Crash

LEMMA ElectionTimeoutCommit ==
    ASSUME TypeOK, NEW s \in Server, ElectionTimeout(s)
    PROVE  \E k \in NodeType : CommitShape(s, k)
<1> DEFINE n     == node[s]
           fired == [n EXCEPT !.timer = "fired"]
           after == StartPreVote(fired, s)
<1>1. n \in NodeType /\ n.term \in Nat
    BY DEF TypeOK, NodeType
<1>2. fired \in NodeType /\ Unmoved(n, fired)
    BY <1>1 DEF NodeType, Unmoved, SameBallot, SameProgress, Idle, Timers
<1>3. after \in NodeType /\ Move(s, n, after)
    <2> HIDE DEF fired
    <2>1. /\ after \in NodeType
          /\ \/ after.role = "PRE_CANDIDATE" /\ after.term = fired.term /\ Idle(fired, after)
             \/ StoodMoves(s, fired, after)
        BY <1>2, StartPreVoteType, StartPreVoteMoves
    <2> HIDE DEF after
    <2>2. CASE after.role = "PRE_CANDIDATE" /\ after.term = fired.term /\ Idle(fired, after)
        BY <1>1, <1>2, <2>1, <2>2 DEF Move, Rests, Idle, Unmoved, SameBallot
    <2>3. CASE StoodMoves(s, fired, after)
        <3>1. StoodMoves(s, n, after)
            BY <1>2, <2>3 DEF StoodMoves, Inaugural, Idle, Unmoved, SameBallot
        <3>2. QED
            BY <2>1, <3>1, StoodMoved
    <2>4. QED
        BY <2>1, <2>2, <2>3
<1>4. CASE n.running /\ n.role # "LEADER"
    <2>1. node' = [node EXCEPT ![s] = after] /\ rpcs' \subseteq rpcs \cup Announce(after, s)
          /\ Len(after.log) <= MaxLogLen
        BY <1>4, SendAdds DEF ElectionTimeout, WithinBounds
    <2> HIDE DEF after
    <2>2. CommitShape(s, after)
        BY <1>3, <2>1, AnnounceSent DEF CommitShape, Bounded
    <2>3. QED
        BY <1>3, <2>2
<1>5. CASE ~(n.running /\ n.role # "LEADER")
    <2>1. node' = [node EXCEPT ![s] = fired] /\ rpcs' = rpcs
        BY <1>5 DEF ElectionTimeout
    <2> HIDE DEF fired
    <2>2. QED
        BY <1>1, <1>2, <2>1, UnmovedRests, RestsMoves DEF CommitShape
<1>6. QED
    BY <1>4, <1>5

LEMMA HeartbeatCommit ==
    ASSUME TypeOK, NEW s \in Server, Heartbeat(s)
    PROVE  \E k \in NodeType : CommitShape(s, k)
<1> DEFINE n == node[s]
<1>1. n \in NodeType /\ n.role = "LEADER" /\ node' = [node EXCEPT ![s] = n]
    BY DEF Heartbeat, TypeOK
<1>2. rpcs' \subseteq rpcs \cup AppendRequests(n, s)
    BY SendAdds DEF Heartbeat
<1>3. AppendRequests(n, s) = Announce(n, s)
    BY <1>1 DEF Announce
<1>4. Rests(n, n)
    BY <1>1, UnmovedRests DEF Unmoved, SameBallot, SameProgress, Idle
<1>5. QED
    BY <1>1, <1>2, <1>3, <1>4, AnnounceSent, RestsMoves DEF CommitShape

LEMMA ProposeCommit ==
    ASSUME TypeOK, NEW s \in Server, NEW v \in Value, Propose(s, v)
    PROVE  \E k \in NodeType : CommitShape(s, k)
<1> DEFINE n        == node[s]
           entry    == [term |-> n.term, value |-> v]
           log      == Append(n.log, entry)
           appended == [n EXCEPT !.log = log]
           index    == Len(appended.log)
           proposal == [index |-> index, entry |-> entry]
           others   == {p \in n.pending : p.index # index}
           waiting  == [appended EXCEPT !.pending = others \cup {proposal}]
           after    == IF Peers(s) = {} THEN CheckCommitIndex(waiting, s) ELSE waiting
<1>1. n \in NodeType /\ n.role = "LEADER"
    BY DEF TypeOK, Propose
<1>2. entry \in Entry /\ log \in Seq(Entry) /\ Len(log) \in Nat \ {0}
    <2>1. entry \in Entry
        BY <1>1 DEF NodeType, Entry
    <2> HIDE DEF entry
    <2>2. n.log \in Seq(Entry) /\ Len(n.log) \in Nat
        BY <1>1, LenProperties DEF NodeType
    <2>3. QED
        BY <2>1, <2>2, AppendProperties
<1>3. /\ appended \in NodeType /\ SameBallot(n, appended) /\ appended.log = log
      /\ appended.pending = n.pending /\ SameProgress(n, appended)
      /\ appended.commit = n.commit /\ appended.applied = n.applied
    <2> HIDE DEF log
    <2>1. QED
        BY <1>1, <1>2 DEF NodeType, SameBallot, SameProgress
<1>4. /\ waiting \in NodeType /\ SameBallot(n, waiting) /\ waiting.log = log
      /\ SameProgress(n, waiting) /\ waiting.commit = n.commit /\ waiting.applied = n.applied
    <2>1. proposal \in Proposal
        <3>1. index \in Nat \ {0}
            BY <1>2, <1>3
        <3> HIDE DEF index, entry
        <3>2. QED
            BY <1>2, <3>1 DEF Proposal
    <2>2. others \in SUBSET Proposal
        BY <1>1 DEF NodeType
    <2> HIDE DEF proposal, others, appended, log
    <2>3. QED
        BY <1>3, <2>1, <2>2 DEF NodeType, SameBallot, SameProgress
<1>5. /\ node' = [node EXCEPT ![s] = after]
      /\ rpcs' \subseteq rpcs \cup AppendRequests(waiting, s)
    <2>1. /\ node' = [node EXCEPT ![s] = after]
          /\ Send(rpcs, AppendRequests(waiting, s))
        BY DEF Propose
    <2> HIDE DEF after, waiting
    <2>2. QED
        BY <2>1, SendAdds
<1>6. /\ after \in NodeType /\ SameBallot(n, after) /\ after.log = log
      /\ SameProgress(n, after) /\ Commits(s, n, after)
    <2> DEFINE k == CheckCommitIndex(waiting, s)
    <2> HIDE DEF waiting, log, k
    <2>1. /\ k \in NodeType /\ SameBallot(waiting, k) /\ SameProgress(waiting, k)
          /\ k.log = waiting.log /\ Commits(s, waiting, k)
        BY <1>4, CheckCommitIndexType, CheckCommitIndexMoves DEF k
    <2>2. /\ k \in NodeType /\ SameBallot(n, k) /\ SameProgress(n, k)
          /\ k.log = log /\ Commits(s, n, k)
        BY <1>4, <2>1 DEF SameBallot, SameProgress, Commits
    <2>3. Commits(s, n, waiting)
        BY <1>4 DEF Commits
    <2>4. QED
        BY <1>4, <2>2, <2>3 DEF k
<1>7. AppendRequests(waiting, s) = {} \/ after = waiting
    BY DEF AppendRequests
<1>8. Proposes(s, n, after)
    <2> HIDE DEF after
    <2>1. QED
        BY <1>1, <1>6 DEF Proposes, Leading, SameBallot
<1>9. Announce(after, s) = AppendRequests(after, s)
    <2> HIDE DEF after
    <2>1. QED
        BY <1>1, <1>6 DEF SameBallot, Announce
<1> HIDE DEF after, waiting
<1>10. \A m \in rpcs' \ rpcs : Sent(s, n, after, m)
    BY <1>5, <1>7, <1>9, AnnounceSent
<1>11. Len(after.log) <= MaxLogLen
    <2>1. Len(appended.log) <= MaxLogLen
        BY DEF Propose, WithinBounds
    <2> HIDE DEF appended
    <2>2. QED
        BY <1>3, <1>6, <2>1
<1>12. QED
    BY <1>5, <1>6, <1>8, <1>10, <1>11 DEF CommitShape, Move, Bounded

LEMMA HandleRequestVoteCommit ==
    ASSUME TypeOK, NEW m \in rpcs, HandleRequestVote(m)
    PROVE  \E s \in Server, k \in NodeType : CommitShape(s, k)
<1> DEFINE s == m.to
           C == m.term > node[s].term /\ ~m.preVote
           n == IF C THEN StepDown(node[s], m.term, Nobody) ELSE node[s]
           granted == m.term >= n.term /\ VoteIsFree(n, m) /\ LogUpToDate(n, m)
           voted == [n EXCEPT !.votedFor = m.from]
           k == IF granted /\ ~m.preVote THEN TimerReset(voted) ELSE n
           reply == [type |-> "RequestVoteReply", from |-> s, to |-> m.from,
                     preVote |-> m.preVote, term |-> n.term, granted |-> granted,
                     round |-> m.round, incarnation |-> m.incarnation]
           msgs == IF m.preVote /\ ~granted THEN {} ELSE {reply}
<1>1. /\ s \in Server /\ m.from \in Server /\ m.term \in Nat
      /\ node[s] \in NodeType /\ node[s].term \in Nat /\ m.type = "RequestVote"
    BY DEF TypeOK, RpcType, VoteRequestType, AppendRequestType, VoteReplyType,
           AppendReplyType, HandleRequestVote, NodeType
<1>2. /\ n \in NodeType /\ Rests(node[s], n) /\ n.log = node[s].log
      /\ ~m.preVote => n.term >= m.term
    <2> DEFINE o == node[s]
               d == StepDown(o, m.term, Nobody)
    <2> HIDE DEF o
    <2>1. o \in NodeType /\ o.term \in Nat /\ o = node[s]
        BY <1>1 DEF o
    <2>2. d \in NodeType /\ d.role = "FOLLOWER" /\ d.term = m.term /\ Idle(o, d)
        BY <1>1, <2>1, StepDownType, StepDownIdle
    <2>3. n = IF m.term > o.term /\ ~m.preVote THEN d ELSE o
        BY <2>1
    <2> HIDE DEF d, n
    <2>4. Rests(o, o)
        BY <2>1, UnmovedRests DEF Unmoved, SameBallot, SameProgress, Idle
    <2>5. m.term > o.term => Rests(o, d)
        BY <1>1, <2>1, <2>2 DEF Rests
    <2>6. QED
        BY <1>1, <2>1, <2>2, <2>3, <2>4, <2>5 DEF Idle
<1>3. k \in NodeType /\ Rests(n, k) /\ k.term = n.term
    <2> HIDE DEF n, granted
    <2>1. voted \in NodeType /\ Rests(n, voted) /\ voted.term = n.term
        <3>1. m.from \in Server \cup {Nobody} /\ n \in NodeType
            BY <1>1, <1>2
        <3>2. /\ voted \in NodeType /\ Idle(n, voted) /\ SameProgress(n, voted)
              /\ voted.role = n.role /\ voted.term = n.term /\ voted.votes = n.votes
            BY <3>1 DEF NodeType, Idle, SameProgress
        <3>3. n.term \in Nat /\ \A p \in Server : n.next[p] \in Nat
            BY <3>1 DEF NodeType
        <3> HIDE DEF voted
        <3>4. QED
            BY <3>2, <3>3 DEF Rests, SameProgress
    <2> HIDE DEF voted
    <2>2. TimerReset(voted) \in NodeType /\ Unmoved(voted, TimerReset(voted))
        BY <2>1, TimersType, TimersUnmoved
    <2>3. Rests(n, TimerReset(voted)) /\ TimerReset(voted).term = n.term
        BY <2>1, <2>2 DEF Rests, Unmoved, SameBallot, SameProgress, Idle
    <2>4. Rests(n, n)
        BY <1>2, UnmovedRests DEF Unmoved, SameBallot, SameProgress, Idle
    <2>5. QED
        BY <1>2, <2>2, <2>3, <2>4
<1>4. Rests(node[s], k)
    <2>1. k.term \in Nat /\ n.term \in Nat
        <3> HIDE DEF k, n
        <3>1. QED
            BY <1>2, <1>3 DEF NodeType
    <2> HIDE DEF k, n
    <2>2. \A p \in Server : k.next[p] \in Nat /\ n.next[p] \in Nat /\ node[s].next[p] \in Nat
        BY <1>1, <1>2, <1>3 DEF NodeType
    <2>3. QED
        BY <1>1, <1>2, <1>3, <2>1, <2>2 DEF Rests, Idle
<1>5. node' = [node EXCEPT ![s] = k] /\ \E rest \in Without(m) : Send(rest, msgs)
    BY DEF HandleRequestVote
<1>6. ASSUME NEW x \in msgs
      PROVE  Sent(s, node[s], k, x)
    <2>1. /\ x.type = "RequestVoteReply" /\ x.from = s /\ x.to = m.from
          /\ x.term = n.term /\ x.granted = granted /\ x.preVote = m.preVote
        OBVIOUS
    <2>2. LogUpToDate(n, m) => LogUpToDate(node[s], m)
        <3> HIDE DEF n
        <3>1. QED
            BY <1>2 DEF LogUpToDate
    <2>3. IsGrant(x) => ~m.preVote /\ LogUpToDate(n, m) /\ m.term >= n.term
        BY <2>1 DEF IsGrant
    <2>4. k.term = n.term /\ n.term \in Nat
        <3> HIDE DEF k, n
        <3>1. QED
            BY <1>2, <1>3 DEF NodeType
    <2> HIDE DEF n, k, granted, reply, msgs
    <2>5. IsGrant(x) => Grants(s, node[s], k, x)
        BY <1>1, <1>2, <1>4, <2>1, <2>2, <2>3, <2>4 DEF Grants
    <2>6. QED
        BY <2>1, <2>5 DEF Sent
<1> HIDE DEF k, n, msgs, s
<1>7. rpcs' \subseteq rpcs \cup msgs
    BY <1>5, SendAdds, WithoutKeeps
<1>8. QED
    BY <1>1, <1>3, <1>4, <1>5, <1>6, <1>7, RestsMoves DEF CommitShape

LEMMA SettleCommit ==
    ASSUME TypeOK, NEW m \in rpcs, m.to \in Server, NEW after \in NodeType,
           Move(m.to, node[m.to], after), Settle(m, after)
    PROVE  \E s \in Server, k \in NodeType : CommitShape(s, k)
<1> DEFINE msgs == IF after.role # node[m.to].role THEN Announce(after, m.to) ELSE {}
<1>1. \A x \in msgs : Sent(m.to, node[m.to], after, x)
    BY AnnounceSent
<1>2. /\ node' = [node EXCEPT ![m.to] = after] /\ \E rest \in Without(m) : Send(rest, msgs)
      /\ Len(after.log) <= MaxLogLen
    BY DEF Settle, WithinBounds
<1> HIDE DEF msgs
<1>3. rpcs' \subseteq rpcs \cup msgs
    BY <1>2, SendAdds, WithoutKeeps
<1>4. CommitShape(m.to, after)
    BY <1>1, <1>2, <1>3 DEF CommitShape, Bounded
<1>5. QED
    BY <1>4

\* Counting a pre-vote keeps the rounds what they are, also where there is none.
LEMMA CountedRounds ==
    ASSUME NEW preVotes \in Seq(Round), NEW r \in Nat, NEW p \in Server
    PROVE  [preVotes EXCEPT ![r].granted = preVotes[r].granted \cup {p}] \in Seq(Round)
<1> DEFINE set    == preVotes[r].granted \cup {p}
           rounds == [preVotes EXCEPT ![r].granted = set]
<1>1. CASE r \in DOMAIN preVotes
    <2>1. preVotes[r] \in Round
        BY <1>1, ElementOfSeq
    <2>2. [preVotes[r] EXCEPT !.granted = set] \in Round
        BY <2>1 DEF Round
    <2>3. rounds = [preVotes EXCEPT ![r] = [preVotes[r] EXCEPT !.granted = set]]
        OBVIOUS
    <2>4. QED
        BY <1>1, <2>2, <2>3, ExceptSeq
<1>2. CASE r \notin DOMAIN preVotes
    <2>1. /\ DOMAIN preVotes = 1..Len(preVotes)
          /\ preVotes = [i \in 1..Len(preVotes) |-> preVotes[i]]
        BY LenProperties
    <2>2. rounds = preVotes
        BY <1>2, <2>1
    <2>3. QED
        BY <2>2
<1>3. QED
    BY <1>1, <1>2

LEMMA HandlePreVoteReplyCommit ==
    ASSUME TypeOK, NEW m \in rpcs, HandlePreVoteReply(m)
    PROVE  \E s \in Server, k \in NodeType : CommitShape(s, k)
<1> DEFINE s == m.to
           n == node[s]
           set == n.preVotes[m.round].granted \cup {m.from}
           rounds == [n.preVotes EXCEPT ![m.round].granted = set]
           counted == [n EXCEPT !.preVotes = rounds]
           won == Cardinality(counted.preVotes[m.round].granted) >= QuorumSize
           after == IF n.role # "PRE_CANDIDATE" THEN n
                    ELSE IF won THEN BecomeCandidate(counted, s) ELSE counted
<1>1. m.type = "RequestVoteReply" /\ m.preVote
    BY DEF HandlePreVoteReply
<1>2. m.from \in Server /\ s \in Server /\ m.round \in Nat /\ n \in NodeType
    BY <1>1, VoteReplyFields
<1>3. rounds \in Seq(Round)
    <2>1. n.preVotes \in Seq(Round)
        BY <1>2 DEF NodeType
    <2> HIDE DEF n
    <2>2. QED
        BY <1>2, <2>1, CountedRounds
<1>4. counted \in NodeType /\ Unmoved(n, counted)
    <2> HIDE DEF rounds, n
    <2>1. QED
        BY <1>2, <1>3 DEF NodeType, Unmoved, SameBallot, SameProgress, Idle
<1>5. Settle(m, after)
    BY DEF HandlePreVoteReply
<1> HIDE DEF counted
<1>6. BecomeCandidate(counted, s) \in NodeType /\ Move(s, n, BecomeCandidate(counted, s))
    <2> DEFINE k == BecomeCandidate(counted, s)
    <2>1. k \in NodeType /\ StoodMoves(s, counted, k)
        BY <1>2, <1>4, BecomeCandidateType, BecomeCandidateMoves
    <2> HIDE DEF k
    <2>2. StoodMoves(s, n, k)
        BY <1>4, <2>1 DEF StoodMoves, Inaugural, Idle, Unmoved, SameBallot
    <2>3. QED
        BY <2>1, <2>2, StoodMoved DEF k
<1>7. Move(s, n, n) /\ Move(s, n, counted)
    <2> HIDE DEF n
    <2>1. Unmoved(n, n)
        BY DEF Unmoved, SameBallot, SameProgress, Idle
    <2>2. QED
        BY <1>2, <1>4, <2>1, UnmovedRests, RestsMoves
<1>8. after \in NodeType /\ Move(s, n, after)
    <2> HIDE DEF won
    <2>1. QED
        BY <1>2, <1>4, <1>6, <1>7
<1> HIDE DEF after
<1>9. QED
    BY <1>2, <1>5, <1>8, SettleCommit

LEMMA HandleVoteReplyCommit ==
    ASSUME TypeOK, NEW m \in rpcs, HandleVoteReply(m)
    PROVE  \E s \in Server, k \in NodeType : CommitShape(s, k)
<1> DEFINE s == m.to
           n == node[s]
           counted == [n EXCEPT !.votes = n.votes \cup {m.from}]
           counts  == m.granted /\ n.role = "CANDIDATE" /\ m.term = n.term
           won == Cardinality(counted.votes) >= QuorumSize
           after == IF ~n.running THEN n
                    ELSE IF m.term > n.term THEN StepDown(n, m.term, Nobody)
                    ELSE IF ~counts THEN n
                    ELSE IF won THEN BecomeLeader(counted, s)
                    ELSE counted
<1>1. m.type = "RequestVoteReply" /\ ~m.preVote
    BY DEF HandleVoteReply
<1>2. m.from \in Server /\ s \in Server /\ m.term \in Nat /\ n \in NodeType /\ n.term \in Nat
    BY <1>1, VoteReplyFields DEF NodeType
<1>3. /\ counted \in NodeType /\ counted.role = n.role /\ counted.term = n.term
      /\ Idle(n, counted) /\ counted.votes = n.votes \cup {m.from}
    <2> HIDE DEF n
    <2>1. QED
        BY <1>2 DEF NodeType, Idle
<1>4. Settle(m, after)
    BY DEF HandleVoteReply
<1>5. n \in NodeType /\ Move(s, n, n)
    <2> HIDE DEF n
    <2>1. Unmoved(n, n)
        BY DEF Unmoved, SameBallot, SameProgress, Idle
    <2>2. QED
        BY <1>2, <2>1, UnmovedRests, RestsMoves
<1>6. m.term > n.term => /\ StepDown(n, m.term, Nobody) \in NodeType
                         /\ Move(s, n, StepDown(n, m.term, Nobody))
    <2> DEFINE d == StepDown(n, m.term, Nobody)
    <2> HIDE DEF n
    <2>1. m.term > n.term => d \in NodeType /\ Rests(n, d)
        BY <1>2, StepDownRests
    <2> HIDE DEF d
    <2>2. QED
        BY <2>1, RestsMoves DEF d
<1>7. counts => CountsVote(s, n, counted)
    <2> HIDE DEF counted
    <2>1. QED
        BY <1>1, <1>3 DEF CountsVote, IsGrant
<1>8. counts => /\ BecomeLeader(counted, s) \in NodeType
                /\ Move(s, n, BecomeLeader(counted, s))
                /\ Move(s, n, counted)
    <2> DEFINE led == BecomeLeader(counted, s)
    <2> HIDE DEF counted, n
    <2>1. /\ led \in NodeType /\ Inaugural(counted, led)
          /\ led.term = counted.term /\ led.votes = counted.votes
        BY <1>2, <1>3, BecomeLeaderType, BecomeLeaderMoves
    <2> HIDE DEF led, counts
    <2>2. Inaugural(n, led)
        BY <1>3, <2>1 DEF Inaugural, Idle
    <2>3. counts => CountsVote(s, n, led)
        BY <1>3, <1>7, <2>1 DEF CountsVote
    <2>4. counts => Wins(s, n, led)
        BY <2>2, <2>3 DEF Wins
    <2>5. counts => Tallies(s, n, counted)
        BY <1>3, <1>7 DEF Tallies, CountsVote
    <2>6. QED
        BY <2>1, <2>4, <2>5 DEF Move, led
<1>9. after \in NodeType /\ Move(s, n, after)
    <2> HIDE DEF counted, counts, won, n
    <2>1. QED
        BY <1>3, <1>5, <1>6, <1>8
<1> HIDE DEF after
<1>10. QED
    BY <1>2, <1>4, <1>9, SettleCommit

LEMMA HandleAppendReplyCommit ==
    ASSUME TypeOK, NEW m \in rpcs, HandleAppendReply(m)
    PROVE  \E s \in Server, k \in NodeType : CommitShape(s, k)
<1> DEFINE s == m.to
           n == node[s]
           moved == UpdateProgress(n, m.from, m.matchIndex)
           back == BackOff(n, m.from, m.conflictIndex)
           after == IF ~n.running THEN n
                    ELSE IF m.term > n.term THEN StepDown(n, m.term, Nobody)
                    ELSE IF n.role # "LEADER" THEN n
                    ELSE IF m.success THEN CheckCommitIndex(moved, s)
                    ELSE back
<1>1. m \in AppendReplyType /\ m.type = "AppendEntriesReply"
    BY DEF TypeOK, RpcType, HandleAppendReply, VoteRequestType, VoteReplyType,
           AppendRequestType
<1>2. /\ m.from \in Server /\ s \in Server /\ m.term \in Nat /\ m.matchIndex \in Nat
      /\ m.conflictIndex \in Nat
    BY <1>1 DEF AppendReplyType
<1>3. n \in NodeType /\ n.term \in Nat
    BY <1>2 DEF TypeOK, NodeType
<1>4. Settle(m, after) /\ (RepliesOutliveTerm \/ m.sentIn = n.term)
    BY DEF HandleAppendReply
<1> HIDE DEF n
<1>5. Move(s, n, n)
    <2>1. Unmoved(n, n)
        BY DEF Unmoved, SameBallot, SameProgress, Idle
    <2>2. QED
        BY <1>3, <2>1, UnmovedRests, RestsMoves
<1>6. m.term > n.term => /\ StepDown(n, m.term, Nobody) \in NodeType
                         /\ Move(s, n, StepDown(n, m.term, Nobody))
    <2> DEFINE d == StepDown(n, m.term, Nobody)
    <2>1. m.term > n.term => d \in NodeType /\ Rests(n, d)
        BY <1>2, <1>3, StepDownRests
    <2> HIDE DEF d
    <2>2. QED
        BY <2>1, RestsMoves DEF d
<1>7. ASSUME n.role = "LEADER", m.success
      PROVE  CheckCommitIndex(moved, s) \in NodeType /\ Move(s, n, CheckCommitIndex(moved, s))
    <2> DEFINE i == IF n.match[m.from] >= m.matchIndex THEN n.match[m.from] ELSE m.matchIndex
    <2>1. /\ moved \in NodeType /\ SameBallot(n, moved) /\ Idle(n, moved)
          /\ moved.match = [n.match EXCEPT ![m.from] = i]
          /\ moved.next = [n.next EXCEPT ![m.from] = i + 1]
        <3>1. moved \in NodeType
            BY <1>2, <1>3, ProgressType
        <3>2. QED
            BY <1>2, <1>3, <3>1, UpdateProgressMoves
    <2> DEFINE k == CheckCommitIndex(moved, s)
    <2> HIDE DEF moved
    <2>2. /\ k \in NodeType /\ SameBallot(moved, k) /\ SameProgress(moved, k)
          /\ k.log = moved.log /\ Commits(s, moved, k)
        BY <1>2, <2>1, CheckCommitIndexType, CheckCommitIndexMoves
    <2> HIDE DEF k
    <2>3. Commits(s, n, k) /\ k.log = n.log
        BY <2>1, <2>2 DEF Commits, Idle
    <2>4. /\ k.match = [n.match EXCEPT ![m.from] = i]
          /\ k.next = [n.next EXCEPT ![m.from] = i + 1]
        BY <2>1, <2>2 DEF SameProgress
    <2>5. Leading(n, k)
        BY <1>7, <2>1, <2>2 DEF Leading, SameBallot
    <2>6. Learns(s, n, k)
        BY <1>1, <1>4, <1>7, <2>3, <2>4, <2>5 DEF Learns
    <2>7. QED
        BY <2>2, <2>6 DEF Move, k
<1>8. back \in NodeType /\ Move(s, n, back)
    <2>1. /\ back \in NodeType /\ SameBallot(n, back) /\ Idle(n, back)
          /\ back.match = n.match /\ \A q \in Server : back.next[q] <= n.next[q]
        BY <1>2, <1>3, ProgressType, BackOffMoves
    <2> HIDE DEF back
    <2>2. Rests(n, back)
        BY <1>3, <2>1 DEF Rests, SameBallot
    <2>3. QED
        BY <2>1, <2>2, RestsMoves
<1>9. after \in NodeType /\ Move(s, n, after)
    <2> HIDE DEF moved, back
    <2>1. QED
        BY <1>3, <1>5, <1>6, <1>7, <1>8
<1> HIDE DEF after
<1>10. QED
    BY <1>2, <1>4, <1>9, SettleCommit DEF n

LEMMA HandleAppendEntriesCommit ==
    ASSUME TypeOK, NEW m \in rpcs, HandleAppendEntries(m)
    PROVE  \E s \in Server, k \in NodeType : CommitShape(s, k)
<1> DEFINE s == m.to
           o == node[s]
           n == IF m.term > node[s].term THEN StepDown(node[s], m.term, m.from) ELSE node[s]
           led      == [n EXCEPT !.leader = m.from]
           heard    == TimerReset(led)
           log      == MergeEntries(heard.log, m.prevIndex, m.entries)
           merged   == [heard EXCEPT !.log = log]
           least    == Min({m.commit, Len(merged.log)})
           grown    == [merged EXCEPT !.commit = least]
           caughtUp == IF m.commit > merged.commit THEN ApplyEntries(grown) ELSE merged
           Reply(after, success, conflict) ==
               [type |-> "AppendEntriesReply", from |-> s, to |-> m.from,
                term |-> after.term, success |-> success,
                matchIndex |-> Len(after.log), conflictIndex |-> conflict,
                sentIn |-> m.term, incarnation |-> m.incarnation]
           Finish(after, success, conflict) ==
               /\ node' = [node EXCEPT ![s] = after]
               /\ \E rest \in Without(m) : Send(rest, {Reply(after, success, conflict)})
<1>1. m \in AppendRequestType /\ m.type = "AppendEntries"
    BY DEF TypeOK, RpcType, HandleAppendEntries, VoteRequestType, VoteReplyType,
           AppendReplyType
<1>2. /\ s \in Server /\ m.from \in Server /\ m.term \in Nat /\ m.prevIndex \in Nat
      /\ m.entries \in Seq(Entry) /\ m.commit \in Nat
    BY <1>1 DEF AppendRequestType
<1>3. o \in NodeType /\ o.term \in Nat
    BY <1>2 DEF TypeOK, NodeType
<1>4. n \in NodeType /\ Rests(o, n) /\ m.term <= n.term /\ (n.term = m.term \/ n = o)
    <2> DEFINE d == StepDown(o, m.term, m.from)
    <2>1. n = IF m.term > o.term THEN d ELSE o
        OBVIOUS
    <2> HIDE DEF o, n
    <2>2. m.term > o.term => d \in NodeType /\ Rests(o, d) /\ d.term = m.term
        BY <1>2, <1>3, StepDownRests
    <2> HIDE DEF d
    <2>3. Rests(o, o)
        BY <1>3, UnmovedRests DEF Unmoved, SameBallot, SameProgress, Idle
    <2>4. QED
        BY <1>2, <1>3, <2>1, <2>2, <2>3
<1>5. heard \in NodeType /\ Unmoved(n, heard)
    <2> HIDE DEF n
    <2>1. led \in NodeType /\ Unmoved(n, led)
        BY <1>2, <1>4 DEF NodeType, Unmoved, SameBallot, SameProgress, Idle
    <2> HIDE DEF led
    <2>2. heard \in NodeType /\ Unmoved(led, heard)
        BY <2>1, TimersType, TimersUnmoved
    <2> HIDE DEF heard
    <2>3. QED
        BY <2>1, <2>2 DEF Unmoved, SameBallot, SameProgress, Idle
<1>6. /\ merged \in NodeType /\ SameBallot(n, merged) /\ merged.log = log
      /\ merged.commit = n.commit /\ merged.applied = n.applied
    <2> HIDE DEF heard, n
    <2>1. heard.log \in Seq(Entry)
        BY <1>5 DEF NodeType
    <2>2. log \in Seq(Entry)
        BY <1>2, <2>1, MergeEntriesType
    <2> HIDE DEF log
    <2>3. QED
        BY <1>5, <2>2 DEF NodeType, Unmoved, SameBallot, Idle
<1>7. /\ caughtUp \in NodeType /\ SameBallot(n, caughtUp) /\ caughtUp.log = log
      /\ IF m.commit > n.commit
         THEN /\ caughtUp.commit = IF m.commit <= Len(log) THEN m.commit ELSE Len(log)
              /\ caughtUp.applied = Applying(n.applied, log, caughtUp.commit)
         ELSE caughtUp.commit = n.commit /\ caughtUp.applied = n.applied
    <2> HIDE DEF merged, n, log
    <2>1. Len(merged.log) \in Nat
        BY <1>6, LenProperties DEF NodeType
    <2>2. /\ least \in Nat /\ least <= Len(merged.log)
          /\ least = IF m.commit <= Len(merged.log) THEN m.commit ELSE Len(merged.log)
        BY <1>2, <2>1, MinOfTwo
    <2>3. /\ grown \in NodeType /\ SameBallot(merged, grown) /\ grown.commit <= Len(grown.log)
          /\ grown.log = merged.log /\ grown.commit = least /\ grown.applied = merged.applied
        <3> HIDE DEF least
        <3>1. QED
            BY <1>6, <2>2 DEF NodeType, SameBallot
    <2> HIDE DEF grown
    <2> DEFINE a == ApplyEntries(grown)
    <2>4. a \in NodeType
        BY <2>3, ApplyEntriesType
    <2>5. /\ SameBallot(grown, a) /\ a.log = grown.log
          /\ a.commit = grown.commit /\ a.applied = Applying(grown.applied, grown.log, grown.commit)
        BY <2>3, ApplyEntriesMoves
    <2>6. caughtUp = IF m.commit > n.commit THEN a ELSE merged
        BY <1>6
    <2> HIDE DEF a, caughtUp, least
    <2>7. CASE m.commit > n.commit
        BY <1>6, <2>2, <2>3, <2>4, <2>5, <2>6, <2>7 DEF SameBallot
    <2>8. CASE ~(m.commit > n.commit)
        BY <1>6, <2>6, <2>8
    <2>9. QED
        BY <2>7, <2>8
<1>8. Rests(o, heard)
    <2> HIDE DEF o, n, heard
    <2>1. QED
        BY <1>4, <1>5 DEF Rests, Unmoved, SameBallot, SameProgress, Idle
<1>9. ASSUME m.term >= n.term, PrevMatches(n, m)
      PROVE  Accepts(s, o, caughtUp, m)
    <2> HIDE DEF o, n, caughtUp, s
    <2>1. log = MergeEntries(o.log, m.prevIndex, m.entries)
        <3> HIDE DEF heard
        <3>1. QED
            BY <1>4, <1>5 DEF Rests, Unmoved, Idle
    <2>2. n.term \in Nat /\ n.term = m.term
        <3>1. n.term \in Nat
            BY <1>4 DEF NodeType
        <3>2. QED
            BY <1>2, <1>4, <1>9, <3>1
    <2>3. m.prevIndex > 0 => GetTerm(o.log, m.prevIndex) = m.prevTerm
        BY <1>4, <1>9 DEF PrevMatches, Rests, Idle
    <2> HIDE DEF log
    <2>4. m.to = s
        BY DEF s
    <2>5. QED
        BY <1>1, <1>2, <1>3, <1>4, <1>7, <2>1, <2>2, <2>3, <2>4
           DEF Accepts, SameBallot, Rests, Idle
<1>10. ASSUME NEW after \in NodeType, NEW success, NEW conflict,
              Finish(after, success, conflict),
              \/ ~success /\ Rests(o, after)
              \/ Accepts(s, o, after, m)
       PROVE  CommitShape(s, after)
    <2> DEFINE x == Reply(after, success, conflict)
    <2>1. node' = [node EXCEPT ![s] = after] /\ \E rest \in Without(m) : Send(rest, {x})
        BY <1>10
    <2>2. /\ x.type = "AppendEntriesReply" /\ x.from = s /\ x.to = m.from
          /\ x.sentIn = m.term /\ x.matchIndex = Len(after.log) /\ x.success = success
        OBVIOUS
    <2> HIDE DEF x, s, o
    <2>3. rpcs' \subseteq rpcs \cup {x}
        BY <2>1, SendAdds, WithoutKeeps
    <2>4. success => Acks(s, o, after, x)
        BY <1>10, <2>2 DEF Acks
    <2>5. Sent(s, o, after, x)
        BY <2>2, <2>4 DEF Sent, IsGrant
    <2>6. Move(s, o, after) /\ Bounded(s, o, after)
        BY <1>10, RestsMoves DEF Move, Bounded
    <2>7. QED
        BY <2>1, <2>3, <2>5, <2>6 DEF CommitShape, o
<1>11. \/ Finish(n, FALSE, 0)
       \/ Finish(heard, FALSE, Max({1, Len(n.log)}))
       \/ m.term >= n.term /\ PrevMatches(n, m) /\ Finish(caughtUp, TRUE, 0)
    BY DEF HandleAppendEntries
<1> HIDE DEF Finish, Reply, heard, caughtUp, n, s, o
<1>12. QED
    BY <1>2, <1>4, <1>5, <1>7, <1>8, <1>9, <1>10, <1>11

LEMMA NextCommit ==
    ASSUME TypeOK, LogsSurvive, Next
    PROVE  \E s \in Server, k \in NodeType : CommitShape(s, k)
<1>1. CASE \E s \in Server : Start(s)
    BY <1>1, StartCommit
<1>2. CASE \E s \in Server : Stop(s)
    BY <1>2, StopCommit
<1>3. ~ \E s \in Server : Crash(s)
    BY CrashCommit
<1>4. CASE \E s \in Server : ElectionTimeout(s)
    BY <1>4, ElectionTimeoutCommit
<1>5. CASE \E s \in Server : Heartbeat(s)
    BY <1>5, HeartbeatCommit
<1>6. CASE \E s \in Server, v \in Value : Propose(s, v)
    BY <1>6, ProposeCommit
<1>7. CASE \E m \in rpcs : HandleRequestVote(m)
    BY <1>7, HandleRequestVoteCommit
<1>8. CASE \E m \in rpcs : HandleAppendEntries(m)
    BY <1>8, HandleAppendEntriesCommit
<1>9. CASE \E m \in rpcs : HandlePreVoteReply(m)
    BY <1>9, HandlePreVoteReplyCommit
<1>10. CASE \E m \in rpcs : HandleVoteReply(m)
    BY <1>10, HandleVoteReplyCommit
<1>11. CASE \E m \in rpcs : HandleAppendReply(m)
    BY <1>11, HandleAppendReplyCommit
<1>12. QED
    BY <1>1, <1>2, <1>3, <1>4, <1>5, <1>6, <1>7, <1>8, <1>9, <1>10, <1>11 DEF Next

-----------------------------------------------------------------------------
(* Logs and the reigns they follow.                                        *)

LEMMA EntryTerms ==
    ASSUME NEW log \in Seq(Entry)
    PROVE  Len(log) \in Nat /\ \A i \in 1..Len(log) : log[i] \in Entry /\ log[i].term \in Nat
<1>1. \A i \in 1..Len(log) : log[i] \in Entry
    BY ElementOfSeq
<1>2. QED
    BY <1>1, LenProperties DEF Entry

\* An entry of the log is that of its leader, and so is all before it.
LEMMA HasFollows ==
    ASSUME NEW R, NEW log, Follows(log, R), NEW t, NEW i, Has(log, t, i)
    PROVE  t > 0 /\ Has(R[t], t, i) /\ \A j \in 1..i : log[j] = R[t][j]
<1>1. i \in 1..Len(log) /\ log[i].term = t
    BY DEF Has
<1>2. t > 0 /\ i <= Len(R[t]) /\ \A j \in 1..i : log[j] = R[t][j]
    BY <1>1 DEF Follows
<1>3. i \in 1..i /\ i \in Nat
    BY <1>1
<1>4. R[t][i].term = t
    BY <1>1, <1>2, <1>3
<1>5. QED
    BY <1>2, <1>3, <1>4 DEF Has

LEMMA LastOfLog ==
    ASSUME NEW log \in Seq(Entry)
    PROVE  /\ log = <<>> => LastLogTerm(log) = 0 /\ Len(log) = 0
           /\ log # <<>> => Len(log) > 0 /\ Has(log, LastLogTerm(log), Len(log))
           /\ LastLogTerm(log) \in Nat
<1>1. Len(log) \in Nat /\ (log = <<>> <=> Len(log) = 0)
    BY LenProperties, EmptySeq
<1>2. \A i \in 1..Len(log) : log[i].term \in Nat
    BY EntryTerms
<1> DEFINE L == Len(log)
<1> HIDE DEF L
<1>3. L \in Nat /\ (L > 0 => L \in 1..L) /\ (L = 0 => L \notin 1..L)
    BY <1>1 DEF L
<1>4. LastLogTerm(log) = IF L \in 1..L THEN log[L].term ELSE 0
    BY DEF LastLogTerm, GetTerm, L
<1>5. L \in 1..L => log[L].term \in Nat
    BY <1>2 DEF L
<1>6. log # <<>> => L > 0 /\ L \in 1..L
    BY <1>1, <1>3 DEF L
<1>7. log # <<>> => L > 0 /\ Has(log, LastLogTerm(log), L)
    BY <1>4, <1>6 DEF Has, L
<1>8. QED
    BY <1>1, <1>3, <1>4, <1>5, <1>7 DEF L

\* A log is a piece of that of the leader of its last entry.
LEMMA LogEndsIn ==
    ASSUME NEW R, NEW log \in Seq(Entry), Follows(log, R), log # <<>>
    PROVE  LET w == LastLogTerm(log)
           IN  /\ w > 0 /\ Has(R[w], w, Len(log)) /\ Len(log) <= Len(R[w])
               /\ \A j \in 1..Len(log) : log[j] = R[w][j]
<1>1. Has(log, LastLogTerm(log), Len(log))
    BY LastOfLog
<1>2. Has(R[LastLogTerm(log)], LastLogTerm(log), Len(log))
    BY <1>1, HasFollows
<1>3. Len(log) <= Len(R[LastLogTerm(log)])
    BY <1>2, LenProperties DEF Has
<1>4. QED
    BY <1>1, <1>2, <1>3, HasFollows

-----------------------------------------------------------------------------
(* A step, with all that is known before it.                               *)

HeldType == held \in [Server -> [Nat -> Nat]]

\* How every server moves, and what is sent.
Moves ==
    /\ \A c \in Server : Move(c, node[c], node'[c]) /\ Bounded(c, node[c], node'[c])
    /\ \A m \in rpcs' \ rpcs : \E c \in Server : Sent(c, node[c], node'[c], m)

ReignMoves ==
    \A t \in Nat :
        /\ \A i \in 1..Len(reign[t]) : i <= Len(reign'[t]) /\ reign'[t][i] = reign[t][i]
        /\ \/ reign'[t] = reign[t]
           \/ \E c \in Server : /\ node'[c].role = "LEADER" /\ node'[c].term = t
                                 /\ reign'[t] = node'[c].log
        /\ \/ reign'[t] = reign[t]
           \/ reign[t] = <<>>
           \/ \E e \in Entry : reign'[t] = Append(reign[t], e)

CommitStep ==
    /\ Elections /\ Elections' /\ ElectionMove /\ OneCountPerVote'
    /\ LogsOnRecord /\ LogsOnRecord'
    /\ HeldType /\ CommitsOnRecord
    /\ Moves /\ ReignMoves /\ Hold

LEMMA NextMoves ==
    ASSUME TypeOK, LogsSurvive, Next
    PROVE  Moves
<1>1. PICK s \in Server, k \in NodeType : CommitShape(s, k)
    BY NextCommit
<1>2. /\ node' = [node EXCEPT ![s] = k] /\ node \in [Server -> NodeType]
      /\ node'[s] = k
    BY <1>1 DEF CommitShape, TypeOK
<1>3. ASSUME NEW c \in Server
      PROVE  Move(c, node[c], node'[c]) /\ Bounded(c, node[c], node'[c])
    <2>1. CASE c = s
        BY <1>1, <1>2, <2>1 DEF CommitShape
    <2>2. CASE c # s
        <3>1. node'[c] = node[c] /\ node[c] \in NodeType
            BY <1>2, <2>2
        <3>2. Unmoved(node[c], node[c])
            BY DEF Unmoved, SameBallot, Idle, SameProgress
        <3>3. QED
            BY <3>1, <3>2, UnmovedRests, RestsMoves
    <2>3. QED
        BY <2>1, <2>2
<1>4. QED
    BY <1>1, <1>2, <1>3 DEF Moves, CommitShape

LEMMA NextReigns ==
    ASSUME Elections, Elections', LogsOnRecord, Next, Remember
    PROVE  ElectionMove /\ ReignMoves
<1>1. TypeOK /\ VotesOnRecord
    BY DEF Elections
<1>2. ElectionMove
    BY <1>1, NextElectionMove
<1>3. PICK s \in Server, k \in NodeType : LogShape(s, k)
    BY <1>1, NextLog
<1>4. LogStep(s, k)
    BY <1>2, <1>3 DEF LogStep
<1>5. QED
    BY <1>2, <1>4, ReignGrows, ReignAfter, ReignStep DEF ReignMoves

LEMMA CommitTypes ==
    ASSUME CommitStep
    PROVE  /\ TypeOK /\ TypeOK'
           /\ reign \in [Nat -> Seq(Entry)] /\ reign' \in [Nat -> Seq(Entry)]
           /\ \A c \in Server : /\ node[c] \in NodeType /\ node'[c] \in NodeType
                                /\ node[c].term \in Nat /\ node'[c].term \in Nat
                                /\ node[c].log \in Seq(Entry) /\ node'[c].log \in Seq(Entry)
                                /\ Len(node[c].log) \in Nat /\ Len(node'[c].log) \in Nat
           /\ \A t \in Nat : /\ reign[t] \in Seq(Entry) /\ reign'[t] \in Seq(Entry)
                             /\ Len(reign[t]) \in Nat /\ Len(reign'[t]) \in Nat
           /\ \A v \in Server, t \in Nat : held[v][t] \in Nat /\ held'[v][t] \in Nat
           /\ \A v \in Server, t \in Nat :
                held'[v][t] = IF t = node'[v].term /\ LastLogTerm(node'[v].log) = t
                              THEN Len(node'[v].log) ELSE held[v][t]
<1>1. TypeOK /\ TypeOK' /\ HistoryType /\ HistoryType'
    BY DEF CommitStep, Elections, VotesOnRecord
<1>2. \A c \in Server : node[c] \in NodeType /\ node'[c] \in NodeType
    BY <1>1 DEF TypeOK
<1>3. \A n \in NodeType : n.term \in Nat /\ n.log \in Seq(Entry)
    BY DEF NodeType
<1>4. \A log \in Seq(Entry) : Len(log) \in Nat
    BY LenProperties
<1>5. \A c \in Server : /\ node[c].term \in Nat /\ node'[c].term \in Nat
                         /\ node[c].log \in Seq(Entry) /\ node'[c].log \in Seq(Entry)
                         /\ Len(node[c].log) \in Nat /\ Len(node'[c].log) \in Nat
    BY <1>2, <1>3, <1>4
<1>6. reign \in [Nat -> Seq(Entry)] /\ reign' \in [Nat -> Seq(Entry)]
    BY <1>1 DEF HistoryType
<1>7. \A t \in Nat : /\ reign[t] \in Seq(Entry) /\ reign'[t] \in Seq(Entry)
                     /\ Len(reign[t]) \in Nat /\ Len(reign'[t]) \in Nat
    BY <1>4, <1>6
<1>8. \A v \in Server, t \in Nat :
                held'[v][t] = IF t = node'[v].term /\ LastLogTerm(node'[v].log) = t
                              THEN Len(node'[v].log) ELSE held[v][t]
    BY DEF CommitStep, Hold
<1>9. \A v \in Server, t \in Nat : held[v][t] \in Nat
    BY DEF CommitStep, HeldType
<1>10. \A v \in Server, t \in Nat : held'[v][t] \in Nat
    BY <1>5, <1>8, <1>9
<1>11. QED
    BY <1>1, <1>2, <1>5, <1>6, <1>7, <1>8, <1>9, <1>10

\* What a leader had, it has, and what it lacked it lacks.
LEMMA HasStays ==
    ASSUME CommitStep, NEW t \in Nat, NEW u \in Nat, NEW i, Has(reign[u], t, i)
    PROVE  Has(reign'[u], t, i)
<1>1. i \in 1..Len(reign[u]) /\ reign[u][i].term = t
    BY DEF Has
<1>2. i <= Len(reign'[u]) /\ reign'[u][i] = reign[u][i]
    BY <1>1 DEF CommitStep, ReignMoves
<1>3. Len(reign[u]) \in Nat /\ Len(reign'[u]) \in Nat
    BY CommitTypes
<1>4. QED
    BY <1>1, <1>2, <1>3 DEF Has

LEMMA ReignBegun ==
    ASSUME CommitStep, NEW t \in Nat, reign[t] # <<>>
    PROVE  reign'[t] # <<>>
<1>1. reign[t] \in Seq(Entry) /\ Len(reign[t]) > 0 /\ Len(reign[t]) \in Nat
    BY CommitTypes, LastOfLog
<1>2. 1 \in 1..Len(reign[t])
    BY <1>1
<1>3. 1 <= Len(reign'[t])
    BY <1>2 DEF CommitStep, ReignMoves
<1>4. Len(<<>>) = 0
    BY EmptySeq
<1>5. QED
    BY <1>3, <1>4

\* A request that is accepted has come from the only leader of its term.
LEMMA NoLeaderAccepts ==
    ASSUME CommitStep, NEW c \in Server, NEW m \in rpcs, Accepts(c, node[c], node'[c], m)
    PROVE  node'[c].role # "LEADER"
<1> SUFFICES ASSUME node'[c].role = "LEADER"
             PROVE  FALSE
    OBVIOUS
<1>1. /\ m.type = "AppendEntries" /\ m.to = c /\ node'[c].term = m.term
      /\ node[c].role = "LEADER" /\ m.term = node[c].term
    BY DEF Accepts
<1>2. m.from \in Server /\ m.term \in Nat
    BY <1>1, CommitTypes DEF TypeOK, RpcType, VoteRequestType, AppendRequestType,
                VoteReplyType, AppendReplyType
<1>3. Elected(m.term, m.from) /\ m.from # c
    BY <1>1 DEF CommitStep, LogsOnRecord, RequestsFollow
<1>4. Elected(m.term, c)
    BY <1>1 DEF CommitStep, Elections, LeadersWereElected, IsLeader
<1>5. QED
    BY <1>2, <1>3, <1>4 DEF CommitStep, Elections, OneElected

LEMMA RequestTypes ==
    ASSUME TypeOK, NEW m \in rpcs, m.type = "AppendEntries"
    PROVE  /\ m.from \in Server /\ m.to \in Server /\ m.term \in Nat
           /\ m.prevIndex \in Nat /\ m.prevTerm \in Nat /\ m.entries \in Seq(Entry)
           /\ m.commit \in Nat /\ Len(m.entries) \in Nat
BY LenProperties DEF TypeOK, RpcType, VoteRequestType, AppendRequestType, VoteReplyType,
    AppendReplyType

-----------------------------------------------------------------------------
(* What a follower makes of a batch.                                       *)

LEMMA AcceptedMerge ==
    ASSUME CommitStep, NEW c \in Server, NEW m \in rpcs, Accepts(c, node[c], node'[c], m)
    PROVE  LET prev == m.prevIndex
               old  == node[c].log
               new  == node'[c].log
               R    == reign[m.term]
           IN  /\ Has(R, m.term, prev + Len(m.entries)) /\ m.term > 0
               /\ \A x \in 1..Len(m.entries) : m.entries[x] = R[prev + x]
               /\ prev > 0 => prev \in 1..Len(old) /\ old[prev].term = R[prev].term
               /\ \/ /\ new = old
                     /\ \A x \in 1..Len(m.entries) :
                            prev + x <= Len(old) /\ old[prev + x].term = m.entries[x].term
                  \/ \E p \in Nat : Merged(old, prev, m.entries, new, p)
<1> DEFINE prev == m.prevIndex
           old  == node[c].log
           new  == node'[c].log
           R    == reign[m.term]
           N    == Len(m.entries)
<1>1. /\ m.type = "AppendEntries"
      /\ prev > 0 => GetTerm(old, prev) = m.prevTerm
      /\ new = MergeEntries(old, prev, m.entries)
    BY DEF Accepts
<1>2. /\ m.term \in Nat /\ prev \in Nat /\ m.entries \in Seq(Entry) /\ N \in Nat
      /\ old \in Seq(Entry) /\ R \in Seq(Entry) /\ Len(R) \in Nat /\ Len(old) \in Nat
    BY <1>1, CommitTypes, RequestTypes
<1>3. /\ Has(R, m.term, prev + N) /\ \A x \in 1..N : m.entries[x] = R[prev + x]
      /\ prev > 0 => m.prevTerm = R[prev].term
    BY <1>1 DEF CommitStep, CommitsOnRecord, BatchesReachTheEnd
<1>4. Follows(R, reign)
    BY <1>2 DEF CommitStep, LogsOnRecord, ReignsFollow
<1>5. m.term > 0
    BY <1>3, <1>4, HasFollows
<1> HIDE DEF prev, old, new, R, N
<1>6. prev > 0 => prev \in 1..Len(R)
    <2>1. prev + N \in 1..Len(R)
        BY <1>3 DEF Has
    <2>2. QED
        BY <1>2, <2>1
<1>7. prev > 0 => R[prev].term > 0
    BY <1>4, <1>6 DEF Follows
<1>8. prev > 0 => prev \in 1..Len(old) /\ old[prev].term = R[prev].term
    BY <1>1, <1>3, <1>7 DEF GetTerm
<1>9. prev <= Len(old)
    BY <1>2, <1>8
<1>10. \/ new = old /\ \A x \in 1..N : prev + x <= Len(old) /\ old[prev + x].term = m.entries[x].term
       \/ \E p \in Nat : Merged(old, prev, m.entries, new, p)
    BY <1>1, <1>2, <1>9, MergeEntriesLog DEF N
<1>11. QED
    BY <1>3, <1>5, <1>8, <1>10 DEF prev, old, new, R, N

\* After it the log is a piece of the leader's, up to an entry of the leader.
LEMMA AcceptedLog ==
    ASSUME CommitStep, NEW c \in Server, NEW m \in rpcs, Accepts(c, node[c], node'[c], m)
    PROVE  LET new == node'[c].log
               R   == reign[m.term]
           IN  /\ R # <<>> /\ node'[c].term = m.term /\ m.term > 0
               /\ new # <<>> /\ LastLogTerm(new) = m.term /\ Len(new) <= Len(R)
               /\ \A j \in 1..Len(new) : new[j] = R[j]
<1> DEFINE prev == m.prevIndex
           old  == node[c].log
           new  == node'[c].log
           T    == m.term
           R    == reign[T]
           N    == Len(m.entries)
<1>1. /\ Has(R, T, prev + N) /\ T > 0
      /\ \A x \in 1..N : m.entries[x] = R[prev + x]
      /\ prev > 0 => prev \in 1..Len(old) /\ old[prev].term = R[prev].term
      /\ \/ /\ new = old
            /\ \A x \in 1..N : prev + x <= Len(old) /\ old[prev + x].term = m.entries[x].term
         \/ \E p \in Nat : Merged(old, prev, m.entries, new, p)
    BY AcceptedMerge
<1>2. /\ m.type = "AppendEntries" /\ node'[c].term = T /\ T >= node[c].term
    BY DEF Accepts
<1>3. /\ old \in Seq(Entry) /\ new \in Seq(Entry) /\ R \in Seq(Entry)
      /\ reign' \in [Nat -> Seq(Entry)]
    BY <1>2, CommitTypes, RequestTypes
<1>types. /\ T \in Nat /\ prev \in Nat /\ N \in Nat /\ Len(R) \in Nat
      /\ Len(old) \in Nat /\ Len(new) \in Nat /\ node[c].term \in Nat
    BY <1>2, CommitTypes, RequestTypes
<1>4. Follows(old, reign) /\ Follows(new, reign') /\ Follows(R, reign)
    BY <1>types DEF CommitStep, LogsOnRecord, LogsFollow, ReignsFollow
<1>5. \A i \in 1..Len(old) : old[i].term <= node[c].term
    BY DEF CommitStep, CommitsOnRecord, TermsOfLogs
<1>6. \A i \in 1..Len(R) : i <= Len(reign'[T]) /\ reign'[T][i] = R[i]
    BY <1>types DEF CommitStep, ReignMoves
<1>7. \A t \in Nat : \A i \in 1..Len(reign[t]) : reign[t][i].term <= t
    BY DEF CommitStep, CommitsOnRecord, TermsOfLogs
<1> DEFINE E == prev + N
           M == Len(R)
           A == Len(old)
           B == Len(new)
<1>8. E \in 1..M /\ R[E].term = T /\ E \in Nat /\ M > 0 /\ M \in Nat
    <2> HIDE DEF M, E
    <2>1. E \in 1..M /\ R[E].term = T /\ M \in Nat
        BY <1>1, <1>types DEF Has, M, E
    <2>2. QED
        BY <2>1
<1> HIDE DEF prev, old, new, T, R, N, E, M, A, B
<1>9. R # <<>>
    BY <1>3, <1>8, LastOfLog DEF M
<1>10. CASE new = old /\ \A x \in 1..N : prev + x <= Len(old) /\ old[prev + x].term = m.entries[x].term
    <2>1. Has(old, T, E)
        <3>1. CASE N = 0
            <4>1. E = prev /\ prev > 0
                BY <1>types, <1>8, <3>1 DEF E
            <4>2. QED
                BY <1>1, <1>8, <4>1 DEF Has
        <3>2. CASE N > 0
            <4>1. N \in 1..N
                BY <1>types, <3>2
            <4>2. E <= A /\ old[E].term = m.entries[N].term /\ m.entries[N] = R[E]
                BY <1>1, <1>10, <4>1 DEF E, A
            <4>3. E \in 1..A
                BY <1>types, <1>8, <4>2 DEF A
            <4>4. QED
                BY <1>8, <4>2, <4>3 DEF Has, A
        <3>3. QED
            BY <1>types, <3>1, <3>2
    <2> DEFINE w == LastLogTerm(old)
    <2>2. old # <<>>
        <3>1. E \in 1..A /\ A \in Nat
            BY <1>types, <2>1 DEF Has, A
        <3>2. A > 0
            BY <3>1
        <3>3. QED
            BY <1>3, <3>2, LastOfLog DEF A
    <2>3. /\ w > 0 /\ w \in Nat /\ Has(old, w, A) /\ A <= Len(reign[w])
          /\ \A j \in 1..A : old[j] = reign[w][j]
        BY <1>3, <1>4, <2>2, LastOfLog, LogEndsIn DEF A
    <2> HIDE DEF w
    <2>4. w <= T
        <3>1. w <= node[c].term
            BY <1>5, <2>3 DEF Has
        <3>2. T >= node[c].term
            BY <1>2
        <3>3. QED
            BY <1>types, <2>3, <3>1, <3>2
    <2>5. T <= w
        <3>1. E \in 1..A /\ old[E].term = T
            BY <2>1 DEF Has, A
        <3> DEFINE D == Len(reign[w])
        <3>2. D \in Nat
            BY <2>3, CommitTypes
        <3>3. A <= D /\ A \in Nat
            BY <1>types, <2>3 DEF A
        <3> HIDE DEF D
        <3>4. E \in 1..D
            BY <3>1, <3>2, <3>3
        <3>5. reign[w][E].term = T
            BY <2>3, <3>1
        <3>6. QED
            BY <1>7, <2>3, <3>4, <3>5 DEF D
    <2>6. w = T
        BY <1>types, <2>3, <2>4, <2>5
    <2>7. QED
        BY <1>1, <1>2, <1>9, <1>10, <2>2, <2>3, <2>6 DEF w, R, new, T, A
<1>11. ASSUME NEW p \in Nat, Merged(old, prev, m.entries, new, p)
       PROVE  /\ new # <<>> /\ LastLogTerm(new) = T /\ B <= M
              /\ \A j \in 1..B : new[j] = R[j]
    <2>1. /\ p >= prev /\ B = prev + N /\ p < B
          /\ \A i \in p + 1 .. B : new[i] = m.entries[i - prev]
        BY <1>11 DEF Merged, N, B
    <2>2. E = B
        BY <2>1 DEF E
    <2>3. E \in p + 1 .. B /\ E - prev \in 1..N /\ prev + (E - prev) = E /\ E \in 1..B
        BY <1>types, <1>8, <2>1, <2>2
    <2>4. new[E] = R[E]
        BY <1>1, <2>1, <2>3
    <2>5. Has(new, T, E)
        BY <1>8, <2>3, <2>4 DEF Has, B
    <2>6. new # <<>>
        BY <1>3, <1>8, <2>2, LastOfLog DEF B
    <2>7. LastLogTerm(new) = T
        BY <1>3, <2>2, <2>5, <2>6, LastOfLog DEF Has, B
    <2>8. \A j \in 1..E : new[j] = reign'[T][j]
        BY <1>4, <2>5, HasFollows
    <2>9. \A j \in 1..E : j \in 1..M
        BY <1>8
    <2>10. \A j \in 1..E : new[j] = R[j]
        BY <1>6, <2>8, <2>9 DEF M
    <2>11. B <= M
        BY <1>8, <2>2
    <2>12. QED
        BY <2>2, <2>6, <2>7, <2>10, <2>11
<1>12. QED
    BY <1>1, <1>2, <1>9, <1>10, <1>11 DEF R, new, T, B, M

\* What agrees with the leader's log stays.
LEMMA MergeKeeps ==
    ASSUME CommitStep, NEW c \in Server, NEW m \in rpcs, Accepts(c, node[c], node'[c], m),
           NEW a \in Nat, a <= Len(node[c].log),
           \A j \in 1..a : node[c].log[j].term = reign[m.term][j].term
    PROVE  a <= Len(node'[c].log) /\ \A j \in 1..a : node'[c].log[j] = node[c].log[j]
<1> DEFINE prev == m.prevIndex
           old  == node[c].log
           new  == node'[c].log
           R    == reign[m.term]
           N    == Len(m.entries)
<1>1. /\ \A x \in 1..N : m.entries[x] = R[prev + x]
      /\ new = old \/ \E p \in Nat : Merged(old, prev, m.entries, new, p)
    BY AcceptedMerge
<1>2. /\ prev \in Nat /\ N \in Nat /\ Len(old) \in Nat /\ Len(new) \in Nat
    BY CommitTypes, RequestTypes DEF Accepts
<1> HIDE DEF prev, old, new, R, N
<1>3. ASSUME NEW p \in Nat, Merged(old, prev, m.entries, new, p)
      PROVE  a <= Len(new) /\ \A j \in 1..a : new[j] = old[j]
    <2>1. /\ p >= prev /\ p <= Len(old) /\ Len(new) = prev + N /\ p < Len(new)
          /\ p < Len(old) => old[p + 1].term # m.entries[p + 1 - prev].term
          /\ \A i \in 1..p : new[i] = old[i]
        BY <1>3 DEF Merged, N
    <2>2. a <= p
        <3>1. SUFFICES ASSUME a > p
                       PROVE  FALSE
            OBVIOUS
        <3>2. /\ p + 1 \in 1..a /\ p < Len(old) /\ p + 1 - prev \in 1..N
              /\ prev + (p + 1 - prev) = p + 1
            BY <1>2, <2>1, <3>1 DEF old
        <3>3. m.entries[p + 1 - prev] = R[p + 1]
            BY <1>1, <3>2
        <3>4. old[p + 1].term = R[p + 1].term
            BY <3>2 DEF old, R
        <3>5. QED
            BY <2>1, <3>2, <3>3, <3>4
    <2>3. QED
        BY <1>2, <2>1, <2>2
<1>4. CASE new = old
    BY <1>4 DEF old, new
<1>5. QED
    BY <1>1, <1>3, <1>4 DEF old, new

-----------------------------------------------------------------------------
(* Logs, reigns and what was held of them after a step.                    *)

\* The log stays, a leader appends to it, or it is accepted from one.
LEMMA LogMoves ==
    ASSUME CommitStep, NEW c \in Server
    PROVE  \/ /\ node'[c].log = node[c].log
              /\ node'[c].role = "LEADER" => node[c].role = "LEADER" /\ node'[c].term = node[c].term
           \/ /\ node'[c].role = "LEADER"
              /\ \E e \in Entry : e.term = node'[c].term /\ node'[c].log = Append(node[c].log, e)
           \/ \E m \in rpcs : Accepts(c, node[c], node'[c], m)
<1> DEFINE n == node[c]
           k == node'[c]
<1>1. k.term \in Nat
    BY CommitTypes
<1>2. Move(c, n, k)
    BY DEF CommitStep, Moves
<1> HIDE DEF n, k
<1>3. CASE Rests(n, k) \/ Polls(c, n, k) \/ Tallies(c, n, k) \/ Learns(c, n, k)
    BY <1>3 DEF Rests, Polls, Tallies, Learns, Leading, Idle, n, k
<1>4. CASE Wins(c, n, k)
    <2>1. NoOpOf(k.term) \in Entry /\ NoOpOf(k.term).term = k.term
        BY <1>1 DEF NoOpOf, Entry
    <2>2. QED
        BY <1>4, <2>1 DEF Wins, Inaugural, n, k
<1>5. CASE Proposes(c, n, k)
    <2>1. PICK v \in Value : k.log = Append(n.log, [term |-> k.term, value |-> v])
        BY <1>5 DEF Proposes
    <2> DEFINE e == [term |-> k.term, value |-> v]
    <2>2. e \in Entry /\ e.term = k.term
        BY <1>1 DEF Entry
    <2> HIDE DEF e
    <2>3. k.role = "LEADER" /\ k.log = Append(n.log, e)
        BY <1>5, <2>1 DEF Proposes, Leading, e
    <2>4. QED
        BY <2>2, <2>3 DEF n, k
<1>6. QED
    BY <1>2, <1>3, <1>4, <1>5 DEF Move, n, k

LEMMA AppendedLog ==
    ASSUME NEW log \in Seq(Entry), NEW e \in Entry
    PROVE  LET out == Append(log, e)
           IN  /\ out # <<>> /\ LastLogTerm(out) = e.term /\ Len(out) = Len(log) + 1
               /\ out \in Seq(Entry) /\ out[Len(log) + 1] = e
               /\ \A j \in 1..Len(log) : out[j] = log[j]
<1> DEFINE out == Append(log, e)
<1>1. /\ out \in Seq(Entry) /\ Len(log) \in Nat /\ Len(out) = Len(log) + 1
      /\ out[Len(log) + 1] = e /\ \A j \in 1..Len(log) : out[j] = log[j]
    BY AppendProperties, LenProperties
<1> HIDE DEF out
<1>2. out # <<>>
    BY <1>1, LastOfLog
<1>3. Has(out, LastLogTerm(out), Len(out))
    BY <1>1, <1>2, LastOfLog
<1>4. LastLogTerm(out) = e.term
    BY <1>1, <1>3 DEF Has
<1>5. QED
    BY <1>1, <1>2, <1>4 DEF out

LEMMA LeaderLogs ==
    ASSUME CommitStep, NEW c \in Server, node'[c].role = "LEADER"
    PROVE  /\ node'[c].log # <<>> /\ LastLogTerm(node'[c].log) = node'[c].term
           /\ reign'[node'[c].term] = node'[c].log
<1>1. reign'[node'[c].term] = node'[c].log
    BY DEF CommitStep, LogsOnRecord, LeadersReign, IsLeader
<1>2. CASE /\ node'[c].log = node[c].log
           /\ node[c].role = "LEADER" /\ node'[c].term = node[c].term
    <2>1. node[c].log # <<>> /\ reign[node[c].term] = node[c].log /\ node[c].term \in Nat
        BY <1>2, CommitTypes
           DEF CommitStep, LogsOnRecord, LeadersReign, IsLeader, CommitsOnRecord, ReignsEnd
    <2>2. LastLogTerm(reign[node[c].term]) = node[c].term
        BY <2>1 DEF CommitStep, CommitsOnRecord, ReignsEnd
    <2>3. QED
        BY <1>1, <1>2, <2>1, <2>2
<1>3. ASSUME NEW e \in Entry, e.term = node'[c].term, node'[c].log = Append(node[c].log, e)
      PROVE  node'[c].log # <<>> /\ LastLogTerm(node'[c].log) = node'[c].term
    <2>1. node[c].log \in Seq(Entry)
        BY CommitTypes
    <2>2. QED
        BY <1>3, <2>1, AppendedLog
<1>4. QED
    BY <1>1, <1>2, <1>3, LogMoves, NoLeaderAccepts

LEMMA ReignsEndStep ==
    ASSUME CommitStep
    PROVE  ReignsEnd'
<1>1. \A c \in Server : node'[c].role = "LEADER" => node'[c].log # <<>>
    BY LeaderLogs
<1>2. ASSUME NEW t \in Nat, reign'[t] # <<>>
      PROVE  LastLogTerm(reign'[t]) = t
    <2>1. CASE reign'[t] = reign[t]
        BY <1>2, <2>1 DEF CommitStep, CommitsOnRecord, ReignsEnd
    <2>2. CASE \E c \in Server : /\ node'[c].role = "LEADER" /\ node'[c].term = t
                                  /\ reign'[t] = node'[c].log
        BY <2>2, LeaderLogs
    <2>3. QED
        BY <2>1, <2>2 DEF CommitStep, ReignMoves
<1>3. QED
    BY <1>1, <1>2 DEF ReignsEnd, IsLeader

\* A leader's own entries do not give it what it lacks of terms before.
LEMMA LacksStays ==
    ASSUME CommitStep, NEW u \in Nat, NEW t \in Nat, t # u, NEW i, Lacks(u, t, i)
    PROVE  Lacks(u, t, i)'
<1> DEFINE old == reign[u]
           new == reign'[u]
<1>1. old # <<>> /\ ~Has(old, t, i) /\ new # <<>>
    BY ReignBegun DEF Lacks
<1>2. new = old \/ \E e \in Entry : new = Append(old, e)
    BY <1>1, CommitTypes DEF CommitStep, ReignMoves
<1>3. LastLogTerm(new) = u /\ old \in Seq(Entry)
    BY <1>1, ReignsEndStep, CommitTypes DEF ReignsEnd
<1> HIDE DEF old, new
<1>4. ASSUME NEW e \in Entry, new = Append(old, e), Has(new, t, i)
      PROVE  FALSE
    <2> DEFINE L == Len(old)
    <2>1. /\ Len(new) = L + 1 /\ new[L + 1].term = u /\ L \in Nat
          /\ \A j \in 1..L : new[j] = old[j]
        BY <1>3, <1>4, AppendedLog, LenProperties
    <2>2. i \in 1..Len(new) /\ new[i].term = t
        BY <1>4 DEF Has
    <2> HIDE DEF L
    <2>3. i \in 1..L \/ i = L + 1
        BY <2>1, <2>2
    <2>4. i \in 1..L => Has(old, t, i)
        BY <2>1, <2>2 DEF Has, L
    <2>5. QED
        BY <1>1, <2>1, <2>2, <2>3, <2>4
<1>5. ~Has(new, t, i)
    BY <1>1, <1>2, <1>4
<1>6. QED
    BY <1>1, <1>5 DEF Lacks, new

LEMMA TermsOfLogsStep ==
    ASSUME CommitStep
    PROVE  TermsOfLogs'
<1>1. ASSUME NEW c \in Server, NEW i \in 1..Len(node'[c].log)
      PROVE  node'[c].log[i].term <= node'[c].term
    <2> DEFINE old == node[c].log
               new == node'[c].log
               T   == node'[c].term
    <2>1. /\ old \in Seq(Entry) /\ new \in Seq(Entry) /\ T \in Nat /\ node[c].term \in Nat
          /\ T >= node[c].term
        BY CommitTypes DEF CommitStep, ElectionMove
    <2>2. \A j \in 1..Len(old) : old[j].term <= node[c].term
        BY DEF CommitStep, CommitsOnRecord, TermsOfLogs
    <2>3. \A j \in 1..Len(old) : old[j].term <= T
        <3>1. \A j \in 1..Len(old) : old[j].term \in Nat
            BY <2>1, EntryTerms
        <3> HIDE DEF old, T
        <3>2. QED
            BY <2>1, <2>2, <3>1
    <2>4. CASE new = old
        BY <2>3, <2>4
    <2>5. ASSUME NEW e \in Entry, e.term = T, new = Append(old, e)
          PROVE  new[i].term <= T
        <3> HIDE DEF old, new, T
        <3> DEFINE L == Len(old)
        <3>1. /\ Len(new) = L + 1 /\ new[L + 1] = e /\ L \in Nat
              /\ \A j \in 1..L : new[j] = old[j]
            BY <2>1, <2>5, AppendedLog, LenProperties
        <3>2. i \in 1..Len(new)
            BY DEF new
        <3>3. i \in 1..L \/ i = L + 1
            <4> HIDE DEF L
            <4>1. QED
                BY <3>1, <3>2
        <3>4. QED
            BY <2>1, <2>3, <2>5, <3>1, <3>3
    <2>6. ASSUME NEW m \in rpcs, Accepts(c, node[c], node'[c], m)
          PROVE  new[i].term <= T
        <3> DEFINE R == reign[m.term]
        <3>1. /\ T = m.term /\ Len(new) <= Len(R) /\ \A j \in 1..Len(new) : new[j] = R[j]
            BY <2>6, AcceptedLog
        <3>2. \A j \in 1..Len(R) : R[j].term <= m.term
            BY <2>1, <3>1 DEF CommitStep, CommitsOnRecord, TermsOfLogs
        <3>3. Len(new) \in Nat /\ Len(R) \in Nat
            BY <2>1, <3>1, CommitTypes
        <3> DEFINE A == Len(new)
                   B == Len(R)
        <3> HIDE DEF A, B
        <3>4. i \in 1..A /\ A <= B /\ A \in Nat /\ B \in Nat
            BY <3>1, <3>3 DEF A, B
        <3>5. i \in 1..B
            BY <3>4
        <3>6. QED
            BY <3>1, <3>2, <3>5 DEF B
    <2>7. QED
        BY <2>4, <2>5, <2>6, LogMoves
<1>2. ASSUME NEW t \in Nat, NEW i \in 1..Len(reign'[t])
      PROVE  reign'[t][i].term <= t
    <2>1. CASE reign'[t] = reign[t]
        BY <2>1 DEF CommitStep, CommitsOnRecord, TermsOfLogs
    <2>2. CASE \E c \in Server : node'[c].term = t /\ reign'[t] = node'[c].log
        BY <1>1, <2>2
    <2>3. QED
        BY <2>1, <2>2 DEF CommitStep, ReignMoves
<1>3. QED
    BY <1>1, <1>2 DEF TermsOfLogs

\* A server loses an entry only to a later leader that lacks it.
LEMMA HasKept ==
    ASSUME CommitStep, NEW v \in Server, NEW t \in Nat, NEW i \in Nat,
           Has(node[v].log, t, i)
    PROVE  \/ Has(node'[v].log, t, i)
           \/ /\ node'[v].term > t
              /\ Lacks(node'[v].term, t, i)
<1> DEFINE old == node[v].log
           new == node'[v].log
           T   == node'[v].term
<1>1. /\ old \in Seq(Entry) /\ T \in Nat /\ node[v].term \in Nat /\ T >= node[v].term
      /\ Len(old) \in Nat /\ Len(new) \in Nat
    BY CommitTypes DEF CommitStep, ElectionMove
<1>2. i \in 1..Len(old) /\ old[i].term = t
    BY DEF Has
<1>3. t <= node[v].term
    BY <1>2 DEF CommitStep, CommitsOnRecord, TermsOfLogs
<1>4. Has(reign[t], t, i) /\ \A j \in 1..i : old[j] = reign[t][j]
    BY HasFollows DEF CommitStep, LogsOnRecord, LogsFollow
<1>5. CASE new = old
    BY <1>5
<1>6. ASSUME NEW e \in Entry, new = Append(old, e)
      PROVE  Has(new, t, i)
    <2> HIDE DEF old, new
    <2> DEFINE L == Len(old)
    <2>1. Len(new) = L + 1 /\ L \in Nat /\ \A j \in 1..L : new[j] = old[j]
        BY <1>1, <1>6, AppendedLog, LenProperties
    <2> HIDE DEF L
    <2>2. i \in 1..L /\ i \in 1 .. L + 1
        BY <1>2, <2>1 DEF L
    <2>3. QED
        BY <1>2, <2>1, <2>2 DEF Has
<1>7. ASSUME NEW m \in rpcs, Accepts(v, node[v], node'[v], m)
      PROVE  Has(new, t, i) \/ (T > t /\ Lacks(T, t, i))
    <2>1. T = m.term /\ reign[T] # <<>>
        BY <1>7, AcceptedLog
    <2>2. CASE Has(reign[T], t, i)
        <3>1. \A j \in 1..i : reign[T][j] = reign[t][j]
            BY <1>1, <2>2, HasFollows DEF CommitStep, LogsOnRecord, ReignsFollow
        <3>2. \A j \in 1..i : old[j].term = reign[m.term][j].term
            BY <1>4, <2>1, <3>1
        <3>3. i <= Len(old) /\ i \in 1..i
            BY <1>1, <1>2
        <3>4. i <= Len(new) /\ \A j \in 1..i : new[j] = old[j]
            BY <1>7, <3>2, <3>3, MergeKeeps
        <3>5. i \in 1..Len(new)
            BY <1>1, <1>2, <3>4
        <3> HIDE DEF old, new
        <3>6. QED
            BY <1>2, <3>3, <3>4, <3>5 DEF Has
    <2>3. CASE ~Has(reign[T], t, i)
        <3>1. T # t
            BY <1>4, <2>3
        <3>2. T > t
            BY <1>1, <1>3, <3>1
        <3>3. QED
            BY <2>1, <2>3, <3>2 DEF Lacks
    <2>4. QED
        BY <2>2, <2>3
<1>8. QED
    BY <1>5, <1>6, <1>7, LogMoves

LEMMA HeldGrows ==
    ASSUME CommitStep, NEW v \in Server, NEW t \in Nat
    PROVE  held'[v][t] >= held[v][t]
<1> DEFINE h == held[v][t]
           A == Len(node'[v].log)
<1>1. /\ h \in Nat /\ A \in Nat /\ node[v].term \in Nat /\ node'[v].term \in Nat
      /\ node'[v].term >= node[v].term
      /\ held'[v][t] = IF t = node'[v].term /\ LastLogTerm(node'[v].log) = t THEN A ELSE h
    BY CommitTypes DEF CommitStep, ElectionMove
<1>2. CASE h > 0 /\ t = node'[v].term
    <2>1. t <= node[v].term /\ Has(reign[t], t, h)
        BY <1>2 DEF CommitStep, CommitsOnRecord, HeldIsOfReign
    <2>2. node[v].term = t
        BY <1>1, <1>2, <2>1
    <2> HIDE DEF h
    <2>3. Held(v, t, h)
        <3>1. h \in 1..h
            BY <1>1, <1>2
        <3>2. QED
            BY <2>1, <3>1 DEF Held, h
    <2>4. Has(node[v].log, t, h)
        <3>1. Has(node[v].log, t, h) \/ \E w \in t + 1 .. t : Lacks(w, t, h)
            BY <1>1, <2>2, <2>3 DEF CommitStep, CommitsOnRecord, HeldIsKept
        <3>2. t + 1 .. t = {}
            OBVIOUS
        <3>3. QED
            BY <3>1, <3>2
    <2>5. Has(node'[v].log, t, h)
        BY <1>1, <1>2, <2>4, HasKept
    <2>6. h <= A
        BY <1>1, <2>5 DEF Has
    <2>7. QED
        BY <1>1, <2>6 DEF h
<1>3. CASE ~(h > 0 /\ t = node'[v].term)
    <2> HIDE DEF h, A
    <2>1. held'[v][t] >= h
        BY <1>1, <1>3
    <2>2. QED
        BY <2>1 DEF h
<1>4. QED
    BY <1>2, <1>3

LEMMA HeldIsOfReignStep ==
    ASSUME CommitStep
    PROVE  HeldIsOfReign'
<1> SUFFICES ASSUME NEW v \in Server, NEW t \in Nat
             PROVE  /\ held'[v][t] > 0 => t <= node'[v].term /\ Has(reign'[t], t, held'[v][t])
                    /\ t = node'[v].term /\ LastLogTerm(node'[v].log) = t
                            => held'[v][t] = Len(node'[v].log)
    BY DEF HeldIsOfReign
<1> DEFINE new == node'[v].log
<1>1. /\ held[v][t] \in Nat /\ node[v].term \in Nat /\ node'[v].term \in Nat
      /\ node'[v].term >= node[v].term /\ new \in Seq(Entry)
      /\ held'[v][t] = IF t = node'[v].term /\ LastLogTerm(new) = t THEN Len(new)
                       ELSE held[v][t]
    BY CommitTypes DEF CommitStep, ElectionMove
<1>2. Follows(new, reign')
    BY DEF CommitStep, LogsOnRecord, LogsFollow
<1>3. CASE t = node'[v].term /\ LastLogTerm(new) = t
    <2>1. CASE new = <<>>
        BY <1>1, <1>3, <2>1, LastOfLog
    <2>2. CASE new # <<>>
        <3> HIDE DEF new
        <3>1. Has(reign'[t], t, Len(new))
            BY <1>1, <1>2, <1>3, <2>2, LogEndsIn
        <3>2. QED
            BY <1>1, <1>3, <3>1 DEF new
    <2>3. QED
        BY <2>1, <2>2
<1>4. CASE ~(t = node'[v].term /\ LastLogTerm(new) = t)
    <2>1. held[v][t] > 0 => t <= node[v].term /\ Has(reign[t], t, held[v][t])
        BY DEF CommitStep, CommitsOnRecord, HeldIsOfReign
    <2>2. held[v][t] > 0 => Has(reign'[t], t, held[v][t])
        BY <2>1, HasStays
    <2>3. QED
        BY <1>1, <1>4, <2>1, <2>2
<1>5. QED
    BY <1>3, <1>4

LEMMA LeadersHoldStep ==
    ASSUME CommitStep
    PROVE  LeadersHold'
<1> SUFFICES ASSUME NEW s \in Server, NEW t \in Nat, Elected(t, s)', reign'[t] # <<>>
             PROVE  held'[s][t] >= Len(reign'[t])
    BY DEF LeadersHold, Elected, QuorumSize
<1>1. \A c \in Server : Elected(t, c)' => c = s
    BY DEF CommitStep, Elections, OneElected
<1>2. CASE reign'[t] = reign[t]
    <2>1. PICK c \in Server : Elected(t, c)
        BY <1>2 DEF CommitStep, LogsOnRecord, ReignsWereElected
    <2>2. c = s
        BY <1>1, <2>1 DEF CommitStep, ElectionMove
    <2>3. held[s][t] >= Len(reign[t])
        BY <1>2, <2>1, <2>2 DEF CommitStep, CommitsOnRecord, LeadersHold
    <2>4. held'[s][t] >= held[s][t]
        BY HeldGrows
    <2>5. held[s][t] \in Nat /\ held'[s][t] \in Nat /\ Len(reign[t]) \in Nat
        BY CommitTypes
    <2>6. QED
        BY <1>2, <2>3, <2>4, <2>5
<1>3. ASSUME NEW c \in Server, node'[c].role = "LEADER", node'[c].term = t,
             reign'[t] = node'[c].log
      PROVE  held'[s][t] >= Len(reign'[t])
    <2>1. c = s
        BY <1>1, <1>3 DEF CommitStep, Elections, LeadersWereElected, IsLeader
    <2>2. LastLogTerm(node'[s].log) = t
        BY <1>3, <2>1, LeaderLogs
    <2>3. held'[s][t] = Len(node'[s].log) /\ Len(node'[s].log) \in Nat
        BY <1>3, <2>1, <2>2, CommitTypes
    <2>4. QED
        BY <1>3, <2>1, <2>3
<1>4. QED
    BY <1>2, <1>3 DEF CommitStep, ReignMoves

\* What was held in a term that has passed was held before the step.
LEMMA HeldBefore ==
    ASSUME CommitStep, NEW v \in Server, NEW t \in Nat, NEW i \in Nat,
           Held(v, t, i)', t # node'[v].term
    PROVE  Held(v, t, i)
<1> DEFINE h == held[v][t]
<1>1. held'[v][t] = h /\ h \in Nat
    BY CommitTypes
<1>2. i \in 1..h /\ Has(reign'[t], t, i)
    BY <1>1 DEF Held
<1>3. Has(reign[t], t, h)
    <2>1. h > 0
        BY <1>1, <1>2
    <2>2. QED
        BY <2>1 DEF CommitStep, CommitsOnRecord, HeldIsOfReign
<1> DEFINE L == Len(reign[t])
<1>4. L \in Nat /\ h <= L
    BY <1>1, <1>3, CommitTypes DEF Has
<1>5. i \in 1..L
    <2> HIDE DEF L, h
    <2>1. QED
        BY <1>1, <1>2, <1>4
<1>6. reign'[t][i] = reign[t][i]
    BY <1>5 DEF CommitStep, ReignMoves
<1>7. QED
    BY <1>2, <1>5, <1>6 DEF Held, Has

LEMMA HeldIsKeptStep ==
    ASSUME CommitStep
    PROVE  HeldIsKept'
<1> SUFFICES ASSUME NEW v \in Server, NEW t \in Nat, NEW i \in Nat, Held(v, t, i)'
             PROVE  \/ Has(node'[v].log, t, i)
                    \/ \E w \in t + 1 .. node'[v].term : Lacks(w, t, i)'
    BY DEF HeldIsKept
<1> DEFINE new == node'[v].log
           T   == node'[v].term
<1>1. /\ T \in Nat /\ node[v].term \in Nat /\ T >= node[v].term /\ new \in Seq(Entry)
      /\ held'[v][t] = IF t = T /\ LastLogTerm(new) = t THEN Len(new) ELSE held[v][t]
      /\ held[v][t] \in Nat /\ Len(reign[t]) \in Nat
    BY CommitTypes DEF CommitStep, ElectionMove
<1>2. CASE t = T /\ LastLogTerm(new) = t
    <2>1. i \in 1..Len(new) /\ Has(reign'[t], t, i)
        BY <1>1, <1>2 DEF Held
    <2>2. new # <<>>
        <3>1. i > 0 /\ i <= Len(new)
            BY <2>1
        <3>2. QED
            BY <1>1, <3>1, LastOfLog
    <2>3. Follows(new, reign')
        BY DEF CommitStep, LogsOnRecord, LogsFollow
    <2> HIDE DEF new, T
    <2>4. \A j \in 1..Len(new) : new[j] = reign'[t][j]
        BY <1>1, <1>2, <2>2, <2>3, LogEndsIn
    <2>5. QED
        BY <2>1, <2>4 DEF Has, new
<1>3. CASE ~(t = T /\ LastLogTerm(new) = t)
    <2>1. Held(v, t, i)
        <3> DEFINE h == held[v][t]
                   L == Len(reign[t])
        <3>1. i \in 1..h /\ Has(reign'[t], t, i)
            BY <1>1, <1>3 DEF Held
        <3>2. h > 0
            BY <1>1, <3>1
        <3>3. h <= L
            BY <1>1, <3>2 DEF CommitStep, CommitsOnRecord, HeldIsOfReign, Has
        <3>4. i \in 1..L
            <4>1. h \in Nat /\ L \in Nat
                BY <1>1
            <4> HIDE DEF h, L
            <4>2. QED
                BY <3>1, <3>3, <4>1
        <3>5. reign'[t][i] = reign[t][i]
            BY <3>4 DEF CommitStep, ReignMoves
        <3>6. QED
            BY <3>1, <3>4, <3>5 DEF Held, Has
    <2>2. CASE Has(node[v].log, t, i)
        <3>1. PICK w \in Nat : w = T
            BY <1>1
        <3>2. Has(new, t, i) \/ (w > t /\ Lacks(w, t, i))
            BY <2>2, <3>1, HasKept
        <3>3. CASE w > t /\ Lacks(w, t, i)
            <4>1. w # t /\ w \in t + 1 .. T
                BY <1>1, <3>1, <3>3
            <4>2. Lacks(w, t, i)'
                BY <3>3, <4>1, LacksStays
            <4>3. QED
                BY <4>1, <4>2
        <3>4. QED
            BY <3>2, <3>3
    <2>3. ASSUME NEW w \in t + 1 .. node[v].term, Lacks(w, t, i)
          PROVE  Lacks(w, t, i)' /\ w \in t + 1 .. T
        <3>1. w \in Nat /\ w # t /\ w \in t + 1 .. T
            BY <1>1
        <3>2. QED
            BY <2>3, <3>1, LacksStays
    <2>4. QED
        BY <2>1, <2>2, <2>3 DEF CommitStep, CommitsOnRecord, HeldIsKept
<1>4. QED
    BY <1>2, <1>3

-----------------------------------------------------------------------------
(* Votes and what backs a leader.                                          *)

LEMMA TermsRise ==
    ASSUME CommitStep
    PROVE  \A c \in Server : /\ node[c].term \in Nat /\ node'[c].term \in Nat
                             /\ node'[c].term >= node[c].term
BY CommitTypes DEF CommitStep, ElectionMove

LEMMA RpcFields ==
    ASSUME NEW m \in RpcType
    PROVE  m.from \in Server /\ m.to \in Server /\ m.term \in Nat
BY DEF RpcType, VoteRequestType, AppendRequestType, VoteReplyType, AppendReplyType

LEMMA RpcFieldsOf ==
    ASSUME CommitStep
    PROVE  \A m \in rpcs \cup rpcs' : m.from \in Server /\ m.to \in Server /\ m.term \in Nat
<1>1. \A m \in rpcs \cup rpcs' : m \in RpcType
    BY CommitTypes DEF TypeOK
<1>2. QED
    BY <1>1, RpcFields

LEMMA HasAppended ==
    ASSUME NEW log \in Seq(Entry), NEW e \in Entry, NEW t, NEW i, Has(log, t, i)
    PROVE  Has(Append(log, e), t, i)
<1> DEFINE out == Append(log, e)
           L   == Len(log)
<1>1. /\ Len(out) = L + 1 /\ L \in Nat /\ \A j \in 1..L : out[j] = log[j]
    BY AppendedLog, LenProperties
<1>2. i \in 1..L /\ log[i].term = t
    BY DEF Has
<1> HIDE DEF out, L
<1>3. i \in 1 .. L + 1
    BY <1>1, <1>2
<1>4. QED
    BY <1>1, <1>2, <1>3 DEF Has, out

\* Who may lead after the step might before it, with the log it has.
LEMMA MayLeadBefore ==
    ASSUME CommitStep, NEW c \in Server, NEW u \in Nat, MayLead(c, u)', u <= node[c].term
    PROVE  MayLead(c, u) /\ node'[c].log = node[c].log
<1>1. node'[c].role = "CANDIDATE" /\ node'[c].term = u /\ reign'[u] = <<>>
    BY DEF MayLead
<1>2. node[c].term = u
    BY <1>1, TermsRise
<1>3. node[c].role = "CANDIDATE"
    BY <1>1, <1>2 DEF CommitStep, ElectionMove
<1>4. reign[u] = <<>>
    BY <1>1, ReignBegun
<1>5. ~ \E m \in rpcs : Accepts(c, node[c], node'[c], m)
    BY <1>1, <1>4, AcceptedLog
<1>6. node'[c].log = node[c].log
    BY <1>1, <1>5, LogMoves
<1>7. QED
    BY <1>2, <1>3, <1>4, <1>6 DEF MayLead

LEMMA VoteRequestsTellStep ==
    ASSUME CommitStep
    PROVE  VoteRequestsTell'
<1> SUFFICES ASSUME NEW m \in rpcs', m.type = "RequestVote", ~m.preVote
             PROVE  /\ m.term <= node'[m.from].term
                    /\ MayLead(m.from, m.term)' =>
                        /\ m.lastIndex = Len(node'[m.from].log)
                        /\ m.lastTerm = LastLogTerm(node'[m.from].log)
    BY DEF VoteRequestsTell
<1>1. m.from \in Server /\ m.term \in Nat
    BY RpcFieldsOf
<1>2. CASE m \in rpcs
    <2>1. /\ m.term <= node[m.from].term
          /\ MayLead(m.from, m.term) =>
                /\ m.lastIndex = Len(node[m.from].log)
                /\ m.lastTerm = LastLogTerm(node[m.from].log)
        BY <1>2 DEF CommitStep, CommitsOnRecord, VoteRequestsTell
    <2>2. m.term <= node'[m.from].term
        BY <1>1, <2>1, TermsRise
    <2>3. MayLead(m.from, m.term)' => MayLead(m.from, m.term)
                                      /\ node'[m.from].log = node[m.from].log
        BY <1>1, <2>1, MayLeadBefore
    <2>4. QED
        BY <2>1, <2>2, <2>3
<1>3. CASE m \notin rpcs
    <2>1. PICK c \in Server : node'[c].role = "CANDIDATE" /\ m \in VoteRequests(node'[c], c)
        BY <1>3 DEF CommitStep, Moves, Sent
    <2>2. /\ m.from = c /\ m.term = node'[c].term
          /\ m.lastIndex = Len(node'[c].log) /\ m.lastTerm = LastLogTerm(node'[c].log)
        BY <2>1 DEF VoteRequests, VoteRequest
    <2>3. QED
        BY <1>1, <2>2, TermsRise
<1>4. QED
    BY <1>2, <1>3

\* Backs, of what is known after the step.
BacksAfter(v, log, u) ==
    \A t \in 0 .. u - 1 : \A i \in Nat :
        Held(v, t, i)' => Has(log, t, i) \/ \E w \in t + 1 .. u - 1 : Lacks(w, t, i)'

LEMMA BacksStay ==
    ASSUME CommitStep, NEW v \in Server, NEW u \in Nat, u <= node[v].term,
           NEW a, NEW b, Backs(v, a, u),
           \A t \in Nat, i \in Nat : Has(a, t, i) => Has(b, t, i)
    PROVE  BacksAfter(v, b, u)
<1> SUFFICES ASSUME NEW t \in 0 .. u - 1, NEW i \in Nat, Held(v, t, i)'
             PROVE  Has(b, t, i) \/ \E w \in t + 1 .. u - 1 : Lacks(w, t, i)'
    BY DEF BacksAfter
<1>1. t \in Nat /\ t # node'[v].term
    BY TermsRise
<1>2. Held(v, t, i)
    BY <1>1, HeldBefore
<1>3. Has(a, t, i) \/ \E w \in t + 1 .. u - 1 : Lacks(w, t, i)
    BY <1>2 DEF Backs
<1>4. ASSUME NEW w \in t + 1 .. u - 1, Lacks(w, t, i)
      PROVE  Lacks(w, t, i)'
    <2>1. w \in Nat /\ w # t
        BY <1>1
    <2>2. QED
        BY <1>1, <1>4, <2>1, LacksStays
<1>5. QED
    BY <1>1, <1>3, <1>4

\* What a server held in terms before backs its own log, as it enters a term.
LEMMA OwnBacks ==
    ASSUME CommitStep, NEW c \in Server, node'[c].term = node[c].term + 1,
           NEW u, u = node'[c].term, NEW b,
           \A t \in Nat, i \in Nat : Has(node[c].log, t, i) => Has(b, t, i)
    PROVE  BacksAfter(c, b, u)
<1> SUFFICES ASSUME NEW t \in 0 .. u - 1, NEW i \in Nat, Held(c, t, i)'
             PROVE  Has(b, t, i) \/ \E w \in t + 1 .. u - 1 : Lacks(w, t, i)'
    BY DEF BacksAfter
<1>1. t \in Nat /\ t # node'[c].term /\ u - 1 = node[c].term /\ u - 1 \in Nat
    BY TermsRise
<1>2. Held(c, t, i)
    BY <1>1, HeldBefore
<1>3. Has(node[c].log, t, i) \/ \E w \in t + 1 .. u - 1 : Lacks(w, t, i)
    BY <1>1, <1>2 DEF CommitStep, CommitsOnRecord, HeldIsKept
<1>4. ASSUME NEW w \in t + 1 .. u - 1, Lacks(w, t, i)
      PROVE  Lacks(w, t, i)'
    <2>1. w \in Nat /\ w # t
        BY <1>1
    <2>2. QED
        BY <1>1, <1>4, <2>1, LacksStays
<1>5. QED
    BY <1>1, <1>3, <1>4

\* A vote that counts comes from a server in the candidate's term.
LEMMA VotersTerm ==
    ASSUME CommitStep, NEW v \in Server, NEW u \in Nat, NEW c \in Server, cast[v][u] = c
    PROVE  node[v].term >= u
<1>1. u > node[v].term => cast[v][u] = Nobody
    BY DEF CommitStep, Elections, VotesOnRecord, VotesRecorded
<1>2. c # Nobody
    BY NobodyAssumption
<1>3. QED
    BY <1>1, <1>2, TermsRise

LEMMA VotersBack ==
    ASSUME CommitStep, NEW c \in Server, NEW u \in Nat, MayLead(c, u),
           NEW v, \/ v \in node[c].votes
                  \/ \E m \in rpcs : IsGrant(m) /\ m.to = c /\ m.term = u /\ m.from = v,
           NEW b, \A t \in Nat, i \in Nat : Has(node[c].log, t, i) => Has(b, t, i)
    PROVE  v \in Server /\ node[v].term >= u /\ BacksAfter(v, b, u)
<1>1. node[c].role = "CANDIDATE" /\ node[c].term = u
    BY DEF MayLead
<1>2. CASE v \in node[c].votes
    <2>1. v \in Server
        BY <1>2, CommitTypes DEF NodeType
    <2>2. c \in Standing
        BY <1>1 DEF Standing, Active
    <2>3. cast[v][u] = c
        BY <1>1, <1>2, <2>2 DEF CommitStep, Elections, VotesOnRecord, CountsRecorded
    <2>4. node[v].term >= u
        BY <2>1, <2>3, VotersTerm
    <2>5. Backs(v, node[c].log, u)
        BY <1>1, <1>2 DEF CommitStep, CommitsOnRecord, VotesBack
    <2>6. QED
        BY <2>1, <2>4, <2>5, BacksStay, CommitTypes
<1>3. ASSUME NEW m \in rpcs, IsGrant(m), m.to = c, m.term = u, m.from = v
      PROVE  v \in Server /\ node[v].term >= u /\ BacksAfter(v, b, u)
    <2>1. v \in Server
        BY <1>3, RpcFieldsOf
    <2>2. cast[v][u] = c
        BY <1>3 DEF CommitStep, Elections, VotesOnRecord, GrantsRecorded
    <2>3. node[v].term >= u
        BY <2>1, <2>2, VotersTerm
    <2>4. Backs(v, node[c].log, u)
        BY <1>3 DEF CommitStep, CommitsOnRecord, VotesBack
    <2>5. QED
        BY <2>1, <2>3, <2>4, BacksStay, CommitTypes
<1>4. QED
    BY <1>2, <1>3

\* A log that is as good as B has what B has, or a leader before u lacked it.
LEMMA UpToDateHas ==
    ASSUME CommitStep, NEW A \in Seq(Entry), NEW B \in Seq(Entry),
           Follows(A, reign), Follows(B, reign),
           NEW u \in Nat, reign[u] = <<>>, \A i \in 1..Len(A) : A[i].term <= u,
           \/ LastLogTerm(A) > LastLogTerm(B)
           \/ LastLogTerm(A) = LastLogTerm(B) /\ Len(A) >= Len(B),
           NEW t \in Nat, NEW i \in Nat, Has(B, t, i)
    PROVE  Has(A, t, i) \/ \E w \in t + 1 .. u - 1 : Lacks(w, t, i)
<1> DEFINE a == LastLogTerm(A)
           b == LastLogTerm(B)
           R == reign[a]
           l == Len(A)
<1>1. Len(A) \in Nat /\ Len(B) \in Nat /\ a \in Nat /\ b \in Nat
    BY LastOfLog, LenProperties
<1>2. i \in 1..Len(B) /\ B[i].term = t
    BY DEF Has
<1>3. B # <<>>
    <2>1. Len(B) # 0
        BY <1>1, <1>2
    <2>2. QED
        BY <2>1, LastOfLog
<1>4. b > 0 /\ Len(B) <= Len(reign[b]) /\ \A j \in 1..Len(B) : B[j] = reign[b][j]
    BY <1>3, LogEndsIn
<1>5. \A w \in Nat : Len(reign[w]) \in Nat /\ \A j \in 1..Len(reign[w]) : reign[w][j].term <= w
    BY CommitTypes DEF CommitStep, CommitsOnRecord, TermsOfLogs
<1>6. i \in 1..Len(reign[b]) /\ reign[b][i].term = t
    <2> DEFINE L == Len(B)
               M == Len(reign[b])
    <2>1. L \in Nat /\ M \in Nat /\ L <= M /\ i \in 1..L
        BY <1>1, <1>2, <1>4, <1>5
    <2> HIDE DEF L, M
    <2>2. i \in 1..M
        BY <2>1
    <2>3. QED
        BY <1>2, <1>4, <2>2 DEF M
<1>7. t <= b /\ a > 0
    BY <1>1, <1>4, <1>5, <1>6
<1>8. A # <<>>
    BY <1>7, LastOfLog
<1>9. /\ Has(R, a, l) /\ l <= Len(R) /\ \A j \in 1..l : A[j] = R[j]
    BY <1>8, LogEndsIn
<1>10. a <= u /\ a # u
    <2>1. l \in 1..l /\ A[l].term = a
        BY <1>8, LastOfLog DEF Has
    <2>2. R # <<>>
        <3>1. Len(R) # 0
            BY <1>1, <1>5, <1>9 DEF Has
        <3>2. QED
            BY <3>1, EmptySeq
    <2>3. QED
        BY <2>1, <2>2
<1>11. CASE a = b /\ Len(A) >= Len(B)
    <2> DEFINE L == Len(B)
    <2>1. i \in 1..l
        <3>1. l \in Nat /\ L \in Nat /\ i \in 1..L /\ l >= L
            BY <1>1, <1>2, <1>11
        <3> HIDE DEF l, L
        <3>2. QED
            BY <3>1
    <2>2. A[i].term = t
        BY <1>6, <1>9, <1>11, <2>1
    <2>3. QED
        BY <2>1, <2>2 DEF Has
<1>12. CASE a > b
    <2>1. CASE ~Has(R, t, i)
        <3>1. R # <<>>
            <4>1. Len(R) # 0
                BY <1>1, <1>5, <1>9 DEF Has
            <4>2. QED
                BY <4>1, EmptySeq
        <3>2. Lacks(a, t, i)
            BY <2>1, <3>1 DEF Lacks
        <3>3. a \in t + 1 .. u - 1
            <4> HIDE DEF a, b
            <4>1. QED
                BY <1>1, <1>7, <1>10, <1>12
        <3>4. QED
            BY <3>2, <3>3
    <2>2. CASE Has(R, t, i)
        <3>1. Follows(R, reign)
            BY <1>1 DEF CommitStep, LogsOnRecord, ReignsFollow
        <3>2. Has(reign[t], t, i) /\ \A j \in 1..i : R[j] = reign[t][j]
            BY <2>2, <3>1, HasFollows
        <3>3. i <= l
            <4>1. SUFFICES ASSUME i > l
                           PROVE  FALSE
                BY <1>1
            <4>2. l \in 1..l /\ R[l].term = a /\ l > 0
                BY <1>1, <1>9 DEF Has
            <4>3. i \in 1..Len(reign[t])
                BY <3>2 DEF Has
            <4>4. l \in 1..i /\ l \in 1..Len(reign[t])
                <5> DEFINE M == Len(reign[t])
                <5>1. l \in Nat /\ M \in Nat /\ i \in 1..M /\ l > 0 /\ i > l
                    BY <1>1, <1>5, <4>1, <4>2, <4>3
                <5> HIDE DEF l, M
                <5>2. l \in 1..i /\ l \in 1..M
                    BY <5>1
                <5>3. QED
                    BY <5>2 DEF M
            <4>5. a <= t
                BY <1>5, <3>2, <4>2, <4>4
            <4>6. QED
                <5> HIDE DEF a, b
                <5>1. QED
                    BY <1>1, <1>7, <1>12, <4>5
        <3>4. i \in 1..l
            <4>1. l \in Nat /\ i > 0
                BY <1>1, <1>2
            <4> HIDE DEF l
            <4>2. QED
                BY <3>3, <4>1
        <3>5. A[i].term = t
            BY <1>9, <2>2, <3>4 DEF Has
        <3>6. QED
            BY <3>4, <3>5 DEF Has
    <2>3. QED
        BY <2>1, <2>2
<1>13. QED
    BY <1>11, <1>12

LEMMA BacksPrimed ==
    ASSUME NEW v, NEW s, NEW u, BacksAfter(v, node'[s].log, u)
    PROVE  Backs(v, node[s].log, u)'
BY DEF BacksAfter, Backs

LEMMA CountedVotesBack ==
    ASSUME CommitStep, NEW s \in Server, NEW u \in Nat, MayLead(s, u)', u = node'[s].term,
           NEW v \in node'[s].votes
    PROVE  BacksAfter(v, node'[s].log, u)
<1> DEFINE n == node[s]
           k == node'[s]
<1>1. k.role = "CANDIDATE" /\ k.term = u /\ reign'[u] = <<>> /\ reign[u] = <<>>
    BY ReignBegun DEF MayLead
<1>2. ~ \E m \in rpcs : Accepts(s, n, k, m)
    BY <1>1, AcceptedLog
<1>3. Move(s, n, k)
    BY DEF CommitStep, Moves
<1>4. ASSUME n.role = "CANDIDATE", n.term = u, k.log = n.log,
             \/ v \in n.votes
             \/ \E m \in rpcs : IsGrant(m) /\ m.to = s /\ m.term = u /\ m.from = v
      PROVE  BacksAfter(v, k.log, u)
    <2>1. MayLead(s, u)
        BY <1>1, <1>4 DEF MayLead
    <2>2. QED
        BY <1>4, <2>1, VotersBack
<1>5. CASE Rests(n, k)
    <2>1. n.role = "CANDIDATE" /\ n.term = u /\ k.log = n.log /\ v \in n.votes
        BY <1>1, <1>5 DEF Rests, Idle
    <2>2. QED
        BY <1>4, <2>1
<1>6. CASE Tallies(s, n, k)
    <2>1. n.role = "CANDIDATE" /\ n.term = u /\ k.log = n.log
        BY <1>1, <1>6 DEF Tallies, CountsVote, Idle
    <2>2. \/ v \in n.votes
          \/ \E m \in rpcs : IsGrant(m) /\ m.to = s /\ m.term = u /\ m.from = v
        BY <1>6, <2>1 DEF Tallies, CountsVote
    <2>3. QED
        BY <1>4, <2>1, <2>2
<1>7. CASE Polls(s, n, k)
    <2>1. v = s /\ k.term = n.term + 1 /\ k.log = n.log
        BY <1>7 DEF Polls, Idle
    <2>2. QED
        BY <1>1, <2>1, OwnBacks
<1>8. ~Wins(s, n, k) /\ ~Proposes(s, n, k) /\ ~Learns(s, n, k)
    BY <1>1 DEF Wins, Inaugural, Proposes, Learns, Leading
<1>9. QED
    BY <1>2, <1>3, <1>5, <1>6, <1>7, <1>8 DEF Move

\* A server that grants its vote knows of nothing the candidate does not back.
LEMMA GrantsBack ==
    ASSUME CommitStep, NEW s \in Server, NEW m, Grants(s, node[s], node'[s], m),
           NEW c \in Server, c = m.to, NEW u \in Nat, u = m.term
    PROVE  /\ u <= node'[c].term
           /\ MayLead(c, u)' => BacksAfter(s, node'[c].log, u)
<1>1. PICK q \in rpcs : /\ q.type = "RequestVote" /\ ~q.preVote
                        /\ q.from = c /\ q.term = u /\ LogUpToDate(node[s], q)
    BY DEF Grants
<1>2. /\ u <= node[c].term
      /\ MayLead(c, u) => /\ q.lastIndex = Len(node[c].log)
                          /\ q.lastTerm = LastLogTerm(node[c].log)
    BY <1>1 DEF CommitStep, CommitsOnRecord, VoteRequestsTell
<1>3. u <= node'[c].term
    BY <1>2, TermsRise
<1>4. u = node'[s].term /\ u >= node[s].term
    BY TermsRise DEF Grants
<1>5. ASSUME MayLead(c, u)'
      PROVE  BacksAfter(s, node'[c].log, u)
    <2>1. MayLead(c, u) /\ node'[c].log = node[c].log
        BY <1>2, <1>5, MayLeadBefore
    <2>2. reign[u] = <<>> /\ node[c].term = u
        BY <2>1 DEF MayLead
    <2>3. SUFFICES ASSUME NEW t \in 0 .. u - 1, NEW i \in Nat, Held(s, t, i)'
                   PROVE  \/ Has(node[c].log, t, i)
                          \/ \E w \in t + 1 .. u - 1 : Lacks(w, t, i)'
        BY <2>1 DEF BacksAfter
    <2>4. t \in Nat /\ t # node'[s].term
        BY <1>4
    <2>5. Held(s, t, i)
        BY <2>3, <2>4, HeldBefore
    <2>6. \/ Has(node[s].log, t, i)
          \/ \E w \in t + 1 .. node[s].term : Lacks(w, t, i)
        BY <2>4, <2>5 DEF CommitStep, CommitsOnRecord, HeldIsKept
    <2>7. \/ Has(node[c].log, t, i)
          \/ \E w \in t + 1 .. u - 1 : Lacks(w, t, i)
        <3>1. ASSUME NEW w \in t + 1 .. node[s].term, Lacks(w, t, i)
              PROVE  w \in t + 1 .. u - 1
            <4>1. w # u
                BY <2>2, <3>1 DEF Lacks
            <4>2. QED
                BY <1>4, <2>4, <4>1, TermsRise
        <3>2. CASE Has(node[s].log, t, i)
            <4> DEFINE A == node[c].log
                       B == node[s].log
            <4>1. A \in Seq(Entry) /\ B \in Seq(Entry)
                BY CommitTypes
            <4>2. Follows(A, reign) /\ Follows(B, reign)
                BY DEF CommitStep, LogsOnRecord, LogsFollow
            <4>3. \A j \in 1..Len(A) : A[j].term <= u
                BY <2>2 DEF CommitStep, CommitsOnRecord, TermsOfLogs
            <4>4. \/ LastLogTerm(A) > LastLogTerm(B)
                  \/ LastLogTerm(A) = LastLogTerm(B) /\ Len(A) >= Len(B)
                BY <1>1, <1>2, <2>1 DEF LogUpToDate
            <4> HIDE DEF A, B
            <4>5. Has(A, t, i) \/ \E w \in t + 1 .. u - 1 : Lacks(w, t, i)
                BY <2>2, <2>4, <3>2, <4>1, <4>2, <4>3, <4>4, UpToDateHas DEF B
            <4>6. QED
                BY <4>5 DEF A
        <3>3. QED
            BY <2>6, <3>1, <3>2
    <2>8. ASSUME NEW w \in t + 1 .. u - 1, Lacks(w, t, i)
          PROVE  Lacks(w, t, i)'
        <3>1. w \in Nat /\ w # t
            BY <2>4
        <3>2. QED
            BY <2>4, <2>8, <3>1, LacksStays
    <2>9. QED
        BY <2>7, <2>8
<1>6. QED
    BY <1>3, <1>5

LEMMA VotesBackStep ==
    ASSUME CommitStep
    PROVE  VotesBack'
<1>1. ASSUME NEW s \in Server, MayLead(s, node[s].term)', NEW v \in node'[s].votes
      PROVE  Backs(v, node[s].log, node[s].term)'
    <2>1. PICK u \in Nat : u = node'[s].term
        BY TermsRise
    <2>2. MayLead(s, u)'
        BY <1>1, <2>1 DEF MayLead
    <2>3. BacksAfter(v, node'[s].log, u)
        BY <2>1, <2>2, CountedVotesBack
    <2>4. Backs(v, node[s].log, u)'
        BY <2>3, BacksPrimed
    <2>5. QED
        BY <2>1, <2>4 DEF Backs
<1>2. ASSUME NEW m \in rpcs', IsGrant(m)
      PROVE  /\ m.term <= node'[m.to].term
             /\ MayLead(m.to, m.term)' => Backs(m.from, node[m.to].log, m.term)'
    <2>1. m.from \in Server /\ m.to \in Server /\ m.term \in Nat
        BY RpcFieldsOf
    <2>2. CASE m \in rpcs
        <3>1. m.term <= node[m.to].term
            BY <1>2, <2>2 DEF CommitStep, CommitsOnRecord, VotesBack
        <3>2. m.term <= node'[m.to].term
            BY <2>1, <3>1, TermsRise
        <3>3. ASSUME MayLead(m.to, m.term)'
              PROVE  BacksAfter(m.from, node'[m.to].log, m.term)
            <4>1. MayLead(m.to, m.term) /\ node'[m.to].log = node[m.to].log
                BY <2>1, <3>1, <3>3, MayLeadBefore
            <4>2. QED
                BY <1>2, <2>1, <2>2, <4>1, VotersBack
        <3>4. QED
            BY <3>2, <3>3, BacksPrimed
    <2>3. CASE m \notin rpcs
        <3>1. PICK s \in Server : Grants(s, node[s], node'[s], m)
            BY <1>2, <2>3 DEF CommitStep, Moves, Sent
        <3>2. s = m.from
            BY <3>1 DEF Grants
        <3>3. /\ m.term <= node'[m.to].term
              /\ MayLead(m.to, m.term)' => BacksAfter(s, node'[m.to].log, m.term)
            BY <2>1, <3>1, GrantsBack
        <3>4. QED
            BY <3>2, <3>3, BacksPrimed
    <2>4. QED
        BY <2>2, <2>3
<1>3. QED
    BY <1>1, <1>2 DEF VotesBack, IsGrant

LEMMA BackersAfter ==
    ASSUME NEW u
    PROVE  Backers(u)' = {v \in Server : node'[v].term >= u /\ BacksAfter(v, reign'[u], u)}
BY DEF Backers, Backs, BacksAfter

\* A leader that begins a term has won an election.
LEMMA ReignBegins ==
    ASSUME CommitStep, NEW u \in Nat, reign[u] = <<>>, reign'[u] # <<>>
    PROVE  \E c \in Server : /\ Wins(c, node[c], node'[c])
                             /\ node'[c].term = u /\ reign'[u] = node'[c].log
<1>1. PICK c \in Server : node'[c].role = "LEADER" /\ node'[c].term = u /\ reign'[u] = node'[c].log
    BY DEF CommitStep, ReignMoves
<1> DEFINE n == node[c]
           k == node'[c]
<1>2. ~(n.role = "LEADER" /\ n.term = u)
    <2>1. SUFFICES ASSUME n.role = "LEADER", n.term = u
                   PROVE  FALSE
        OBVIOUS
    <2>2. reign[u] = n.log /\ n.log # <<>>
        BY <2>1 DEF CommitStep, LogsOnRecord, LeadersReign, IsLeader, CommitsOnRecord, ReignsEnd
    <2>3. QED
        BY <2>2
<1>3. Move(c, n, k)
    BY DEF CommitStep, Moves
<1>4. ~Rests(n, k) /\ ~Polls(c, n, k) /\ ~Tallies(c, n, k)
    BY <1>1, <1>2 DEF Rests, Polls, Tallies
<1>5. ~Proposes(c, n, k) /\ ~Learns(c, n, k)
    BY <1>1, <1>2 DEF Proposes, Learns, Leading
<1>6. ~ \E m \in rpcs : Accepts(c, n, k, m)
    BY <1>1, NoLeaderAccepts
<1>7. QED
    BY <1>1, <1>3, <1>4, <1>5, <1>6 DEF Move

LEMMA ReignsAreBackedStep ==
    ASSUME CommitStep
    PROVE  ReignsAreBacked'
<1> SUFFICES ASSUME NEW u \in Nat, reign'[u] # <<>>
             PROVE  Cardinality(Backers(u)') >= QuorumSize
    BY DEF ReignsAreBacked, QuorumSize
<1> DEFINE W == Backers(u)'
<1>1. /\ W = {v \in Server : node'[v].term >= u /\ BacksAfter(v, reign'[u], u)}
      /\ IsFiniteSet(W) /\ Cardinality(W) \in Nat
    <2>1. W = {v \in Server : node'[v].term >= u /\ BacksAfter(v, reign'[u], u)}
        BY BackersAfter
    <2> HIDE DEF W
    <2>2. W \subseteq Server
        BY <2>1
    <2>3. QED
        BY <2>1, <2>2, FS_Subset, FS_CardinalityType, ServerAssumption
<1> HIDE DEF W
<1>2. CASE reign[u] # <<>>
    <2>1. \A t \in Nat, i \in Nat : Has(reign[u], t, i) => Has(reign'[u], t, i)
        BY HasStays
    <2>2. ASSUME NEW v \in Backers(u)
          PROVE  v \in W
        <3>1. v \in Server /\ node[v].term >= u /\ Backs(v, reign[u], u)
            BY DEF Backers
        <3>2. BacksAfter(v, reign'[u], u)
            <4>1. u <= node[v].term
                BY <3>1, TermsRise
            <4>2. QED
                BY <2>1, <3>1, <4>1, BacksStay
        <3>3. node'[v].term >= u
            BY <3>1, TermsRise
        <3>4. QED
            BY <1>1, <3>1, <3>2, <3>3
    <2>3. Backers(u) \subseteq W
        BY <2>2
    <2>4. Cardinality(Backers(u)) >= QuorumSize
        BY <1>2 DEF CommitStep, CommitsOnRecord, ReignsAreBacked
    <2>5. /\ Cardinality(Backers(u)) <= Cardinality(W)
          /\ Cardinality(Backers(u)) \in Nat
        BY <1>1, <2>3, FS_Subset, FS_CardinalityType
    <2>6. QED
        BY <1>1, <2>4, <2>5, QuorumSizeType DEF W
<1>3. CASE reign[u] = <<>>
    <2>1. PICK c \in Server : /\ Wins(c, node[c], node'[c])
                              /\ node'[c].term = u /\ reign'[u] = node'[c].log
        BY <1>3, ReignBegins
    <2> DEFINE n == node[c]
               k == node'[c]
    <2>2. k.role = "LEADER" /\ k.log = Append(n.log, NoOpOf(k.term))
        BY <2>1 DEF Wins, Inaugural
    <2>3. \A t \in Nat, i \in Nat : Has(n.log, t, i) => Has(reign'[u], t, i)
        <3>1. n.log \in Seq(Entry) /\ NoOpOf(k.term) \in Entry
            BY CommitTypes DEF NoOpOf, Entry
        <3>2. QED
            BY <2>1, <2>2, <3>1, HasAppended
    <2>4. Cardinality(k.votes) >= QuorumSize
        BY <2>2 DEF CommitStep, OneCountPerVote, LeadersHaveQuorum, IsLeader, QuorumSize
    <2>5. ASSUME NEW v \in k.votes
          PROVE  v \in W
        <3>1. CASE k.term = n.term + 1 /\ k.votes = {c}
            <4>1. v = c /\ k.term >= u
                BY <2>1, <3>1
            <4>2. BacksAfter(c, reign'[u], u)
                BY <2>1, <2>3, <3>1, OwnBacks
            <4>3. QED
                BY <1>1, <4>1, <4>2
        <3>2. CASE CountsVote(c, n, k)
            <4>1. MayLead(c, u)
                BY <1>3, <2>1, <3>2 DEF CountsVote, MayLead
            <4>2. \/ v \in n.votes
                  \/ \E m \in rpcs : IsGrant(m) /\ m.to = c /\ m.term = u /\ m.from = v
                BY <2>1, <3>2 DEF CountsVote
            <4>3. v \in Server /\ node[v].term >= u /\ BacksAfter(v, reign'[u], u)
                BY <2>3, <4>1, <4>2, VotersBack
            <4>4. node'[v].term >= u
                BY <4>3, TermsRise
            <4>5. QED
                BY <1>1, <4>3, <4>4
        <3>3. QED
            BY <2>1, <3>1, <3>2 DEF Wins
    <2>6. k.votes \subseteq W
        BY <2>5
    <2>7. Cardinality(k.votes) <= Cardinality(W) /\ Cardinality(k.votes) \in Nat
        BY <1>1, <2>6, FS_Subset, FS_CardinalityType
    <2>8. QED
        BY <1>1, <2>4, <2>7, QuorumSizeType DEF W
<1>4. QED
    BY <1>2, <1>3

-----------------------------------------------------------------------------
(* What is on its way to followers and back.                               *)

\* A batch from next on is all of a log that is not longer than a batch.
LEMMA BatchToTheEnd ==
    ASSUME NEW log \in Seq(Entry), NEW a \in Nat \ {0}, a <= Len(log) + 1,
           Len(log) <= MaxEntriesPerRpc
    PROVE  LET entries == GetEntriesFrom(log, a)
           IN  /\ Len(entries) = Len(log) - a + 1
               /\ \A i \in 1..Len(entries) : entries[i] = log[a - 1 + i]
<1> DEFINE L == Len(log)
           c == a + MaxEntriesPerRpc - 1
           entries == SubSeq(log, a, L)
<1>1. L \in Nat /\ c \in Int /\ L <= c
    BY LenProperties, BatchAssumption
<1>2. Min({L, c}) = L
    <2> HIDE DEF L, c
    <2>1. QED
        BY <1>1, MinOfTwo
<1>3. GetEntriesFrom(log, a) = entries
    BY <1>2 DEF GetEntriesFrom
<1>4. \A i \in a..L : log[i] \in Entry
    BY <1>1, ElementOfSeq
<1> HIDE DEF L, c
<1>5. /\ Len(entries) = IF a <= L THEN L - a + 1 ELSE 0
      /\ \A i \in 1 .. L - a + 1 : entries[i] = log[a + i - 1]
    BY <1>1, <1>4, SubSeqProperties
<1> HIDE DEF entries
<1>6. Len(entries) = L - a + 1
    <2>1. a <= L + 1
        BY DEF L
    <2>2. QED
        BY <1>1, <1>5, <2>1
<1>7. \A i \in 1..Len(entries) : entries[i] = log[a - 1 + i]
    <2>1. \A i \in 1..Len(entries) : i \in 1 .. L - a + 1 /\ a + i - 1 = a - 1 + i
        BY <1>1, <1>6
    <2>2. QED
        BY <1>5, <2>1
<1>8. QED
    BY <1>3, <1>6, <1>7 DEF L

LEMMA BatchesReachTheEndStep ==
    ASSUME CommitStep, BatchesCoverLog, MatchesAreHeld', LogsAreShort'
    PROVE  BatchesReachTheEnd'
<1> SUFFICES ASSUME NEW m \in rpcs', m.type = "AppendEntries"
             PROVE  /\ Has(reign'[m.term], m.term, m.prevIndex + Len(m.entries))
                    /\ \A i \in 1..Len(m.entries) : m.entries[i] = reign'[m.term][m.prevIndex + i]
                    /\ m.prevIndex > 0 => m.prevTerm = reign'[m.term][m.prevIndex].term
    BY DEF BatchesReachTheEnd
<1> DEFINE T    == m.term
           prev == m.prevIndex
           N    == Len(m.entries)
<1>1. CASE m \in rpcs
    <2> DEFINE R == reign[T]
               L == Len(R)
    <2>1. /\ Has(R, T, prev + N)
          /\ \A i \in 1..N : m.entries[i] = R[prev + i]
          /\ prev > 0 => m.prevTerm = R[prev].term
        BY <1>1 DEF CommitStep, CommitsOnRecord, BatchesReachTheEnd
    <2>2. T \in Nat /\ prev \in Nat /\ N \in Nat
        BY <1>1, CommitTypes, RequestTypes
    <2>3. L \in Nat
        BY <2>2, CommitTypes
    <2>4. /\ \A i \in 1..N : prev + i \in 1..L
          /\ prev > 0 => prev \in 1..L
        <3>1. prev + N \in 1..L
            BY <2>1 DEF Has
        <3> HIDE DEF prev, N, L
        <3>2. QED
            BY <2>2, <2>3, <3>1
    <2>5. \A i \in 1..L : reign'[T][i] = R[i]
        BY <2>2 DEF CommitStep, ReignMoves
    <2>6. Has(reign'[T], T, prev + N)
        BY <2>1, <2>2, HasStays
    <2>7. QED
        BY <2>1, <2>4, <2>5, <2>6
<1>2. CASE m \notin rpcs
    <2>1. PICK s \in Server : node'[s].role = "LEADER" /\ m \in AppendRequests(node'[s], s)
        BY <1>2 DEF CommitStep, Moves, Sent
    <2>2. PICK p \in Peers(s) : m = AppendRequest(node'[s], s, p)
        BY <2>1 DEF AppendRequests
    <2> DEFINE log == node'[s].log
               a   == node'[s].next[p]
               L   == Len(log)
    <2>3. /\ T = node'[s].term /\ prev = a - 1 /\ m.prevTerm = GetTerm(log, a - 1)
          /\ m.entries = GetEntriesFrom(log, a)
        BY <2>2 DEF AppendRequest
    <2>4. log # <<>> /\ LastLogTerm(log) = T /\ reign'[T] = log
        BY <2>1, <2>3, LeaderLogs
    <2>5. log \in Seq(Entry) /\ L \in Nat
        BY CommitTypes
    <2>6. a \in Nat \ {0} /\ a <= L + 1
        <3>1. a \in Nat \ {0}
            BY CommitTypes DEF NodeType, Peers
        <3>2. a <= L + 1
            BY <2>1, <2>2 DEF MatchesAreHeld, IsLeader
        <3>3. QED
            BY <3>1, <3>2
    <2>7. L <= MaxEntriesPerRpc
        <3>1. L <= MaxLogLen /\ MaxLogLen \in Nat /\ MaxLogLen <= MaxEntriesPerRpc
            BY DEF LogsAreShort, BatchesCoverLog
        <3> HIDE DEF L
        <3>2. QED
            BY <2>5, <3>1, BatchAssumption
    <2>8. N = L - a + 1 /\ \A i \in 1..N : m.entries[i] = log[a - 1 + i]
        <3> HIDE DEF a, log
        <3>1. QED
            BY <2>3, <2>5, <2>6, <2>7, BatchToTheEnd
    <2>9. Has(log, T, L)
        <3> HIDE DEF log
        <3>1. QED
            BY <2>4, <2>5, LastOfLog
    <2>10. prev + N = L /\ (prev > 0 => prev \in 1..L)
        <3> HIDE DEF prev, N, L, a
        <3>1. QED
            BY <2>3, <2>5, <2>6, <2>8
    <2>11. prev > 0 => m.prevTerm = log[prev].term
        BY <2>3, <2>10 DEF GetTerm
    <2>12. QED
        BY <2>3, <2>4, <2>8, <2>9, <2>10, <2>11
<1>3. QED
    BY <1>1, <1>2

LEMMA AckTypes ==
    ASSUME NEW m \in RpcType, m.type = "AppendEntriesReply"
    PROVE  m.from \in Server /\ m.to \in Server /\ m.sentIn \in Nat /\ m.matchIndex \in Nat
BY DEF RpcType, VoteRequestType, AppendRequestType, VoteReplyType, AppendReplyType

LEMMA AcksWereHeldStep ==
    ASSUME CommitStep
    PROVE  AcksWereHeld'
<1> SUFFICES ASSUME NEW m \in rpcs', m.type = "AppendEntriesReply", m.success
             PROVE  /\ m.from # m.to /\ m.sentIn <= node'[m.to].term /\ Elected(m.sentIn, m.to)'
                    /\ m.matchIndex > 0 /\ m.matchIndex <= held'[m.from][m.sentIn]
    BY DEF AcksWereHeld, Elected, QuorumSize
<1>1. m.from \in Server /\ m.to \in Server /\ m.sentIn \in Nat /\ m.matchIndex \in Nat
    <2>1. m \in RpcType
        BY CommitTypes DEF TypeOK
    <2>2. QED
        BY <2>1, AckTypes
<1>2. CASE m \in rpcs
    <2>1. /\ m.from # m.to /\ m.sentIn <= node[m.to].term /\ Elected(m.sentIn, m.to)
          /\ m.matchIndex > 0 /\ m.matchIndex <= held[m.from][m.sentIn]
        BY <1>2 DEF CommitStep, CommitsOnRecord, AcksWereHeld
    <2>2. Elected(m.sentIn, m.to)'
        BY <1>1, <2>1 DEF CommitStep, ElectionMove
    <2>3. m.sentIn <= node'[m.to].term
        BY <1>1, <2>1, TermsRise
    <2>4. m.matchIndex <= held'[m.from][m.sentIn]
        <3>1. held'[m.from][m.sentIn] >= held[m.from][m.sentIn]
            BY <1>1, HeldGrows
        <3>2. held'[m.from][m.sentIn] \in Nat /\ held[m.from][m.sentIn] \in Nat
            BY <1>1, CommitTypes
        <3>3. QED
            BY <1>1, <2>1, <3>1, <3>2
    <2>5. QED
        BY <2>1, <2>2, <2>3, <2>4
<1>3. CASE m \notin rpcs
    <2>1. PICK c \in Server : Acks(c, node[c], node'[c], m)
        BY <1>3 DEF CommitStep, Moves, Sent
    <2>2. PICK q \in rpcs : /\ Accepts(c, node[c], node'[c], q)
                            /\ m.from = c /\ m.to = q.from /\ m.sentIn = q.term
                            /\ m.matchIndex = Len(node'[c].log)
        BY <2>1 DEF Acks
    <2>3. /\ reign[q.term] # <<>> /\ node'[c].term = q.term
          /\ node'[c].log # <<>> /\ LastLogTerm(node'[c].log) = q.term
        BY <2>2, AcceptedLog
    <2>4. held'[c][q.term] = Len(node'[c].log)
        BY <1>1, <2>2, <2>3, CommitTypes
    <2>5. Len(node'[c].log) > 0
        BY <2>3, CommitTypes, LastOfLog
    <2>6. Elected(q.term, q.from) /\ c # q.from
        BY <2>2 DEF CommitStep, LogsOnRecord, RequestsFollow, Accepts
    <2>7. node[q.from].term >= q.term
        <3>1. PICK x \in Server : Elected(q.term, x) /\ node[x].term >= q.term
            BY <1>1, <2>2, <2>3 DEF CommitStep, LogsOnRecord, ReignsWereElected
        <3>2. x = q.from
            BY <1>1, <2>2, <2>6, <3>1 DEF CommitStep, Elections, OneElected
        <3>3. QED
            BY <3>1, <3>2
    <2>8. Elected(m.sentIn, m.to)'
        BY <1>1, <2>2, <2>6 DEF CommitStep, ElectionMove
    <2>9. m.sentIn <= node'[m.to].term
        BY <1>1, <2>2, <2>7, TermsRise
    <2>10. m.matchIndex <= held'[m.from][m.sentIn]
        BY <1>1, <2>2, <2>4
    <2>11. QED
        BY <2>2, <2>5, <2>6, <2>8, <2>9, <2>10
<1>4. QED
    BY <1>2, <1>3

-----------------------------------------------------------------------------
(* Chosen entries.                                                         *)

\* Every later leader has what is chosen: of the first that had not, a backer
\* would have held the entry.
LEMMA ChosenStays ==
    ASSUME HeldType, ReignsAreBacked,
           NEW t \in Nat, NEW u \in Nat, t < u, NEW i \in Nat, Chosen(t, i), reign[u] # <<>>
    PROVE  Has(reign[u], t, i)
<1> DEFINE D == {w \in Nat : w > t /\ Lacks(w, t, i)}
           w == Min(D)
<1>1. SUFFICES ASSUME ~Has(reign[u], t, i)
               PROVE  FALSE
    OBVIOUS
<1>2. D \subseteq Nat /\ u \in D
    BY <1>1 DEF Lacks
<1>3. w \in D /\ \A y \in D : w <= y
    <2> HIDE DEF D
    <2>1. D \in SUBSET Nat /\ D # {}
        BY <1>2
    <2>2. QED
        BY <2>1, MinOfNaturals
<1> HIDE DEF w
<1>4. w \in Nat /\ w > t /\ reign[w] # <<>> /\ ~Has(reign[w], t, i)
    BY <1>3 DEF Lacks
<1>5. Cardinality(Backers(w)) >= QuorumSize
    BY <1>4 DEF ReignsAreBacked
<1>6. Cardinality(Holders(t, i)) >= QuorumSize /\ Has(reign[t], t, i)
    BY DEF Chosen
<1>7. Backers(w) \cap Holders(t, i) # {}
    <2>1. Backers(w) \subseteq Server /\ Holders(t, i) \subseteq Server
        BY DEF Backers, Holders
    <2>2. /\ Cardinality(Backers(w)) \in Nat /\ Cardinality(Holders(t, i)) \in Nat
          /\ Cardinality(Server) \in Nat
        BY <2>1, FS_Subset, FS_CardinalityType, ServerAssumption
    <2>3. Cardinality(Backers(w)) + Cardinality(Holders(t, i)) > Cardinality(Server)
        BY <1>5, <1>6, <2>2, QuorumSizeType
    <2>4. QED
        BY <2>1, <2>3, FS_MajoritiesIntersect, ServerAssumption
<1>8. PICK v \in Server : held[v][t] >= i /\ Backs(v, reign[w], w)
    BY <1>7 DEF Backers, Holders
<1>9. Held(v, t, i)
    <2>1. i > 0
        BY <1>6 DEF Has
    <2>2. held[v][t] \in Nat
        BY DEF HeldType
    <2>3. i \in 1..held[v][t]
        BY <1>8, <2>1, <2>2
    <2>4. QED
        BY <1>6, <2>3 DEF Held
<1>10. PICK x \in t + 1 .. w - 1 : Lacks(x, t, i)
    <2>1. t \in 0 .. w - 1
        BY <1>4
    <2>2. QED
        BY <1>4, <1>8, <1>9, <2>1 DEF Backs
<1>11. x \in Nat /\ x > t /\ x < w
    BY <1>4
<1>12. x \in D
    BY <1>10, <1>11
<1>13. QED
    <2> HIDE DEF D
    <2>1. w <= x
        BY <1>3, <1>12
    <2>2. QED
        BY <1>4, <1>11, <2>1

\* A leader's log agrees with what was chosen in its term or before.
LEMMA ChosenAgrees ==
    ASSUME HeldType, ReignsAreBacked, ReignsFollow,
           NEW t \in Nat, NEW u \in Nat, t <= u, NEW i \in Nat, Chosen(t, i), reign[u] # <<>>
    PROVE  Has(reign[u], t, i) /\ \A j \in 1..i : reign[u][j] = reign[t][j]
<1>1. Has(reign[t], t, i)
    BY DEF Chosen
<1>2. CASE t = u
    BY <1>1, <1>2
<1>3. CASE t # u
    <2>1. t < u
        BY <1>3
    <2>2. Has(reign[u], t, i)
        BY <2>1, ChosenStays
    <2>3. Follows(reign[u], reign)
        BY DEF ReignsFollow
    <2>4. QED
        BY <2>2, <2>3, HasFollows
<1>4. QED
    BY <1>2, <1>3

LEMMA ChosenGrows ==
    ASSUME CommitStep, NEW t \in Nat, NEW i \in Nat, Chosen(t, i)
    PROVE  Chosen(t, i)'
<1> DEFINE H == {v \in Server : held'[v][t] >= i}
<1>1. Has(reign[t], t, i) /\ Cardinality(Holders(t, i)) >= QuorumSize
    BY DEF Chosen
<1>2. Has(reign'[t], t, i)
    BY <1>1, HasStays
<1>3. Holders(t, i) \subseteq H
    <2>1. \A v \in Server : held[v][t] >= i => held'[v][t] >= i
        <3>1. \A v \in Server : /\ held'[v][t] >= held[v][t]
                                 /\ held'[v][t] \in Nat /\ held[v][t] \in Nat
            BY CommitTypes, HeldGrows
        <3>2. QED
            BY <3>1
    <2>2. QED
        BY <2>1 DEF Holders
<1>4. IsFiniteSet(H) /\ Cardinality(H) \in Nat
    BY FS_Subset, FS_CardinalityType, ServerAssumption
<1> HIDE DEF H
<1>5. Cardinality(Holders(t, i)) <= Cardinality(H) /\ Cardinality(Holders(t, i)) \in Nat
    BY <1>3, <1>4, FS_Subset, FS_CardinalityType
<1>6. Cardinality(H) >= QuorumSize
    BY <1>1, <1>4, <1>5, QuorumSizeType
<1>7. QED
    BY <1>2, <1>6 DEF Chosen, Holders, H, QuorumSize

-----------------------------------------------------------------------------
(* What a leader knows of its followers.                                   *)

LEMMA Pair ==
    ASSUME NEW a, NEW b, a # b, NEW T, IsFiniteSet(T), a \in T, b \in T
    PROVE  Cardinality(T) >= 2
<1>1. /\ IsFiniteSet({a}) /\ Cardinality({a}) = 1
    BY FS_Singleton
<1>2. /\ IsFiniteSet({a} \cup {b}) /\ Cardinality({a} \cup {b}) = 2
    <2>1. b \notin {a}
        OBVIOUS
    <2> DEFINE A == {a}
    <2> HIDE DEF A
    <2>2. IsFiniteSet(A) /\ Cardinality(A) = 1 /\ b \notin A
        BY <1>1, <2>1 DEF A
    <2>3. IsFiniteSet(A \cup {b}) /\ Cardinality(A \cup {b}) = 2
        BY <2>2, FS_AddElement
    <2>4. QED
        BY <2>3 DEF A
<1>3. {a} \cup {b} \subseteq T
    OBVIOUS
<1>4. Cardinality({a} \cup {b}) <= Cardinality(T) /\ Cardinality(T) \in Nat
    BY <1>3, FS_Subset, FS_CardinalityType
<1>5. QED
    BY <1>2, <1>4

\* An answer that counts tells of entries the follower has; if the request was
\* of an earlier leadership, of entries that are chosen.
LEMMA AckTells ==
    ASSUME CommitStep, AcksAreOfTheReign, NEW s \in Server, node[s].role = "LEADER",
           NEW m \in rpcs, m.type = "AppendEntriesReply", m.success, m.to = s,
           RepliesOutliveTerm \/ m.sentIn = node[s].term
    PROVE  /\ m.matchIndex <= Len(node[s].log)
           /\ \A j \in 1..m.matchIndex :
                node[s].log[j].term = node[s].term => held[m.from][node[s].term] >= j
<1> DEFINE T   == node[s].term
           log == node[s].log
           p   == m.from
           h   == m.matchIndex
           r   == m.sentIn
<1>1. p \in Server /\ r \in Nat /\ h \in Nat /\ T \in Nat
    <2>1. m \in RpcType
        BY CommitTypes DEF TypeOK
    <2>2. QED
        BY <2>1, AckTypes, TermsRise
<1>2. p # s /\ r <= T /\ Elected(r, s) /\ h > 0 /\ h <= held[p][r]
    BY DEF CommitStep, CommitsOnRecord, AcksWereHeld
<1>3. reign[T] = log /\ log # <<>>
    BY DEF CommitStep, LogsOnRecord, LeadersReign, CommitsOnRecord, ReignsEnd, IsLeader
<1> DEFINE g == held[p][r]
<1>4. g \in Nat /\ Len(reign[r]) \in Nat /\ Len(log) \in Nat
    BY <1>1, CommitTypes
<1>5. Has(reign[r], r, g)
    <2>1. g > 0
        BY <1>1, <1>2, <1>4
    <2>2. QED
        BY <1>1, <2>1 DEF CommitStep, CommitsOnRecord, HeldIsOfReign
<1>6. CASE r = T
    <2>1. g <= Len(log)
        BY <1>3, <1>4, <1>5, <1>6 DEF Has
    <2>2. h <= Len(log)
        <3> DEFINE L == Len(log)
        <3> HIDE DEF L, h, g
        <3>1. h <= g /\ g <= L /\ L \in Nat
            BY <1>2, <1>4, <2>1 DEF L, g, h
        <3>2. h <= L
            BY <1>1, <1>4, <3>1
        <3>3. QED
            BY <3>2 DEF L
    <2>3. \A j \in 1..h : held[p][T] >= j
        <3> HIDE DEF h
        <3>1. h <= g
            BY <1>2 DEF h
        <3> HIDE DEF g
        <3>2. \A j \in 1..h : g >= j
            BY <1>1, <1>4, <3>1
        <3>3. QED
            BY <1>6, <3>2 DEF g
    <2>4. QED
        BY <2>2, <2>3
<1>7. CASE r # T
    <2>1. Cardinality(Server) <= 3
        BY <1>7 DEF AcksAreOfTheReign
    <2>2. QuorumSize <= 2
        BY <2>1, FS_CardinalityType, ServerAssumption DEF QuorumSize
    <2>3. held[s][r] >= g
        <3>1. g <= Len(reign[r])
            BY <1>4, <1>5 DEF Has
        <3>2. reign[r] # <<>>
            <4>1. Len(reign[r]) # 0
                BY <1>4, <1>5 DEF Has
            <4>2. QED
                BY <4>1, EmptySeq
        <3>3. held[s][r] >= Len(reign[r]) /\ held[s][r] \in Nat
            BY <1>1, <1>2, <3>2, CommitTypes DEF CommitStep, CommitsOnRecord, LeadersHold
        <3> DEFINE L == Len(reign[r])
                   a == held[s][r]
        <3> HIDE DEF L, a, g
        <3>4. a >= L /\ L >= g /\ a \in Nat /\ L \in Nat
            BY <1>4, <3>1, <3>3 DEF L, a
        <3>5. a >= g
            BY <1>4, <3>4
        <3>6. QED
            BY <3>5 DEF a
    <2>4. Chosen(r, g)
        <3> DEFINE H == Holders(r, g)
        <3>1. p \in H /\ s \in H
            <4>1. g >= g
                BY <1>4
            <4>2. QED
                BY <1>1, <2>3, <4>1 DEF Holders
        <3>2. IsFiniteSet(H) /\ Cardinality(H) \in Nat
            <4>1. H \subseteq Server
                BY DEF Holders
            <4>2. QED
                BY <4>1, FS_Subset, FS_CardinalityType, ServerAssumption
        <3> HIDE DEF H
        <3>3. Cardinality(H) >= 2
            BY <1>2, <3>1, <3>2, Pair
        <3>4. Cardinality(H) >= QuorumSize
            BY <2>2, <3>2, <3>3, QuorumSizeType
        <3>5. QED
            BY <1>5, <3>4 DEF Chosen, H
    <2>5. Has(log, r, g) /\ \A j \in 1..g : log[j] = reign[r][j]
        <3>1. HeldType /\ ReignsAreBacked /\ ReignsFollow
            BY DEF CommitStep, CommitsOnRecord, LogsOnRecord
        <3>2. r <= T /\ r \in Nat /\ T \in Nat /\ g \in Nat /\ reign[T] # <<>>
            BY <1>1, <1>2, <1>3, <1>4
        <3> HIDE DEF g, r, T, log
        <3>3. Has(reign[T], r, g) /\ \A j \in 1..g : reign[T][j] = reign[r][j]
            BY <2>4, <3>1, <3>2, ChosenAgrees
        <3>4. QED
            BY <1>3, <3>3
    <2>6. \A j \in 1..Len(reign[r]) : reign[r][j].term <= r
        BY <1>1 DEF CommitStep, CommitsOnRecord, TermsOfLogs
    <2> DEFINE L == Len(log)
               M == Len(reign[r])
    <2>7. g \in 1..L /\ g \in 1..M
        BY <1>5, <2>5 DEF Has
    <2> HIDE DEF L, M, g, h
    <2>8. h <= L /\ \A j \in 1..h : j \in 1..g /\ j \in 1..M
        <3>1. h <= g
            BY <1>2 DEF g, h
        <3>2. L \in Nat /\ M \in Nat
            BY <1>4 DEF L, M
        <3>3. QED
            BY <1>1, <1>4, <2>7, <3>1, <3>2
    <2>9. \A j \in 1..h : log[j].term <= r
        BY <2>5, <2>6, <2>8 DEF M
    <2>10. ~(T <= r)
        BY <1>1, <1>2, <1>7
    <2>11. \A j \in 1..h : log[j].term # T
        BY <2>9, <2>10
    <2>12. QED
        BY <2>8, <2>11 DEF L, h
<1>8. QED
    BY <1>6, <1>7

LEMMA LogsAreShortStep ==
    ASSUME CommitStep, BatchesCoverLog
    PROVE  LogsAreShort'
<1>1. MaxLogLen \in Nat
    BY DEF BatchesCoverLog
<1>2. /\ \A c \in Server : Len(node[c].log) <= MaxLogLen
      /\ \A t \in Nat : Len(reign[t]) <= MaxLogLen
    BY DEF CommitStep, CommitsOnRecord, LogsAreShort
<1>3. ASSUME NEW c \in Server
      PROVE  Len(node'[c].log) <= MaxLogLen
    <2>1. ASSUME NEW m \in rpcs, Accepts(c, node[c], node'[c], m)
          PROVE  Len(node'[c].log) <= MaxLogLen
        <3>1. m.term \in Nat /\ Len(node'[c].log) <= Len(reign[m.term])
            BY <2>1, AcceptedLog, RpcFieldsOf
        <3>2. Len(reign[m.term]) <= MaxLogLen
            BY <1>2, <3>1
        <3> DEFINE a == Len(node'[c].log)
                   b == Len(reign[m.term])
        <3>3. a \in Nat /\ b \in Nat /\ a <= b /\ b <= MaxLogLen
            BY <3>1, <3>2, CommitTypes
        <3> HIDE DEF a, b
        <3>4. a <= MaxLogLen
            BY <1>1, <3>3
        <3>5. QED
            BY <3>4 DEF a
    <2>2. Bounded(c, node[c], node'[c])
        BY DEF CommitStep, Moves
    <2>3. QED
        BY <1>2, <2>1, <2>2 DEF Bounded
<1>4. ASSUME NEW t \in Nat
      PROVE  Len(reign'[t]) <= MaxLogLen
    BY <1>2, <1>3 DEF CommitStep, ReignMoves
<1>5. QED
    BY <1>3, <1>4 DEF LogsAreShort

\* Of one peer, after a step of the leader.
KnowsOf(k, p, T) ==
    /\ k.match[p] <= Len(k.log)
    /\ k.next[p] <= Len(k.log) + 1
    /\ \A i \in 1..k.match[p] : k.log[i].term = T => held'[p][T] >= i

LEMMA MatchesAreHeldStep ==
    ASSUME CommitStep, AcksAreOfTheReign
    PROVE  MatchesAreHeld'
<1> SUFFICES ASSUME NEW s \in Server, node'[s].role = "LEADER", NEW p \in Peers(s)
             PROVE  KnowsOf(node'[s], p, node'[s].term)
    BY DEF MatchesAreHeld, KnowsOf, IsLeader
<1> DEFINE n == node[s]
           k == node'[s]
           T == k.term
<1>1. /\ n.log \in Seq(Entry) /\ Len(n.log) \in Nat /\ Len(k.log) \in Nat
      /\ T \in Nat /\ p \in Server
    BY CommitTypes DEF Peers
<1>2. n.match \in [Server -> Nat] /\ n.next \in [Server -> Nat \ {0}]
    BY CommitTypes DEF NodeType
<1>next. k.next[p] \in Nat
    BY <1>1, CommitTypes DEF NodeType
<1>3. Move(s, n, k)
    BY DEF CommitStep, Moves
<1>4. ASSUME n.role = "LEADER", k.term = n.term
      PROVE  /\ n.match[p] <= Len(n.log) /\ n.next[p] <= Len(n.log) + 1
             /\ \A i \in 1..n.match[p] : n.log[i].term = T => held'[p][T] >= i
    <2>1. /\ n.match[p] <= Len(n.log) /\ n.next[p] <= Len(n.log) + 1
          /\ \A i \in 1..n.match[p] : n.log[i].term = T => held[p][T] >= i
        BY <1>4 DEF CommitStep, CommitsOnRecord, MatchesAreHeld, IsLeader
    <2>2. /\ held'[p][T] >= held[p][T]
          /\ held'[p][T] \in Nat /\ held[p][T] \in Nat
        BY <1>1, CommitTypes, HeldGrows
    <2> DEFINE a == held'[p][T]
               b == held[p][T]
    <2> HIDE DEF a, b
    <2>3. ASSUME NEW i \in 1..n.match[p], b >= i
          PROVE  a >= i
        <3>1. i \in Nat
            BY <1>1, <1>2
        <3>2. a >= b /\ a \in Nat /\ b \in Nat
            BY <2>2 DEF a, b
        <3>3. QED
            BY <2>3, <3>1, <3>2
    <2>4. QED
        BY <2>1, <2>3 DEF a, b
<1>5. CASE Rests(n, k)
    <2>1. /\ n.role = "LEADER" /\ k.term = n.term /\ k.match = n.match
          /\ k.next[p] <= n.next[p] /\ k.log = n.log
        BY <1>1, <1>5 DEF Rests, Idle
    <2> DEFINE L == Len(n.log)
    <2> HIDE DEF L
    <2>2. k.next[p] <= L + 1
        <3>1. n.next[p] <= L + 1 /\ k.next[p] <= n.next[p] /\ n.next[p] \in Nat /\ L \in Nat
            BY <1>1, <1>2, <1>4, <2>1 DEF L
        <3>2. QED
            BY <1>next, <3>1
    <2>3. QED
        BY <1>4, <2>1, <2>2 DEF KnowsOf, L
<1>6. CASE Wins(s, n, k)
    <2>1. k.match[p] = 0 /\ k.next[p] = Len(n.log) + 1 /\ k.log = Append(n.log, NoOpOf(T))
        BY <1>1, <1>6 DEF Wins, Inaugural
    <2>2. NoOpOf(T) \in Entry
        BY <1>1 DEF NoOpOf, Entry
    <2>3. Len(k.log) = Len(n.log) + 1
        BY <1>1, <2>1, <2>2, AppendedLog
    <2> DEFINE L == Len(n.log)
               K == Len(k.log)
    <2> HIDE DEF L, K
    <2>4. k.match[p] <= K /\ k.next[p] <= K + 1 /\ 1..k.match[p] = {}
        <3>1. k.match[p] = 0 /\ k.next[p] = L + 1 /\ L \in Nat /\ K = L + 1
            BY <1>1, <2>1, <2>3 DEF L, K
        <3>2. QED
            BY <3>1
    <2>5. QED
        BY <2>4 DEF KnowsOf, K
<1>7. CASE Proposes(s, n, k)
    <2>1. PICK v \in Value : k.log = Append(n.log, [term |-> T, value |-> v])
        BY <1>7 DEF Proposes
    <2> DEFINE e == [term |-> T, value |-> v]
    <2>2. e \in Entry
        BY <1>1 DEF Entry
    <2> HIDE DEF e
    <2>3. /\ n.role = "LEADER" /\ k.term = n.term
          /\ k.match = n.match /\ k.next = n.next /\ k.log = Append(n.log, e)
        BY <1>7, <2>1 DEF Proposes, Leading, SameProgress, e
    <2>4. Len(k.log) = Len(n.log) + 1 /\ \A j \in 1..Len(n.log) : k.log[j] = n.log[j]
        BY <1>1, <2>2, <2>3, AppendedLog
    <2> DEFINE L == Len(n.log)
               K == Len(k.log)
               a == n.match[p]
               x == n.next[p]
    <2>5. /\ a \in Nat /\ x \in Nat /\ L \in Nat /\ K = L + 1 /\ a <= L /\ x <= L + 1
        BY <1>1, <1>2, <1>4, <2>3, <2>4
    <2> HIDE DEF L, K, a, x
    <2>6. a <= K /\ x <= K + 1 /\ \A i \in 1..a : i \in 1..L
        BY <2>5
    <2>7. \A i \in 1..a : k.log[i] = n.log[i]
        BY <2>4, <2>6 DEF L
    <2>8. \A i \in 1..a : n.log[i].term = T => held'[p][T] >= i
        BY <1>4, <2>3 DEF a
    <2>9. k.match[p] = a /\ k.next[p] = x
        BY <2>3 DEF a, x
    <2>10. QED
        BY <2>6, <2>7, <2>8, <2>9 DEF KnowsOf, K
<1>8. CASE Learns(s, n, k)
    <2>1. n.role = "LEADER" /\ k.term = n.term /\ k.log = n.log
        BY <1>8 DEF Learns, Leading
    <2>2. PICK m \in rpcs :
            /\ m.type = "AppendEntriesReply" /\ m.success /\ m.to = s
            /\ RepliesOutliveTerm \/ m.sentIn = n.term
            /\ LET i == IF n.match[m.from] >= m.matchIndex THEN n.match[m.from] ELSE m.matchIndex
               IN  /\ k.match = [n.match EXCEPT ![m.from] = i]
                   /\ k.next = [n.next EXCEPT ![m.from] = i + 1]
        BY <1>8 DEF Learns
    <2>3. m.from \in Server /\ m.matchIndex \in Nat
        <3>1. m \in RpcType
            BY CommitTypes DEF TypeOK
        <3>2. QED
            BY <2>2, <3>1, AckTypes
    <2>4. CASE p # m.from
        <3>1. k.match[p] = n.match[p] /\ k.next[p] = n.next[p]
            BY <1>1, <1>2, <2>2, <2>4
        <3>2. QED
            BY <1>4, <2>1, <3>1 DEF KnowsOf
    <2>5. CASE p = m.from
        <3> DEFINE L == Len(k.log)
                   i == k.match[p]
        <3>1. /\ i = (IF n.match[p] >= m.matchIndex THEN n.match[p] ELSE m.matchIndex)
              /\ k.next[p] = i + 1
            BY <1>1, <1>2, <2>2, <2>5
        <3>2. CASE n.match[p] >= m.matchIndex
            <4>1. i = n.match[p] /\ i <= L /\ i \in Nat /\ L \in Nat
                BY <1>1, <1>2, <1>4, <2>1, <3>1, <3>2
            <4>2. \A j \in 1..i : k.log[j].term = T => held'[p][T] >= j
                BY <1>4, <2>1, <4>1
            <4> HIDE DEF i, L
            <4>3. i + 1 <= L + 1
                BY <4>1
            <4>4. QED
                BY <3>1, <4>1, <4>2, <4>3 DEF KnowsOf, i, L
        <3>3. CASE ~(n.match[p] >= m.matchIndex)
            <4>1. /\ m.matchIndex <= Len(n.log)
                  /\ \A j \in 1..m.matchIndex : n.log[j].term = T => held[p][T] >= j
                BY <2>1, <2>2, <2>5, AckTells
            <4>2. i = m.matchIndex /\ i <= L /\ i \in Nat /\ L \in Nat
                BY <1>1, <2>1, <2>3, <3>1, <3>3, <4>1
            <4>3. \A j \in 1..i : k.log[j].term = T => held'[p][T] >= j
                <5>1. /\ held'[p][T] >= held[p][T]
                      /\ held'[p][T] \in Nat /\ held[p][T] \in Nat
                    BY <1>1, CommitTypes, HeldGrows
                <5> DEFINE a == held'[p][T]
                           b == held[p][T]
                <5> HIDE DEF a, b, i
                <5>2. \A j \in 1..i : b >= j => a >= j
                    <6>1. a >= b /\ a \in Nat /\ b \in Nat
                        BY <5>1 DEF a, b
                    <6>2. QED
                        BY <4>2, <6>1
                <5>3. \A j \in 1..i : k.log[j].term = T => b >= j
                    BY <2>1, <4>1, <4>2 DEF b
                <5>4. QED
                    BY <5>2, <5>3 DEF a
            <4> HIDE DEF i, L
            <4>4. i + 1 <= L + 1
                BY <4>2
            <4>5. QED
                BY <3>1, <4>2, <4>3, <4>4 DEF KnowsOf, i, L
        <3>4. QED
            BY <3>2, <3>3
    <2>6. QED
        BY <2>4, <2>5
<1>9. ~Polls(s, n, k) /\ ~Tallies(s, n, k) /\ ~ \E m \in rpcs : Accepts(s, n, k, m)
    BY NoLeaderAccepts DEF Polls, Tallies
<1>10. QED
    BY <1>3, <1>5, <1>6, <1>7, <1>8, <1>9 DEF Move

-----------------------------------------------------------------------------
(* What is committed.                                                      *)

LEMMA MaxOfBounded ==
    ASSUME NEW T \in SUBSET Nat, T # {}, NEW b \in Nat, \A y \in T : y <= b
    PROVE  Max(T) \in T
<1> DEFINE U == {x \in Nat : \A y \in T : y <= x}
           u == Min(U)
<1>1. U \in SUBSET Nat /\ b \in U
    OBVIOUS
<1>2. u \in U /\ \A x \in U : u <= x
    <2> HIDE DEF U
    <2>1. U # {}
        BY <1>1
    <2>2. QED
        BY <1>1, <2>1, MinOfNaturals
<1> HIDE DEF u
<1>3. u \in Nat /\ \A y \in T : y <= u
    BY <1>2
<1>4. u \in T
    <2>1. SUFFICES ASSUME u \notin T
                   PROVE  FALSE
        OBVIOUS
    <2>2. \A y \in T : y \in Nat /\ y <= u - 1
        BY <1>3, <2>1
    <2>3. u - 1 \in U
        <3>1. PICK y \in T : y \in Nat /\ y <= u - 1
            BY <2>2
        <3>2. u - 1 \in Nat
            BY <1>3, <3>1
        <3>3. QED
            BY <2>2, <3>2
    <2>4. u <= u - 1
        BY <1>2, <2>3
    <2>5. QED
        BY <1>3, <2>4
<1>5. \E x \in T : \A y \in T : x >= y
    BY <1>3, <1>4
<1>6. QED
    BY <1>5 DEF Max

\* A quorum has reached what QuorumMatchIndex finds.
LEMMA QuorumMatchIndexReached ==
    ASSUME NEW k, NEW s \in Server, NEW b \in Nat,
           Len(k.log) \in Nat, Len(k.log) <= b,
           \A p \in Peers(s) : k.match[p] \in Nat /\ k.match[p] <= b
    PROVE  LET index(p) == IF p = s THEN Len(k.log) ELSE k.match[p]
               i        == QuorumMatchIndex(k, s)
           IN  i \in Nat /\ Cardinality({p \in Server : index(p) >= i}) >= QuorumSize
<1> DEFINE index(p)   == IF p = s THEN Len(k.log) ELSE k.match[p]
           Reached(i) == {p \in Server : index(p) >= i}
           I          == {index(p) : p \in Server}
           T          == {i \in I : Cardinality(Reached(i)) >= QuorumSize}
<1>1. \A p \in Server : index(p) \in Nat /\ index(p) <= b
    BY DEF Peers
<1>2. QuorumMatchIndex(k, s) = Max(T)
    BY DEF QuorumMatchIndex
<1> HIDE DEF index
<1>3. I \in SUBSET Nat /\ I # {} /\ \A y \in I : y <= b
    BY <1>1
<1> DEFINE low == Min(I)
<1>4. low \in I /\ \A y \in I : low <= y
    <2> HIDE DEF I
    <2>1. QED
        BY <1>3, MinOfNaturals
<1>5. low \in T
    <2> HIDE DEF low
    <2>1. \A p \in Server : index(p) \in I
        OBVIOUS
    <2>2. \A p \in Server : index(p) >= low
        BY <1>1, <1>3, <1>4, <2>1
    <2>3. Reached(low) = Server
        BY <2>2
    <2>4. Cardinality(Server) >= QuorumSize
        <3>1. Cardinality(Server) \in Nat /\ Cardinality(Server) # 0
            BY FS_CardinalityType, FS_EmptySet, ServerAssumption
        <3>2. QED
            BY <3>1 DEF QuorumSize
    <2>5. QED
        BY <1>4, <2>3, <2>4
<1>6. Max(T) \in T
    <2>1. T \in SUBSET Nat /\ T # {} /\ \A y \in T : y <= b
        BY <1>3, <1>5
    <2> HIDE DEF T
    <2>2. QED
        BY <2>1, MaxOfBounded
<1>7. Max(T) \in Nat /\ Cardinality(Reached(Max(T))) >= QuorumSize
    <2> DEFINE x == Max(T)
    <2>1. x \in T
        BY <1>6
    <2> HIDE DEF x
    <2>2. x \in Nat /\ Cardinality(Reached(x)) >= QuorumSize
        BY <1>3, <2>1
    <2>3. QED
        BY <2>2 DEF x
<1>8. QED
    BY <1>2, <1>7 DEF index

\* What is applied stays the beginning of the log.
LEMMA ApplyingLog ==
    ASSUME NEW applied \in Seq(Entry), NEW log \in Seq(Entry), NEW c \in Nat,
           Len(applied) <= c, c <= Len(log),
           \A j \in 1..Len(applied) : applied[j] = log[j]
    PROVE  LET out == Applying(applied, log, c)
           IN  Len(out) = c /\ \A j \in 1..c : out[j] = log[j]
<1> DEFINE a   == Len(applied)
           new == SubSeq(log, a + 1, c)
           out == applied \o new
<1>1. a \in Nat /\ Len(log) \in Nat
    BY LenProperties
<1>2. \A i \in a + 1 .. c : log[i] \in Entry
    BY <1>1, ElementOfSeq
<1> HIDE DEF a
<1>3. /\ new \in Seq(Entry)
      /\ Len(new) = IF a + 1 <= c THEN c - (a + 1) + 1 ELSE 0
      /\ \A i \in 1 .. c - (a + 1) + 1 : new[i] = log[a + 1 + i - 1]
    BY <1>1, <1>2, SubSeqProperties
<1> HIDE DEF new
<1>4. a <= c
    BY DEF a
<1>5. Len(new) = c - a
    BY <1>1, <1>3, <1>4
<1>6. /\ Len(out) = a + Len(new)
      /\ \A i \in 1 .. a + Len(new) : out[i] = IF i <= a THEN applied[i] ELSE new[i - a]
    BY <1>3, ConcatProperties DEF a
<1>7. Len(out) = c /\ \A i \in 1..c : out[i] = IF i <= a THEN applied[i] ELSE new[i - a]
    <2>1. a + Len(new) = c
        BY <1>1, <1>4, <1>5
    <2>2. QED
        BY <1>6, <2>1
<1>8. ASSUME NEW j \in 1..c
      PROVE  out[j] = log[j]
    <2>1. CASE j <= a
        <3>1. j \in 1..a
            BY <1>1, <2>1
        <3>2. applied[j] = log[j]
            BY <3>1 DEF a
        <3>3. QED
            BY <1>7, <2>1, <3>2
    <2>2. CASE ~(j <= a)
        <3>1. j - a \in 1 .. c - (a + 1) + 1 /\ a + 1 + (j - a) - 1 = j
            BY <1>1, <2>2
        <3>2. new[j - a] = log[j]
            BY <1>3, <3>1
        <3>3. QED
            BY <1>7, <2>2, <3>2
    <2>3. QED
        BY <2>1, <2>2
<1>9. QED
    BY <1>7, <1>8 DEF Applying, new, a

\* Committed, of what is known after the step.
CommittedAfter(log, c, u) ==
    c = 0 \/ \E t \in 0..u : \E i \in Nat :
                /\ c <= i /\ Chosen(t, i)'
                /\ c <= Len(log) /\ \A j \in 1..c : log[j] = reign'[t][j]

LEMMA CommittedStays ==
    ASSUME CommitStep, NEW a, NEW b, NEW c \in Nat, NEW u \in Nat, NEW v \in Nat, u <= v,
           Committed(a, c, u), c <= Len(b), \A j \in 1..c : b[j] = a[j]
    PROVE  CommittedAfter(b, c, v)
<1>1. CASE c = 0
    BY <1>1 DEF CommittedAfter
<1>2. ASSUME NEW t \in 0..u, NEW i \in Nat, c <= i, Chosen(t, i),
             \A j \in 1..c : a[j] = reign[t][j]
      PROVE  CommittedAfter(b, c, v)
    <2>1. t \in Nat /\ t \in 0..v
        OBVIOUS
    <2>2. Chosen(t, i)'
        BY <1>2, <2>1, ChosenGrows
    <2> DEFINE M == Len(reign[t])
    <2>3. i \in 1..M /\ M \in Nat
        BY <1>2, <2>1, CommitTypes DEF Chosen, Has
    <2>4. \A j \in 1..c : j \in 1..M
        <3> HIDE DEF M
        <3>1. QED
            BY <1>2, <2>3
    <2>5. \A j \in 1..M : reign'[t][j] = reign[t][j]
        BY <2>1 DEF CommitStep, ReignMoves
    <2>6. \A j \in 1..c : b[j] = reign'[t][j]
        BY <1>2, <2>4, <2>5
    <2>7. QED
        BY <1>2, <2>1, <2>2, <2>6 DEF CommittedAfter
<1>3. QED
    BY <1>1, <1>2 DEF Committed

\* What holds of a server's commit index, and of what it applied.
CommitsAfter(k) ==
    /\ CommittedAfter(k.log, k.commit, k.term)
    /\ Len(k.applied) = k.commit
    /\ \A j \in 1..k.commit : k.applied[j] = k.log[j]

LEMMA CommitBefore ==
    ASSUME CommitStep, NEW s \in Server
    PROVE  LET n == node[s]
           IN  /\ n.commit \in Nat /\ n.applied \in Seq(Entry)
               /\ Committed(n.log, n.commit, n.term)
               /\ Len(n.applied) = n.commit /\ n.commit <= Len(n.log)
               /\ \A j \in 1..n.commit : n.applied[j] = n.log[j]
<1> DEFINE n == node[s]
<1>1. n.commit \in Nat /\ n.applied \in Seq(Entry) /\ Len(n.log) \in Nat
    BY CommitTypes DEF NodeType
<1>2. /\ Committed(n.log, n.commit, n.term)
      /\ Len(n.applied) = n.commit
      /\ \A j \in 1..n.commit : n.applied[j] = n.log[j]
    BY DEF CommitStep, CommitsOnRecord, CommitsAreChosen
<1>3. n.commit <= Len(n.log)
    BY <1>1, <1>2 DEF Committed
<1>4. QED
    BY <1>1, <1>2, <1>3

\* The log keeps what was committed, and nothing more is.
LEMMA CommitKeeps ==
    ASSUME CommitStep, NEW s \in Server,
           node'[s].commit = node[s].commit, node'[s].applied = node[s].applied,
           node[s].commit <= Len(node'[s].log),
           \A j \in 1..node[s].commit : node'[s].log[j] = node[s].log[j]
    PROVE  CommitsAfter(node'[s])
<1>1. /\ node[s].commit \in Nat
      /\ Committed(node[s].log, node[s].commit, node[s].term)
      /\ Len(node[s].applied) = node[s].commit
      /\ \A j \in 1..node[s].commit : node[s].applied[j] = node[s].log[j]
    BY CommitBefore
<1>2. CommittedAfter(node'[s].log, node[s].commit, node'[s].term)
    BY <1>1, CommittedStays, TermsRise
<1>3. QED
    BY <1>1, <1>2 DEF CommitsAfter

\* More is committed, and applied at once.
LEMMA CommitAdvances ==
    ASSUME CommitStep, NEW s \in Server, NEW c \in Nat,
           node'[s].commit = c, node'[s].applied = Applying(node[s].applied, node'[s].log, c),
           node[s].commit <= c, c <= Len(node'[s].log),
           \A j \in 1..node[s].commit : node'[s].log[j] = node[s].log[j],
           CommittedAfter(node'[s].log, c, node'[s].term)
    PROVE  CommitsAfter(node'[s])
<1> DEFINE n   == node[s]
           log == node'[s].log
<1>1. /\ n.applied \in Seq(Entry) /\ Len(n.applied) = n.commit
      /\ \A j \in 1..n.commit : n.applied[j] = n.log[j]
    BY CommitBefore
<1>2. log \in Seq(Entry)
    BY CommitTypes
<1>3. \A j \in 1..Len(n.applied) : n.applied[j] = log[j]
    BY <1>1
<1> DEFINE applied == n.applied
<1>4. /\ applied \in Seq(Entry) /\ Len(applied) <= c /\ c <= Len(log)
      /\ \A j \in 1..Len(applied) : applied[j] = log[j]
    BY <1>1, <1>3
<1>5. node'[s].applied = Applying(applied, log, c)
    OBVIOUS
<1> HIDE DEF n, log, applied
<1>6. LET out == Applying(applied, log, c)
      IN  Len(out) = c /\ \A j \in 1..c : out[j] = log[j]
    BY <1>2, <1>4, ApplyingLog
<1>7. QED
    BY <1>5, <1>6 DEF CommitsAfter, log

\* What a leader commits by counting is chosen: its followers hold it.
LEMMA CountedIsChosen ==
    ASSUME CommitStep, MatchesAreHeld', NEW s \in Server, node'[s].role = "LEADER",
           NEW c, c = QuorumMatchIndex(node'[s], s), c \in 1..Len(node'[s].log),
           node'[s].log[c].term = node'[s].term
    PROVE  CommittedAfter(node'[s].log, c, node'[s].term)
<1> DEFINE k        == node'[s]
           T        == k.term
           index(p) == IF p = s THEN Len(k.log) ELSE k.match[p]
           H        == {p \in Server : held'[p][T] >= c}
           Q        == {p \in Server : index(p) >= c}
<1>1. k.log # <<>> /\ LastLogTerm(k.log) = T /\ reign'[T] = k.log
    BY LeaderLogs
<1>2. T \in Nat /\ Len(k.log) \in Nat /\ c \in Nat
    <2>1. T \in Nat /\ Len(k.log) \in Nat
        BY CommitTypes
    <2>2. QED
        BY <2>1
<1>3. \A p \in Peers(s) : /\ k.match[p] \in Nat /\ k.match[p] <= Len(k.log)
                          /\ \A i \in 1..k.match[p] : k.log[i].term = T => held'[p][T] >= i
    <2>1. \A p \in Peers(s) : k.match[p] \in Nat
        <3>1. k.match \in [Server -> Nat]
            BY CommitTypes DEF NodeType
        <3>2. QED
            BY <3>1 DEF Peers
    <2>2. QED
        BY <2>1 DEF MatchesAreHeld, IsLeader
<1>4. Cardinality(Q) >= QuorumSize
    <2> DEFINE b == Len(k.log)
    <2>1. b \in Nat /\ Len(k.log) \in Nat /\ Len(k.log) <= b
        BY <1>2
    <2> HIDE DEF b
    <2>2. \A p \in Peers(s) : k.match[p] \in Nat /\ k.match[p] <= b
        BY <1>3 DEF b
    <2> HIDE DEF k
    <2>3. LET i == QuorumMatchIndex(k, s)
          IN  Cardinality({p \in Server : index(p) >= i}) >= QuorumSize
        BY <2>1, <2>2, QuorumMatchIndexReached
    <2>4. QED
        BY <2>3 DEF k
<1>5. Q \subseteq H
    <2>1. ASSUME NEW p \in Server, index(p) >= c
          PROVE  held'[p][T] >= c
        <3>1. CASE p = s
            <4>1. held'[s][T] = Len(k.log)
                BY <1>1, <1>2, CommitTypes
            <4>2. QED
                BY <2>1, <3>1, <4>1
        <3>2. CASE p # s
            <4>1. p \in Peers(s) /\ k.match[p] >= c
                BY <2>1, <3>2 DEF Peers
            <4> DEFINE a == k.match[p]
            <4>2. a \in Nat /\ a >= c /\ \A i \in 1..a : k.log[i].term = T => held'[p][T] >= i
                BY <1>3, <4>1
            <4>3. c \in 1..a
                <5>1. c > 0
                    OBVIOUS
                <5> HIDE DEF a
                <5>2. QED
                    BY <1>2, <4>2, <5>1
            <4>4. QED
                BY <4>2, <4>3
        <3>3. QED
            BY <3>1, <3>2
    <2>2. QED
        BY <2>1
<1>6. Cardinality(H) >= QuorumSize
    <2>1. IsFiniteSet(H) /\ Cardinality(H) \in Nat
        BY FS_Subset, FS_CardinalityType, ServerAssumption
    <2> HIDE DEF H, Q
    <2>2. Cardinality(Q) <= Cardinality(H) /\ Cardinality(Q) \in Nat
        BY <1>5, <2>1, FS_Subset, FS_CardinalityType
    <2>3. QED
        BY <1>4, <2>1, <2>2, QuorumSizeType
<1>7. Has(reign'[T], T, c)
    BY <1>1 DEF Has
<1>8. PICK t \in Nat : t = T
    BY <1>2
<1>9. Chosen(t, c)'
    BY <1>6, <1>7, <1>8 DEF Chosen, Holders, QuorumSize
<1>10. t \in 0..T /\ c <= c /\ c <= Len(k.log) /\ \A j \in 1..c : k.log[j] = reign'[t][j]
    BY <1>1, <1>2, <1>8
<1>11. QED
    BY <1>2, <1>9, <1>10 DEF CommittedAfter

\* What was committed, the log of a later leader has too.
LEMMA CommittedInReign ==
    ASSUME CommitStep, NEW log, NEW c \in Nat, NEW u \in Nat, Committed(log, c, u),
           NEW T \in Nat, u <= T, reign[T] # <<>>
    PROVE  \A j \in 1..c : log[j] = reign[T][j]
<1>1. CASE c = 0
    <2>1. 1..c = {}
        BY <1>1
    <2>2. QED
        BY <2>1
<1>2. ASSUME NEW t \in 0..u, NEW i \in Nat, c <= i, Chosen(t, i),
             \A j \in 1..c : log[j] = reign[t][j]
      PROVE  \A j \in 1..c : log[j] = reign[T][j]
    <2>1. HeldType /\ ReignsAreBacked /\ ReignsFollow
        BY DEF CommitStep, CommitsOnRecord, LogsOnRecord
    <2>2. t \in Nat /\ t <= T
        OBVIOUS
    <2>3. \A j \in 1..i : reign[T][j] = reign[t][j]
        BY <1>2, <2>1, <2>2, ChosenAgrees
    <2>4. \A j \in 1..c : j \in 1..i
        BY <1>2
    <2>5. QED
        BY <1>2, <2>3, <2>4
<1>3. QED
    BY <1>1, <1>2 DEF Committed

LEMMA AcceptedCommits ==
    ASSUME CommitStep, NEW s \in Server, NEW m \in rpcs, Accepts(s, node[s], node'[s], m)
    PROVE  CommitsAfter(node'[s])
<1> DEFINE n   == node[s]
           k   == node'[s]
           T   == m.term
           R   == reign[T]
           new == k.log
           K   == Len(new)
<1>1. /\ R # <<>> /\ k.term = T /\ new # <<>> /\ K <= Len(R)
      /\ \A j \in 1..K : new[j] = R[j]
    BY AcceptedLog
<1>2. /\ n.commit \in Nat /\ Committed(n.log, n.commit, n.term) /\ n.commit <= Len(n.log)
    BY CommitBefore
<1>3. T \in Nat /\ K \in Nat /\ n.term \in Nat /\ n.term <= T /\ m.commit \in Nat
    <2>1. m.type = "AppendEntries"
        BY DEF Accepts
    <2>2. m.commit \in Nat /\ T \in Nat
        BY <2>1, CommitTypes, RequestTypes
    <2>3. K \in Nat /\ n.term \in Nat
        BY CommitTypes
    <2>4. n.term <= T
        BY <1>1, TermsRise
    <2>5. QED
        BY <2>2, <2>3, <2>4
<1>4. \A j \in 1..n.commit : n.log[j] = R[j]
    <2> DEFINE c   == n.commit
               u   == n.term
               log == n.log
    <2>1. c \in Nat /\ u \in Nat /\ T \in Nat /\ u <= T /\ Committed(log, c, u) /\ R # <<>>
        BY <1>1, <1>2, <1>3
    <2> HIDE DEF c, u, log, T
    <2>2. \A j \in 1..c : log[j] = reign[T][j]
        BY <2>1, CommittedInReign
    <2>3. QED
        BY <2>2 DEF c, log
<1>5. n.commit <= K /\ \A j \in 1..n.commit : new[j] = n.log[j]
    <2>1. \A j \in 1..n.commit : n.log[j].term = reign[m.term][j].term
        BY <1>4
    <2>2. QED
        BY <1>2, <2>1, MergeKeeps
<1>6. CASE ~(m.commit > n.commit)
    <2>1. k.commit = n.commit /\ k.applied = n.applied
        BY <1>6 DEF Accepts
    <2>2. QED
        BY <1>5, <2>1, CommitKeeps
<1>7. CASE m.commit > n.commit
    <2>1. /\ k.commit = IF m.commit <= K THEN m.commit ELSE K
          /\ k.applied = Applying(n.applied, new, k.commit)
        BY <1>7 DEF Accepts
    <2>2. PICK c \in Nat : c = k.commit /\ c <= m.commit /\ n.commit <= c /\ c <= K
        <3> DEFINE x == k.commit
        <3> HIDE DEF x, K
        <3>1. x = IF m.commit <= K THEN m.commit ELSE K
            BY <2>1 DEF x
        <3>2. x \in Nat /\ x <= m.commit /\ n.commit <= x /\ x <= K
            BY <1>2, <1>3, <1>5, <1>7, <3>1
        <3>3. QED
            BY <3>2 DEF x
    <2>3. PICK t \in 0..T : \E i \in Nat : m.commit <= i /\ Chosen(t, i)
        <3>1. m.commit # 0
            BY <1>2, <1>3, <1>7
        <3>2. ChosenUpTo(m.commit, m.term)
            BY <3>1 DEF CommitStep, CommitsOnRecord, CommitsAreChosen, Accepts
        <3>3. QED
            BY <3>2 DEF ChosenUpTo
    <2>4. PICK i \in Nat : m.commit <= i /\ Chosen(t, i)
        BY <2>3
    <2>5. t \in Nat /\ t <= T
        BY <1>3
    <2>6. \A j \in 1..i : R[j] = reign[t][j]
        <3>1. HeldType /\ ReignsAreBacked /\ ReignsFollow
            BY DEF CommitStep, CommitsOnRecord, LogsOnRecord
        <3>2. QED
            BY <1>1, <1>3, <2>4, <2>5, <3>1, ChosenAgrees
    <2>7. \A j \in 1..c : j \in 1..i /\ j \in 1..K
        <3> HIDE DEF K
        <3>1. QED
            BY <1>3, <2>2, <2>4
    <2>8. c <= i
        BY <1>3, <2>2, <2>4
    <2>9. \A j \in 1..c : new[j] = reign[t][j]
        BY <1>1, <2>6, <2>7
    <2>10. Committed(new, c, T)
        BY <2>2, <2>4, <2>8, <2>9 DEF Committed
    <2>11. CommittedAfter(new, c, T)
        <3> HIDE DEF new, T
        <3>1. c <= Len(new) /\ T \in Nat /\ T <= T
            BY <1>3, <2>2
        <3>2. QED
            BY <2>10, <3>1, CommittedStays
    <2>12. QED
        BY <1>1, <1>5, <2>1, <2>2, <2>11, CommitAdvances
<1>8. QED
    BY <1>6, <1>7

\* A leader's commit index, whether its log grew or not.
LEMMA LeaderCommits ==
    ASSUME CommitStep, MatchesAreHeld', NEW s \in Server, node'[s].role = "LEADER",
           Commits(s, node[s], node'[s]),
           node[s].commit <= Len(node'[s].log),
           \A j \in 1..node[s].commit : node'[s].log[j] = node[s].log[j]
    PROVE  CommitsAfter(node'[s])
<1> DEFINE n == node[s]
           k == node'[s]
<1>1. CASE k.commit = n.commit /\ k.applied = n.applied
    BY <1>1, CommitKeeps
<1>2. CASE /\ k.commit = QuorumMatchIndex(k, s)
           /\ k.commit \in n.commit + 1 .. Len(k.log)
           /\ k.log[k.commit].term = k.term
           /\ k.applied = Applying(n.applied, k.log, k.commit)
    <2>1. n.commit \in Nat /\ Len(k.log) \in Nat
        BY CommitBefore, CommitTypes
    <2>2. PICK c \in Nat : c = k.commit /\ c \in 1..Len(k.log) /\ n.commit <= c
        <3> DEFINE L == Len(k.log)
                   x == k.commit
        <3> HIDE DEF L, x
        <3>1. x \in n.commit + 1 .. L /\ L \in Nat
            BY <1>2, <2>1 DEF L, x
        <3>2. x \in Nat /\ x \in 1..L /\ n.commit <= x
            BY <2>1, <3>1
        <3>3. QED
            BY <3>2 DEF L, x
    <2>3. CommittedAfter(k.log, c, k.term)
        BY <1>2, <2>2, CountedIsChosen
    <2>4. QED
        BY <1>2, <2>2, <2>3, CommitAdvances
<1>3. QED
    BY <1>1, <1>2 DEF Commits

LEMMA CommitsAfterStep ==
    ASSUME CommitStep, MatchesAreHeld', NEW s \in Server
    PROVE  CommitsAfter(node'[s])
<1> DEFINE n == node[s]
           k == node'[s]
<1>1. n.commit \in Nat /\ n.commit <= Len(n.log)
    BY CommitBefore
<1>2. n.log \in Seq(Entry) /\ Len(n.log) \in Nat /\ k.term \in Nat
    BY CommitTypes
<1>3. CASE Idle(n, k)
    BY <1>1, <1>3, CommitKeeps DEF Idle
<1>4. ASSUME NEW e \in Entry, k.log = Append(n.log, e)
      PROVE  n.commit <= Len(k.log) /\ \A j \in 1..n.commit : k.log[j] = n.log[j]
    <2> DEFINE L == Len(n.log)
               c == n.commit
    <2>1. Len(k.log) = L + 1 /\ \A j \in 1..L : k.log[j] = n.log[j]
        BY <1>2, <1>4, AppendedLog
    <2>2. c \in Nat /\ L \in Nat /\ c <= L
        BY <1>1, <1>2
    <2> HIDE DEF L, c
    <2>3. c <= L + 1 /\ \A j \in 1..c : j \in 1..L
        BY <2>2
    <2>4. QED
        BY <2>1, <2>3 DEF c
<1>5. CASE Wins(s, n, k)
    <2>1. NoOpOf(k.term) \in Entry /\ k.log = Append(n.log, NoOpOf(k.term))
        BY <1>2, <1>5 DEF Wins, Inaugural, NoOpOf, Entry
    <2>2. k.commit = n.commit /\ k.applied = n.applied
        BY <1>5 DEF Wins, Inaugural
    <2>3. n.commit <= Len(k.log) /\ \A j \in 1..n.commit : k.log[j] = n.log[j]
        BY <1>4, <2>1
    <2>4. QED
        BY <2>2, <2>3, CommitKeeps
<1>6. CASE Proposes(s, n, k)
    <2>1. PICK v \in Value : k.log = Append(n.log, [term |-> k.term, value |-> v])
        BY <1>6 DEF Proposes
    <2> DEFINE e == [term |-> k.term, value |-> v]
    <2>2. e \in Entry
        BY <1>2 DEF Entry
    <2> HIDE DEF e
    <2>3. k.log = Append(n.log, e)
        BY <2>1 DEF e
    <2>4. n.commit <= Len(k.log) /\ \A j \in 1..n.commit : k.log[j] = n.log[j]
        BY <1>4, <2>2, <2>3
    <2>5. k.role = "LEADER" /\ Commits(s, n, k)
        BY <1>6 DEF Proposes, Leading
    <2>6. QED
        BY <2>4, <2>5, LeaderCommits
<1>7. CASE Learns(s, n, k)
    <2>1. k.role = "LEADER" /\ Commits(s, n, k) /\ k.log = n.log
        BY <1>7 DEF Learns, Leading
    <2>2. QED
        BY <1>1, <2>1, LeaderCommits
<1>8. CASE \E m \in rpcs : Accepts(s, n, k, m)
    BY <1>8, AcceptedCommits
<1>9. CASE Rests(n, k) \/ Polls(s, n, k) \/ Tallies(s, n, k)
    BY <1>3, <1>9 DEF Rests, Polls, Tallies
<1>10. Move(s, n, k)
    BY DEF CommitStep, Moves
<1>11. QED
    BY <1>5, <1>6, <1>7, <1>8, <1>9, <1>10 DEF Move

LEMMA CommitsAreChosenStep ==
    ASSUME CommitStep, MatchesAreHeld'
    PROVE  CommitsAreChosen'
<1>1. ASSUME NEW s \in Server
      PROVE  /\ Committed(node[s].log, node[s].commit, node[s].term)'
             /\ Len(node'[s].applied) = node'[s].commit
             /\ \A j \in 1..node'[s].commit : node'[s].applied[j] = node'[s].log[j]
    <2>1. CommitsAfter(node'[s])
        BY CommitsAfterStep
    <2>2. QED
        BY <2>1 DEF CommitsAfter, CommittedAfter, Committed
<1>2. ASSUME NEW m \in rpcs', m.type = "AppendEntries"
      PROVE  m.commit = 0 \/ ChosenUpTo(m.commit, m.term)'
    <2>1. CASE m \in rpcs
        <3>1. m.commit = 0 \/ ChosenUpTo(m.commit, m.term)
            BY <1>2, <2>1 DEF CommitStep, CommitsOnRecord, CommitsAreChosen
        <3>2. ASSUME NEW t \in 0..m.term, NEW i \in Nat, m.commit <= i, Chosen(t, i)
              PROVE  Chosen(t, i)'
            <4>1. t \in Nat
                OBVIOUS
            <4>2. QED
                BY <3>2, <4>1, ChosenGrows
        <3>3. QED
            BY <3>1, <3>2 DEF ChosenUpTo
    <2>2. CASE m \notin rpcs
        <3>1. PICK s \in Server : node'[s].role = "LEADER" /\ m \in AppendRequests(node'[s], s)
            BY <1>2, <2>2 DEF CommitStep, Moves, Sent
        <3>2. m.commit = node'[s].commit /\ m.term = node'[s].term
            BY <3>1 DEF AppendRequests, AppendRequest
        <3>3. CommittedAfter(node'[s].log, m.commit, m.term)
            BY <3>2, CommitsAfterStep DEF CommitsAfter
        <3>4. QED
            BY <3>3 DEF CommittedAfter, ChosenUpTo
    <2>3. QED
        BY <2>1, <2>2
<1>3. QED
    BY <1>1, <1>2 DEF CommitsAreChosen

-----------------------------------------------------------------------------
(* The invariant.                                                          *)

LEMMA CommitsOnRecordStep ==
    ASSUME CommitStep, BatchesCoverLog, AcksAreOfTheReign
    PROVE  CommitsOnRecord'
<1>1. TermsOfLogs' /\ ReignsEnd' /\ HeldIsOfReign' /\ LeadersHold' /\ HeldIsKept'
    BY TermsOfLogsStep, ReignsEndStep, HeldIsOfReignStep, LeadersHoldStep, HeldIsKeptStep
<1>2. VoteRequestsTell' /\ VotesBack' /\ ReignsAreBacked'
    BY VoteRequestsTellStep, VotesBackStep, ReignsAreBackedStep
<1>3. LogsAreShort' /\ MatchesAreHeld'
    BY LogsAreShortStep, MatchesAreHeldStep
<1>4. BatchesReachTheEnd' /\ AcksWereHeld' /\ CommitsAreChosen'
    BY <1>3, BatchesReachTheEndStep, AcksWereHeldStep, CommitsAreChosenStep
<1>5. QED
    BY <1>1, <1>2, <1>3, <1>4 DEF CommitsOnRecord

LEMMA HeldTypeStep ==
    ASSUME TypeOK', HeldType, Hold
    PROVE  HeldType'
<1>1. \A v \in Server : Len(node'[v].log) \in Nat
    BY LenProperties DEF TypeOK, NodeType
<1>2. \A v \in Server, t \in Nat : held[v][t] \in Nat
    BY DEF HeldType
<1>3. QED
    BY <1>1, <1>2 DEF HeldType, Hold

LEMMA CommitInitially ==
    ASSUME CommitInit, BatchesCoverLog
    PROVE  HeldType /\ CommitsOnRecord
<1>1. \A s \in Server : /\ node[s].role = "FOLLOWER" /\ node[s].term = 0
                        /\ node[s].log = <<>> /\ node[s].commit = 0 /\ node[s].applied = <<>>
    BY DEF CommitInit, HistoryInit, Init, Started, TimerStart, NewNode
<1>2. /\ rpcs = {} /\ \A t \in Nat : reign[t] = <<>>
      /\ held = [v \in Server |-> [t \in Nat |-> 0]]
    BY DEF CommitInit, HistoryInit, Init
<1>3. HeldType /\ \A v \in Server, t \in Nat : held[v][t] = 0
    BY <1>2 DEF HeldType
<1>4. Len(<<>>) = 0 /\ LastLogTerm(<<>>) = 0 /\ 1..0 = {}
    <2>1. PICK e \in Seq(Entry) : e = <<>>
        BY EmptySeq
    <2>2. Len(e) = 0 /\ LastLogTerm(e) = 0
        BY <2>1, LastOfLog
    <2>3. 1..0 = {}
        OBVIOUS
    <2>4. QED
        BY <2>1, <2>2, <2>3
<1>5. TermsOfLogs
    BY <1>1, <1>2, <1>4 DEF TermsOfLogs
<1>6. ReignsEnd /\ LeadersHold /\ ReignsAreBacked
    BY <1>1, <1>2 DEF ReignsEnd, LeadersHold, ReignsAreBacked, IsLeader
<1>7. HeldIsOfReign
    BY <1>1, <1>3, <1>4 DEF HeldIsOfReign
<1>8. HeldIsKept
    BY <1>3, <1>4 DEF HeldIsKept, Held
<1>9. VoteRequestsTell /\ BatchesReachTheEnd /\ AcksWereHeld
    BY <1>2 DEF VoteRequestsTell, BatchesReachTheEnd, AcksWereHeld
<1>10. VotesBack /\ MatchesAreHeld
    BY <1>1, <1>2 DEF VotesBack, MayLead, MatchesAreHeld, IsLeader
<1>11. CommitsAreChosen
    BY <1>1, <1>2, <1>4 DEF CommitsAreChosen, Committed
<1>12. LogsAreShort
    BY <1>1, <1>2, <1>4 DEF LogsAreShort, BatchesCoverLog
<1>13. QED
    BY <1>3, <1>5, <1>6, <1>7, <1>8, <1>9, <1>10, <1>11, <1>12 DEF CommitsOnRecord

\* The memory of what was held restricts nothing.
THEOREM CommitIsHistory == CommitSpec => HistorySpec
<1>1. CommitInit => HistoryInit
    BY DEF CommitInit
<1>2. [CommitNext]_commitVars => [Next /\ Remember]_<<vars, historyVars>>
    BY DEF CommitNext, commitVars
<1>3. QED
    BY <1>1, <1>2, PTL DEF CommitSpec, HistorySpec

LEMMA CommitStutters ==
    ASSUME CommitsOnRecord, HeldType, UNCHANGED commitVars
    PROVE  CommitsOnRecord' /\ HeldType'
<1> USE DEF commitVars, vars, historyVars
<1>1. HeldType'
    BY DEF HeldType
<1>2. TermsOfLogs' /\ ReignsEnd' /\ HeldIsOfReign'
    BY DEF CommitsOnRecord, TermsOfLogs, ReignsEnd, HeldIsOfReign, IsLeader
<1>3. LeadersHold'
    BY DEF CommitsOnRecord, LeadersHold, Elected, QuorumSize
<1>4. HeldIsKept'
    BY DEF CommitsOnRecord, HeldIsKept, Held, Lacks
<1>5. VoteRequestsTell'
    BY DEF CommitsOnRecord, VoteRequestsTell, MayLead
<1>6. VotesBack'
    BY DEF CommitsOnRecord, VotesBack, MayLead, IsGrant, Backs, Held, Lacks
<1>7. ReignsAreBacked'
    BY DEF CommitsOnRecord, ReignsAreBacked, Backers, Backs, Held, Lacks, QuorumSize
<1>8. BatchesReachTheEnd'
    BY DEF CommitsOnRecord, BatchesReachTheEnd
<1>9. AcksWereHeld'
    BY DEF CommitsOnRecord, AcksWereHeld, Elected, QuorumSize
<1>10. MatchesAreHeld'
    BY DEF CommitsOnRecord, MatchesAreHeld, IsLeader
<1>11. CommitsAreChosen'
    <2>1. \A t, i : Chosen(t, i)' <=> Chosen(t, i)
        BY DEF Chosen, Holders, QuorumSize
    <2>2. \A c, u : ChosenUpTo(c, u)' <=> ChosenUpTo(c, u)
        BY <2>1 DEF ChosenUpTo
    <2>3. \A log, c, u : Committed(log, c, u)' <=> Committed(log, c, u)
        BY <2>1 DEF Committed
    <2>4. QED
        BY <2>2, <2>3 DEF CommitsOnRecord, CommitsAreChosen
<1>12. LogsAreShort'
    BY DEF CommitsOnRecord, LogsAreShort
<1>13. QED
    BY <1>1, <1>2, <1>3, <1>4, <1>5, <1>6, <1>7, <1>8, <1>9, <1>10, <1>11, <1>12
       DEF CommitsOnRecord

\* The invariant behind what is applied, for clusters of any size whose
\* processes live, whose batches reach the end of a log, and where an answer
\* of an earlier leadership does not count or there are three servers at most.
THEOREM CommitsStayOnRecord ==
    ASSUME LogsSurvive, BatchesCoverLog, AcksAreOfTheReign
    PROVE  CommitSpec => [](HeldType /\ CommitsOnRecord)
<1>1. CommitInit => HeldType /\ CommitsOnRecord
    BY CommitInitially
<1>2. /\ Elections /\ Elections' /\ OneCountPerVote' /\ LogsOnRecord /\ LogsOnRecord'
      /\ HeldType /\ CommitsOnRecord /\ [CommitNext]_commitVars
      => HeldType' /\ CommitsOnRecord'
    <2>1. ASSUME Elections, Elections', OneCountPerVote', LogsOnRecord, LogsOnRecord',
                 HeldType, CommitsOnRecord, CommitNext
          PROVE  HeldType' /\ CommitsOnRecord'
        <3>1. Next /\ Remember /\ Hold /\ TypeOK /\ TypeOK'
            BY <2>1 DEF CommitNext, Elections
        <3>2. CommitStep
            BY <2>1, <3>1, NextMoves, NextReigns DEF CommitStep
        <3>3. QED
            BY <2>1, <3>1, <3>2, CommitsOnRecordStep, HeldTypeStep
    <2>2. QED
        BY <2>1, CommitStutters
<1>3. QED
    BY <1>1, <1>2, CommitIsHistory, HistoryIsRaft, VotesCountOnce, ElectionsOnRecord,
       LogsFollowLeaders, PTL DEF CommitSpec

-----------------------------------------------------------------------------
(* What the state machines apply.                                          *)

CommitsKnown == TypeOK /\ LogsOnRecord /\ HeldType /\ CommitsOnRecord

LEMMA PrefixOf ==
    ASSUME NEW a \in Seq(Entry), NEW b \in Seq(Entry), Len(a) <= Len(b),
           \A j \in 1..Len(a) : a[j] = b[j]
    PROVE  Prefix(a, b)
<1> DEFINE A == Len(a)
           x == SubSeq(b, 1, A)
<1>1. A \in Nat /\ Len(b) \in Nat /\ A <= Len(b)
    BY LenProperties
<1>2. \A i \in 1..A : b[i] \in Entry
    BY <1>1, ElementOfSeq
<1> HIDE DEF A
<1>3. /\ x \in Seq(Entry) /\ Len(x) = IF 1 <= A THEN A - 1 + 1 ELSE 0
      /\ \A i \in 1 .. A - 1 + 1 : x[i] = b[1 + i - 1]
    BY <1>1, <1>2, SubSeqProperties
<1> HIDE DEF x
<1>4. Len(x) = A /\ \A i \in 1..A : x[i] = b[i]
    <2>1. \A i \in 1..A : i \in 1 .. A - 1 + 1 /\ 1 + i - 1 = i
        BY <1>1
    <2>2. \A i \in 1..A : x[i] = b[i]
        BY <1>3, <2>1
    <2>3. Len(x) = A
        BY <1>1, <1>3
    <2>4. QED
        BY <2>2, <2>3
<1>5. x = a
    <2>1. Len(x) = Len(a) /\ \A i \in 1..Len(x) : x[i] = a[i]
        BY <1>4 DEF A
    <2>2. QED
        BY <1>3, <2>1, SeqEqual
<1>6. QED
    BY <1>1, <1>5 DEF Prefix, x, A

\* What a server applied was chosen, in its term or before.
LEMMA AppliedWasChosen ==
    ASSUME CommitsKnown, NEW s \in Server
    PROVE  LET a == node[s].applied
           IN  /\ a \in Seq(Entry) /\ Len(a) \in Nat /\ node[s].log \in Seq(Entry)
               /\ Len(a) <= Len(node[s].log) /\ \A j \in 1..Len(a) : a[j] = node[s].log[j]
               /\ Len(a) > 0 => \E t \in 0..node[s].term, i \in Nat :
                    Len(a) <= i /\ Chosen(t, i) /\ \A j \in 1..Len(a) : a[j] = reign[t][j]
<1> DEFINE n == node[s]
           a == n.applied
           c == n.commit
<1>1. /\ a \in Seq(Entry) /\ n.log \in Seq(Entry) /\ c \in Nat
      /\ Len(a) \in Nat /\ Len(n.log) \in Nat
    BY LenProperties DEF CommitsKnown, TypeOK, NodeType
<1>2. Len(a) = c /\ Committed(n.log, c, n.term) /\ \A j \in 1..c : a[j] = n.log[j]
    BY DEF CommitsKnown, CommitsOnRecord, CommitsAreChosen
<1>3. Len(a) <= Len(n.log) /\ \A j \in 1..Len(a) : a[j] = n.log[j]
    BY <1>1, <1>2 DEF Committed
<1>4. ASSUME c # 0
      PROVE  \E t \in 0..n.term, i \in Nat :
                c <= i /\ Chosen(t, i) /\ \A j \in 1..c : a[j] = reign[t][j]
    BY <1>2, <1>4 DEF Committed
<1>5. QED
    BY <1>1, <1>2, <1>3, <1>4

\* A leader has what is chosen in its term or before.
LEMMA LeaderHasChosen ==
    ASSUME CommitsKnown, NEW t \in Nat, NEW u \in Nat, t <= u, NEW i \in Nat,
           Chosen(t, i), reign[u] # <<>>
    PROVE  Has(reign[u], t, i) /\ \A j \in 1..i : reign[u][j] = reign[t][j]
<1>1. HeldType /\ ReignsAreBacked /\ ReignsFollow
    BY DEF CommitsKnown, CommitsOnRecord, LogsOnRecord
<1>2. QED
    BY <1>1, ChosenAgrees

LEMMA ChosenBegan ==
    ASSUME NEW t, NEW i, reign[t] \in Seq(Entry), Chosen(t, i)
    PROVE  reign[t] # <<>>
<1>1. Len(reign[t]) \in Nat /\ i \in 1..Len(reign[t])
    BY LenProperties DEF Chosen, Has
<1>2. Len(reign[t]) # 0
    BY <1>1
<1>3. QED
    BY <1>2, EmptySeq

LEMMA ReignType ==
    ASSUME CommitsKnown, HistoryType
    PROVE  \A t \in Nat : reign[t] \in Seq(Entry)
BY DEF HistoryType

\* Two servers applied the same at every index both reached.
LEMMA AppliedAgree ==
    ASSUME CommitsKnown, HistoryType, NEW s \in Server, NEW r \in Server
    PROVE  \A j \in Nat \ {0} :
                j <= Len(node[s].applied) /\ j <= Len(node[r].applied)
                    => node[s].applied[j] = node[r].applied[j]
<1> SUFFICES ASSUME NEW j \in Nat \ {0},
                    j <= Len(node[s].applied), j <= Len(node[r].applied)
             PROVE  node[s].applied[j] = node[r].applied[j]
    OBVIOUS
<1>1. ASSUME NEW p \in Server, j <= Len(node[p].applied)
      PROVE  \E t \in Nat, i \in Nat :
                j <= i /\ Chosen(t, i) /\ node[p].applied[j] = reign[t][j]
    <2> DEFINE a == node[p].applied
               L == Len(a)
    <2>1. /\ L \in Nat
          /\ L > 0 => \E t \in 0..node[p].term, i \in Nat :
                L <= i /\ Chosen(t, i) /\ \A x \in 1..L : a[x] = reign[t][x]
        BY AppliedWasChosen
    <2>2. j \in 1..L /\ L > 0
        <3>1. j <= L
            BY <1>1
        <3> HIDE DEF L
        <3>2. QED
            BY <2>1, <3>1
    <2>3. PICK t \in 0..node[p].term, i \in Nat :
                L <= i /\ Chosen(t, i) /\ \A x \in 1..L : a[x] = reign[t][x]
        BY <2>1, <2>2
    <2>4. j <= i
        <3> HIDE DEF L
        <3>1. QED
            BY <2>1, <2>2, <2>3
    <2>5. t \in Nat
        OBVIOUS
    <2>6. QED
        BY <2>2, <2>3, <2>4, <2>5
<1>2. PICK t \in Nat, i \in Nat :
            j <= i /\ Chosen(t, i) /\ node[s].applied[j] = reign[t][j]
    BY <1>1
<1>3. PICK u \in Nat, k \in Nat :
            j <= k /\ Chosen(u, k) /\ node[r].applied[j] = reign[u][j]
    BY <1>1
<1>4. j \in 1..i /\ j \in 1..k
    BY <1>2, <1>3
<1>5. reign[t] # <<>> /\ reign[u] # <<>>
    BY <1>2, <1>3, ChosenBegan, ReignType
<1>6. CASE t <= u
    <2>1. \A x \in 1..i : reign[u][x] = reign[t][x]
        BY <1>2, <1>5, <1>6, LeaderHasChosen
    <2>2. QED
        BY <1>2, <1>3, <1>4, <2>1
<1>7. CASE u <= t
    <2>1. \A x \in 1..k : reign[t][x] = reign[u][x]
        BY <1>3, <1>5, <1>7, LeaderHasChosen
    <2>2. QED
        BY <1>2, <1>3, <1>4, <2>1
<1>8. QED
    BY <1>6, <1>7

LEMMA SafetyFollows ==
    ASSUME CommitsKnown, HistoryType
    PROVE  StateMachineSafety
<1> SUFFICES ASSUME NEW s \in Server, NEW r \in Server
             PROVE  \/ Prefix(node[s].applied, node[r].applied)
                    \/ Prefix(node[r].applied, node[s].applied)
    BY DEF StateMachineSafety
<1> DEFINE a == node[s].applied
           b == node[r].applied
           A == Len(a)
           B == Len(b)
<1>1. a \in Seq(Entry) /\ b \in Seq(Entry) /\ A \in Nat /\ B \in Nat
    BY AppliedWasChosen
<1>2. \A j \in Nat \ {0} : j <= A /\ j <= B => a[j] = b[j]
    BY AppliedAgree
<1> HIDE DEF a, b
<1>3. CASE A <= B
    <2>1. \A j \in 1..A : a[j] = b[j]
        <3> HIDE DEF A, B
        <3>1. QED
            BY <1>1, <1>2, <1>3
    <2>2. Prefix(a, b)
        BY <1>1, <1>3, <2>1, PrefixOf
    <2>3. QED
        BY <2>2 DEF a, b
<1>4. CASE B <= A
    <2>1. \A j \in 1..B : b[j] = a[j]
        <3> HIDE DEF A, B
        <3>1. QED
            BY <1>1, <1>2, <1>4
    <2>2. Prefix(b, a)
        BY <1>1, <1>4, <2>1, PrefixOf
    <2>3. QED
        BY <2>2 DEF a, b
<1>5. A <= B \/ B <= A
    <2> HIDE DEF A, B
    <2>1. QED
        BY <1>1
<1>6. QED
    BY <1>3, <1>4, <1>5

LEMMA AppliedStaysFollows ==
    ASSUME CommitsKnown
    PROVE  AppliedStaysInLog
<1>1. ASSUME NEW s \in Server
      PROVE  Prefix(node[s].applied, node[s].log)
    BY AppliedWasChosen, PrefixOf
<1>2. QED
    BY <1>1 DEF AppliedStaysInLog

\* A log that has a chosen entry begins with all that was applied up to it.
LEMMA HasApplied ==
    ASSUME NEW log \in Seq(Entry), NEW a \in Seq(Entry), NEW t, NEW i \in Nat,
           Len(a) <= i, \A j \in 1..Len(a) : a[j] = reign[t][j],
           i \in 1..Len(log), \A j \in 1..i : log[j] = reign[t][j]
    PROVE  Prefix(a, log)
<1> DEFINE A == Len(a)
           L == Len(log)
<1>1. A \in Nat /\ L \in Nat
    BY LenProperties
<1>2. A <= L /\ \A j \in 1..A : j \in 1..i
    <2>1. A <= i /\ i \in 1..L
        OBVIOUS
    <2> HIDE DEF A, L
    <2>2. QED
        BY <1>1, <2>1
<1>3. \A j \in 1..A : a[j] = log[j]
    BY <1>2
<1>4. QED
    BY <1>2, <1>3, PrefixOf

LEMMA CompletenessFollows ==
    ASSUME CommitsKnown, HistoryType
    PROVE  LeaderCompleteness
<1> SUFFICES ASSUME NEW s \in Server, NEW r \in Server,
                    IsLeader(s), node[r].term <= node[s].term
             PROVE  Prefix(node[r].applied, node[s].log)
    BY DEF LeaderCompleteness
<1> DEFINE a   == node[r].applied
           T   == node[s].term
           log == node[s].log
<1>1. reign[T] = log /\ log # <<>>
    BY DEF CommitsKnown, LogsOnRecord, LeadersReign, CommitsOnRecord, ReignsEnd
<1>2. T \in Nat /\ node[r].term \in Nat /\ log \in Seq(Entry) /\ Len(log) \in Nat
    BY LenProperties DEF CommitsKnown, TypeOK, NodeType
<1>3. /\ a \in Seq(Entry) /\ Len(a) \in Nat
      /\ Len(a) > 0 => \E t \in 0..node[r].term, i \in Nat :
            Len(a) <= i /\ Chosen(t, i) /\ \A j \in 1..Len(a) : a[j] = reign[t][j]
    BY AppliedWasChosen
<1>4. CASE Len(a) = 0
    <2>1. 1..Len(a) = {}
        BY <1>4
    <2>2. Len(a) <= Len(log)
        BY <1>2, <1>4
    <2>3. QED
        BY <1>2, <1>3, <2>1, <2>2, PrefixOf
<1>5. CASE Len(a) > 0
    <2>1. PICK t \in 0..node[r].term, i \in Nat :
            Len(a) <= i /\ Chosen(t, i) /\ \A j \in 1..Len(a) : a[j] = reign[t][j]
        BY <1>3, <1>5
    <2>2. t \in Nat /\ t <= T
        BY <1>2
    <2>3. Has(log, t, i) /\ \A j \in 1..i : log[j] = reign[t][j]
        BY <1>1, <1>2, <2>1, <2>2, LeaderHasChosen
    <2>4. i \in 1..Len(log)
        BY <2>3 DEF Has
    <2> HIDE DEF a, log
    <2>5. Prefix(a, log)
        BY <1>2, <1>3, <2>1, <2>3, <2>4, HasApplied
    <2>6. QED
        BY <2>5 DEF a, log
<1>6. Len(a) = 0 \/ Len(a) > 0
    BY <1>3
<1> HIDE DEF a, T, log
<1>7. QED
    BY <1>4, <1>5, <1>6

\* Who held a chosen entry has it: nobody after could lead without it.
LEMMA HoldersHave ==
    ASSUME CommitsKnown, NEW v \in Server, NEW t \in Nat, NEW i \in Nat,
           Chosen(t, i), v \in Holders(t, i)
    PROVE  /\ i \in 1..Len(node[v].log)
           /\ \A j \in 1..i : node[v].log[j] = reign[t][j]
<1>1. Held(v, t, i)
    <2>1. held[v][t] >= i /\ held[v][t] \in Nat
        BY DEF Holders, CommitsKnown, HeldType
    <2>2. Has(reign[t], t, i) /\ i > 0
        BY DEF Chosen, Has
    <2>3. i \in 1..held[v][t]
        BY <2>1, <2>2
    <2>4. QED
        BY <2>2, <2>3 DEF Held
<1>2. \/ Has(node[v].log, t, i)
      \/ \E w \in t + 1 .. node[v].term : Lacks(w, t, i)
    BY <1>1 DEF CommitsKnown, CommitsOnRecord, HeldIsKept
<1>3. ASSUME NEW w \in t + 1 .. node[v].term, Lacks(w, t, i)
      PROVE  FALSE
    <2>1. w \in Nat /\ t <= w
        OBVIOUS
    <2>2. Has(reign[w], t, i)
        BY <1>3, <2>1, LeaderHasChosen DEF Lacks
    <2>3. QED
        BY <1>3, <2>2 DEF Lacks
<1>4. Has(node[v].log, t, i)
    BY <1>2, <1>3
<1>5. Follows(node[v].log, reign)
    BY DEF CommitsKnown, LogsOnRecord, LogsFollow
<1>6. QED
    BY <1>4, <1>5, HasFollows DEF Has

LEMMA QuorumFollows ==
    ASSUME CommitsKnown
    PROVE  AppliedOnQuorum
<1> SUFFICES ASSUME NEW s \in Server
             PROVE  Cardinality({r \in Server : Prefix(node[s].applied, node[r].log)}) >= QuorumSize
    BY DEF AppliedOnQuorum
<1> DEFINE a == node[s].applied
           H == {r \in Server : Prefix(a, node[r].log)}
<1>1. IsFiniteSet(H) /\ Cardinality(H) \in Nat
    BY FS_Subset, FS_CardinalityType, ServerAssumption
<1>2. /\ a \in Seq(Entry) /\ Len(a) \in Nat
      /\ Len(a) > 0 => \E t \in 0..node[s].term, i \in Nat :
            Len(a) <= i /\ Chosen(t, i) /\ \A j \in 1..Len(a) : a[j] = reign[t][j]
    BY AppliedWasChosen
<1>3. \A r \in Server : node[r].log \in Seq(Entry) /\ Len(node[r].log) \in Nat
    BY LenProperties DEF CommitsKnown, TypeOK, NodeType
<1>4. CASE Len(a) = 0
    <2>1. 1..Len(a) = {}
        BY <1>4
    <2>2. \A r \in Server : Len(a) <= Len(node[r].log)
        BY <1>3, <1>4
    <2>3. \A r \in Server : Prefix(a, node[r].log)
        BY <1>2, <1>3, <2>1, <2>2, PrefixOf
    <2>4. H = Server
        BY <2>3
    <2>5. Cardinality(Server) >= QuorumSize
        <3>1. Cardinality(Server) \in Nat /\ Cardinality(Server) # 0
            BY FS_CardinalityType, FS_EmptySet, ServerAssumption
        <3>2. QED
            BY <3>1 DEF QuorumSize
    <2>6. QED
        BY <2>4, <2>5
<1>5. CASE Len(a) > 0
    <2>1. PICK t \in 0..node[s].term, i \in Nat :
            Len(a) <= i /\ Chosen(t, i) /\ \A j \in 1..Len(a) : a[j] = reign[t][j]
        BY <1>2, <1>5
    <2>2. t \in Nat
        OBVIOUS
    <2>3. ASSUME NEW v \in Holders(t, i)
          PROVE  v \in H
        <3>1. v \in Server
            BY DEF Holders
        <3>2. i \in 1..Len(node[v].log) /\ \A j \in 1..i : node[v].log[j] = reign[t][j]
            BY <2>1, <2>2, <3>1, HoldersHave
        <3>3. Prefix(a, node[v].log)
            <4> DEFINE log == node[v].log
            <4>1. log \in Seq(Entry)
                BY <1>3, <3>1
            <4>2. i \in 1..Len(log) /\ \A j \in 1..i : log[j] = reign[t][j]
                BY <3>2
            <4>3. a \in Seq(Entry) /\ Len(a) <= i /\ \A j \in 1..Len(a) : a[j] = reign[t][j]
                BY <1>2, <2>1
            <4> HIDE DEF a, log
            <4>4. Prefix(a, log)
                BY <4>1, <4>2, <4>3, HasApplied
            <4>5. QED
                BY <4>4 DEF log
        <3>4. QED
            BY <3>1, <3>3
    <2>4. Cardinality(Holders(t, i)) >= QuorumSize
        BY <2>1 DEF Chosen
    <2>5. Holders(t, i) \subseteq H
        BY <2>3
    <2> HIDE DEF H
    <2>6. Cardinality(Holders(t, i)) <= Cardinality(H) /\ Cardinality(Holders(t, i)) \in Nat
        BY <1>1, <2>5, FS_Subset, FS_CardinalityType
    <2>7. Cardinality(H) >= QuorumSize
        BY <1>1, <2>4, <2>6, QuorumSizeType
    <2>8. QED
        BY <2>7 DEF H
<1>6. QED
    BY <1>2, <1>4, <1>5

LEMMA CommitsAreKnown ==
    ASSUME LogsSurvive, BatchesCoverLog, AcksAreOfTheReign
    PROVE  CommitSpec => [](CommitsKnown /\ HistoryType)
<1>1. TypeOK /\ LogsOnRecord /\ HeldType /\ CommitsOnRecord /\ Elections /\ VotesOnRecord
        => CommitsKnown /\ HistoryType
    BY DEF CommitsKnown, VotesOnRecord
<1>2. QED
    BY <1>1, CommitIsHistory, HistoryIsRaft, TypeCorrect, ElectionsOnRecord,
       LogsFollowLeaders, CommitsStayOnRecord, PTL

\* Two state machines never apply different entries at one index.
THEOREM MachinesAgree ==
    ASSUME LogsSurvive, BatchesCoverLog, AcksAreOfTheReign
    PROVE  CommitSpec => []StateMachineSafety
BY SafetyFollows, CommitsAreKnown, PTL

\* What a server applied is never cut from its log.
THEOREM AppliedIsKept ==
    ASSUME LogsSurvive, BatchesCoverLog, AcksAreOfTheReign
    PROVE  CommitSpec => []AppliedStaysInLog
BY AppliedStaysFollows, CommitsAreKnown, PTL

\* A leader has all that was applied in its term or before.
THEOREM LeadersAreComplete ==
    ASSUME LogsSurvive, BatchesCoverLog, AcksAreOfTheReign
    PROVE  CommitSpec => []LeaderCompleteness
BY CompletenessFollows, CommitsAreKnown, PTL

\* A quorum stores what any server applied.
THEOREM AppliedIsStored ==
    ASSUME LogsSurvive, BatchesCoverLog, AcksAreOfTheReign
    PROVE  CommitSpec => []AppliedOnQuorum
BY QuorumFollows, CommitsAreKnown, PTL
=============================================================================
