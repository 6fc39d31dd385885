----------------------------- MODULE RaftProofs -----------------------------
(***************************************************************************)
(* Theorems about Raft, for every cluster, batch size and bound, with lost *)
(* and late RPCs, stops, and process deaths that lose a log: types, one    *)
(* vote per term, at most one leader per term, and logs that match.        *)
(*                                                                         *)
(* The argument about logs is about the log each leader has, which         *)
(* RaftHistory keeps: every log is, up to an entry of some term, that of   *)
(* the leader of the term.  Followers are compared with no other follower. *)
(***************************************************************************)
EXTENDS RaftHistory, FiniteSetTheorems, SequenceTheorems,
        WellFoundedInduction, NaturalsInduction, TLAPS

-----------------------------------------------------------------------------
(* Numbers and sequences.                                                  *)

LEMMA MaxOfTwo ==
    ASSUME NEW a \in Int, NEW b \in Int
    PROVE  Max({a, b}) = IF a >= b THEN a ELSE b
BY DEF Max

LEMMA MinOfTwo ==
    ASSUME NEW a \in Int, NEW b \in Int
    PROVE  Min({a, b}) = IF a <= b THEN a ELSE b
BY DEF Min

\* A set of natural numbers that is not empty has a least element.
LEMMA MinOfNaturals ==
    ASSUME NEW T \in SUBSET Nat, T # {}
    PROVE  Min(T) \in T /\ \A y \in T : Min(T) <= y
<1>1. PICK x \in T : \A y \in T : <<y, x>> \notin OpToRel(<, Nat)
    BY NatLessThanWellFounded, WFMin
<1>2. OpToRel(<, Nat) = {ss \in Nat \X Nat : ss[1] < ss[2]}
    BY Zenon DEF OpToRel
<1>3. \A y \in T : x <= y
    <2>1. SUFFICES ASSUME NEW y \in T, y < x PROVE FALSE
        OBVIOUS
    <2>2. <<y, x>> \in Nat \X Nat
        OBVIOUS
    <2>3. QED
        BY <1>1, <1>2, <2>1, <2>2
<1>4. QED
    BY <1>3 DEF Min

LEMMA SubSeqType ==
    ASSUME NEW S, NEW q \in Seq(S), NEW a \in Nat \ {0}, NEW b \in Int, b <= Len(q)
    PROVE  SubSeq(q, a, b) \in Seq(S)
<1>1. \A i \in a..b : q[i] \in S
    BY ElementOfSeq, LenProperties
<1>2. QED
    BY <1>1, SubSeqProperties

LEMMA GetTermType ==
    ASSUME NEW log \in Seq(Entry), NEW i \in Int
    PROVE  GetTerm(log, i) \in Nat
<1>1. CASE i \in 1..Len(log)
    <2>1. log[i] \in Entry
        BY <1>1, ElementOfSeq
    <2>2. QED
        BY <1>1, <2>1 DEF GetTerm, Entry
<1>2. CASE i \notin 1..Len(log)
    BY <1>2 DEF GetTerm
<1>3. QED
    BY <1>1, <1>2

LEMMA GetEntriesFromType ==
    ASSUME NEW log \in Seq(Entry), NEW i \in Nat \ {0}
    PROVE  GetEntriesFrom(log, i) \in Seq(Entry)
<1> DEFINE b == Min({Len(log), i + MaxEntriesPerRpc - 1})
<1>1. b \in Int /\ b <= Len(log)
    BY MinOfTwo, LenProperties, BatchAssumption
<1>2. QED
    BY <1>1, SubSeqType DEF GetEntriesFrom

LEMMA TruncateType ==
    ASSUME NEW log \in Seq(Entry), NEW i \in Nat
    PROVE  Truncate(log, i) \in Seq(Entry)
<1> DEFINE b == Min({i - 1, Len(log)})
<1>1. b \in Int /\ b <= Len(log)
    BY MinOfTwo, LenProperties
<1>2. Truncate(log, i) = SubSeq(log, 1, b)
    BY DEF Truncate
<1> HIDE DEF b
<1>3. QED
    BY <1>1, <1>2, SubSeqType

LEMMA MergeEntriesType ==
    ASSUME NEW log \in Seq(Entry), NEW prev \in Nat, NEW entries \in Seq(Entry)
    PROVE  MergeEntries(log, prev, entries) \in Seq(Entry)
<1> DEFINE Agrees(k) == prev + k <= Len(log) /\ log[prev + k].term = entries[k].term
           fresh == {k \in 1..Len(entries) : ~Agrees(k)}
           first == Min(fresh)
<1>1. CASE fresh = {}
    BY <1>1 DEF MergeEntries
<1>2. CASE fresh # {}
    <2>1. first \in 1..Len(entries)
        <3>1. fresh \in SUBSET (1..Len(entries)) /\ fresh \in SUBSET Nat
            BY LenProperties
        <3>2. first \in fresh
            <4> HIDE DEF fresh
            <4>1. QED
                BY <1>2, <3>1, MinOfNaturals
        <3>3. QED
            BY <3>1, <3>2
    <2> HIDE DEF first, fresh
    <2>3. Truncate(log, prev + first) \in Seq(Entry)
        BY <2>1, LenProperties, TruncateType
    <2>4. SubSeq(entries, first, Len(entries)) \in Seq(Entry)
        BY <2>1, SubSeqType, LenProperties
    <2>5. MergeEntries(log, prev, entries)
            = Truncate(log, prev + first) \o SubSeq(entries, first, Len(entries))
        BY <1>2 DEF MergeEntries, first, fresh
    <2>6. QED
        BY <2>3, <2>4, <2>5, ConcatProperties
<1>3. QED
    BY <1>1, <1>2

-----------------------------------------------------------------------------
(* The steps of the node keep the type of its object and change only the   *)
(* fields they name.                                                       *)

\* What an election looks at.
SameBallot(n, k) ==
    /\ k.role = n.role
    /\ k.term = n.term
    /\ k.votedFor = n.votedFor
    /\ k.votes = n.votes

LEMMA NewNodeType ==
    ASSUME NEW t \in Nat, NEW v \in Server \cup {Nobody}, NEW i \in Nat
    PROVE  /\ NewNode(t, v, i) \in NodeType
           /\ NewNode(t, v, i).role = "FOLLOWER"
           /\ NewNode(t, v, i).term = t
           /\ NewNode(t, v, i).votedFor = v
<1>1. <<>> \in Seq(Entry) /\ <<>> \in Seq(Round)
    BY EmptySeq
<1>2. QED
    BY <1>1 DEF NewNode, NodeType, Roles, Timers

LEMMA TimersType ==
    ASSUME NEW n \in NodeType
    PROVE  /\ TimerStart(n) \in NodeType /\ SameBallot(n, TimerStart(n))
           /\ TimerReset(n) \in NodeType /\ SameBallot(n, TimerReset(n))
           /\ TimerStop(n) \in NodeType /\ SameBallot(n, TimerStop(n))
           /\ TimerReset(n).log = n.log /\ TimerReset(n).commit = n.commit
BY DEF NodeType, TimerStart, TimerReset, TimerStop, SameBallot, Timers

LEMMA StartedType ==
    ASSUME NEW n \in NodeType
    PROVE  /\ Started(n) \in NodeType
           /\ Started(n).role = "FOLLOWER"
           /\ Started(n).term = n.term
           /\ Started(n).votedFor = n.votedFor
BY DEF NodeType, Started, TimerStart, Timers, Roles

LEMMA StepDownType ==
    ASSUME NEW n \in NodeType, NEW t \in Nat, NEW l \in Server \cup {Nobody}
    PROVE  /\ StepDown(n, t, l) \in NodeType
           /\ StepDown(n, t, l).role = "FOLLOWER"
           /\ StepDown(n, t, l).term = t
           /\ StepDown(n, t, l).votedFor = Nobody
BY DEF NodeType, StepDown, TimerStart, Timers, Roles

LEMMA SetProgress ==
    ASSUME NEW n \in NodeType,
           NEW nx \in [Server -> Nat \ {0}], NEW mt \in [Server -> Nat],
           NEW k, k = [n EXCEPT !.next = nx, !.match = mt]
    PROVE  k \in NodeType /\ SameBallot(n, k) /\ k.log = n.log
BY DEF NodeType, SameBallot

LEMMA ProgressType ==
    ASSUME NEW n \in NodeType, NEW p \in Server, NEW i \in Nat
    PROVE  /\ InitLeaderProgress(n) \in NodeType /\ SameBallot(n, InitLeaderProgress(n))
           /\ InitLeaderProgress(n).log = n.log
           /\ UpdateProgress(n, p, i) \in NodeType /\ SameBallot(n, UpdateProgress(n, p, i))
           /\ BackOff(n, p, i) \in NodeType /\ SameBallot(n, BackOff(n, p, i))
<1>1. /\ Len(n.log) \in Nat /\ n.match[p] \in Nat /\ n.next[p] \in Nat \ {0}
      /\ n.next \in [Server -> Nat \ {0}] /\ n.match \in [Server -> Nat]
    BY LenProperties DEF NodeType
<1>2. InitLeaderProgress(n) \in NodeType /\ SameBallot(n, InitLeaderProgress(n))
      /\ InitLeaderProgress(n).log = n.log
    <2> DEFINE nx == [q \in Server |-> Len(n.log) + 1]
               mt == [q \in Server |-> 0]
    <2>1. nx \in [Server -> Nat \ {0}] /\ mt \in [Server -> Nat]
        BY <1>1
    <2>2. InitLeaderProgress(n) = [n EXCEPT !.next = nx, !.match = mt]
        BY DEF InitLeaderProgress
    <2> HIDE DEF nx, mt
    <2>3. InitLeaderProgress(n) \in NodeType /\ SameBallot(n, InitLeaderProgress(n))
        BY <2>1, <2>2, SetProgress
    <2>4. QED
        BY <2>2, <2>3 DEF NodeType
<1>3. UpdateProgress(n, p, i) \in NodeType /\ SameBallot(n, UpdateProgress(n, p, i))
    <2> DEFINE m  == Max({n.match[p], i})
               nx == [n.next EXCEPT ![p] = m + 1]
               mt == [n.match EXCEPT ![p] = m]
    <2>1. m \in Nat
        BY <1>1, MaxOfTwo
    <2>2. nx \in [Server -> Nat \ {0}] /\ mt \in [Server -> Nat]
        <3> HIDE DEF m
        <3>1. QED
            BY <1>1, <2>1
    <2>3. UpdateProgress(n, p, i) = [n EXCEPT !.next = nx, !.match = mt]
        BY DEF UpdateProgress, NodeType
    <2> HIDE DEF nx, mt
    <2>4. QED
        BY <2>2, <2>3, SetProgress
<1>4. BackOff(n, p, i) \in NodeType /\ SameBallot(n, BackOff(n, p, i))
    <2> DEFINE lower == Max({1, n.next[p] - 1})
               lowest == IF i > 0 THEN Min({lower, i}) ELSE lower
               nx == [n.next EXCEPT ![p] = lowest]
               mt == n.match
    <2>1. lower \in Nat \ {0}
        BY <1>1, MaxOfTwo
    <2>2. lowest \in Nat \ {0}
        <3> HIDE DEF lower
        <3>1. QED
            BY <2>1, MinOfTwo
    <2>3. nx \in [Server -> Nat \ {0}]
        <3> HIDE DEF lowest
        <3>1. QED
            BY <1>1, <2>2
    <2>4. mt \in [Server -> Nat]
        BY <1>1
    <2>5. BackOff(n, p, i) = [n EXCEPT !.next = nx, !.match = mt]
        BY DEF BackOff, NodeType
    <2> HIDE DEF nx, mt
    <2>6. QED
        BY <2>3, <2>4, <2>5, SetProgress
<1>5. QED
    BY <1>2, <1>3, <1>4

\* The commit index of an object that applies entries lies within its log.
LEMMA ApplyEntriesType ==
    ASSUME NEW n \in NodeType, n.commit <= Len(n.log)
    PROVE  ApplyEntries(n) \in NodeType /\ SameBallot(n, ApplyEntries(n))
<1> DEFINE done  == {i \in 1..n.commit : i > Len(n.applied)}
           fresh == SubSeq(n.log, Len(n.applied) + 1, n.commit)
           over  == {p \in n.pending : p.index \in done}
           told  == {[proposed |-> p, got |-> n.log[p.index]] : p \in over}
<1>1. n.log \in Seq(Entry) /\ n.applied \in Seq(Entry) /\ n.commit \in Nat
      /\ n.pending \in SUBSET Proposal
    BY DEF NodeType
<1>2. n.applied \o fresh \in Seq(Entry)
    <2>1. Len(n.applied) + 1 \in Nat \ {0}
        BY <1>1, LenProperties
    <2>2. fresh \in Seq(Entry)
        BY <1>1, <2>1, SubSeqType
    <2>3. QED
        BY <1>1, <2>2, ConcatProperties
<1>3. told \in SUBSET Settled
    <2>1. ASSUME NEW p \in over
          PROVE  [proposed |-> p, got |-> n.log[p.index]] \in Settled
        <3>1. p \in Proposal /\ p.index \in 1..Len(n.log)
            BY <1>1, LenProperties
        <3>2. n.log[p.index] \in Entry
            BY <1>1, <3>1, ElementOfSeq
        <3>3. QED
            BY <3>1, <3>2 DEF Settled
    <2>2. QED
        BY <2>1
<1>4. ApplyEntries(n) = [n EXCEPT !.applied = n.applied \o fresh,
                                  !.pending = n.pending \ over,
                                  !.resolved = n.resolved \cup told]
    BY DEF ApplyEntries
<1>5. QED
    BY <1>1, <1>2, <1>3, <1>4 DEF NodeType, SameBallot

LEMMA CheckCommitIndexType ==
    ASSUME NEW n \in NodeType, NEW s \in Server
    PROVE  CheckCommitIndex(n, s) \in NodeType /\ SameBallot(n, CheckCommitIndex(n, s))
<1> DEFINE i == QuorumMatchIndex(n, s)
           k == [n EXCEPT !.commit = i]
<1>1. CASE i \in n.commit + 1 .. Len(n.log) /\ n.log[i].term = n.term
    <2>1. k \in NodeType /\ k.commit <= Len(k.log) /\ SameBallot(n, k)
        <3> HIDE DEF i
        <3>1. i \in Nat /\ i <= Len(n.log)
            BY <1>1, LenProperties DEF NodeType
        <3>2. QED
            BY <3>1 DEF NodeType, SameBallot
    <2>2. CheckCommitIndex(n, s) = ApplyEntries(k)
        BY <1>1 DEF CheckCommitIndex
    <2> HIDE DEF k
    <2>3. QED
        BY <2>1, <2>2, ApplyEntriesType DEF SameBallot
<1>2. CASE ~(i \in n.commit + 1 .. Len(n.log) /\ n.log[i].term = n.term)
    BY <1>2 DEF CheckCommitIndex, SameBallot
<1>3. QED
    BY <1>1, <1>2

LEMMA BecomeLeaderType ==
    ASSUME NEW n \in NodeType, NEW s \in Server
    PROVE  /\ BecomeLeader(n, s) \in NodeType
           /\ BecomeLeader(n, s).role = "LEADER"
           /\ BecomeLeader(n, s).term = n.term
           /\ BecomeLeader(n, s).votedFor = n.votedFor
           /\ BecomeLeader(n, s).votes = n.votes
<1> DEFINE k   == TimerStop([n EXCEPT !.role = "LEADER", !.leader = s])
           led == InitLeaderProgress(k)
<1>1. /\ k \in NodeType /\ k.role = "LEADER" /\ k.term = n.term
      /\ k.votedFor = n.votedFor /\ k.votes = n.votes
    BY DEF TimerStop, NodeType, Roles, Timers
<1>2. led \in NodeType /\ SameBallot(k, led)
    <2> HIDE DEF k
    <2>1. QED
        BY <1>1, ProgressType
<1>3. [term |-> n.term, value |-> NoOp] \in Entry
    BY DEF NodeType, Entry
<1>4. Append(led.log, [term |-> n.term, value |-> NoOp]) \in Seq(Entry)
    <2> HIDE DEF led
    <2>1. QED
        BY <1>2, <1>3, AppendProperties DEF NodeType
<1>5. BecomeLeader(n, s)
        = [led EXCEPT !.log = Append(led.log, [term |-> n.term, value |-> NoOp])]
    BY DEF BecomeLeader
<1> HIDE DEF led, k
<1>6. QED
    BY <1>1, <1>2, <1>4, <1>5 DEF NodeType, SameBallot

LEMMA QuorumSizeType == QuorumSize \in Nat /\ 2 * QuorumSize > Cardinality(Server)
BY ServerAssumption, FS_CardinalityType DEF QuorumSize

\* What a node is after it stood for election in a new term.
Stood(s, n, k) ==
    /\ k.term = n.term + 1
    /\ k.votedFor = s
    /\ k.votes = {s}
    /\ k.role \in {"CANDIDATE", "LEADER"}
    /\ k.role = "LEADER" => QuorumSize = 1

LEMMA BecomeCandidateType ==
    ASSUME NEW n \in NodeType, NEW s \in Server
    PROVE  BecomeCandidate(n, s) \in NodeType /\ Stood(s, n, BecomeCandidate(n, s))
<1> DEFINE k    == [n EXCEPT !.role = "CANDIDATE", !.term = n.term + 1, !.votedFor = s,
                             !.votes = {s}]
           cand == TimerReset(k)
<1>1. /\ k \in NodeType /\ k.role = "CANDIDATE" /\ k.term = n.term + 1
      /\ k.votedFor = s /\ k.votes = {s}
    <2>1. n.term + 1 \in Nat
        BY DEF NodeType
    <2>2. /\ "CANDIDATE" \in Roles
          /\ s \in Server \cup {Nobody}
          /\ {s} \in SUBSET Server
        BY DEF Roles
    <2> DEFINE t == n.term + 1
               r == "CANDIDATE"
               vs == {s}
    <2>3. k = [n EXCEPT !.role = r, !.term = t, !.votedFor = s, !.votes = vs]
        OBVIOUS
    <2> HIDE DEF k, t, r, vs
    <2>4. k \in NodeType /\ k.role = r /\ k.term = t /\ k.votedFor = s /\ k.votes = vs
        <3>1. t \in Nat /\ r \in Roles /\ s \in Server \cup {Nobody} /\ vs \in SUBSET Server
            BY <2>1, <2>2 DEF t, r, vs
        <3>2. QED
            BY <2>3, <3>1 DEF NodeType
    <2>5. QED
        BY <2>4 DEF t, r, vs
<1>2. cand \in NodeType /\ SameBallot(k, cand)
    <2> HIDE DEF k
    <2>1. QED
        BY <1>1, TimersType
<1>3. BecomeCandidate(n, s) = IF QuorumSize = 1 THEN BecomeLeader(cand, s) ELSE cand
    BY DEF BecomeCandidate
<1> HIDE DEF cand, k
<1>4. QED
    BY <1>1, <1>2, <1>3, BecomeLeaderType DEF SameBallot, Stood

LEMMA StartPreVoteType ==
    ASSUME NEW n \in NodeType, NEW s \in Server
    PROVE  LET k == StartPreVote(n, s)
           IN  /\ k \in NodeType
               /\ \/ k.role = "PRE_CANDIDATE" /\ k.term = n.term /\ k.votedFor = n.votedFor
                  \/ Stood(s, n, k)
<1> DEFINE round == [term |-> n.term + 1, granted |-> {s}]
           pre   == [n EXCEPT !.role = "PRE_CANDIDATE", !.preVotes = Append(n.preVotes, round)]
<1>1. Append(n.preVotes, round) \in Seq(Round)
    BY AppendProperties DEF NodeType, Round
<1>2. /\ pre \in NodeType /\ pre.role = "PRE_CANDIDATE" /\ pre.term = n.term
      /\ pre.votedFor = n.votedFor
    BY <1>1 DEF NodeType, Roles
<1>3. StartPreVote(n, s) = IF QuorumSize = 1 THEN BecomeCandidate(pre, s) ELSE pre
    BY DEF StartPreVote
<1> HIDE DEF pre
<1>4. QED
    BY <1>2, <1>3, BecomeCandidateType DEF Stood

-----------------------------------------------------------------------------
(* The RPCs a node sends.                                                  *)

LEMMA VoteRequestsType ==
    ASSUME NEW n \in NodeType, NEW s \in Server
    PROVE  VoteRequests(n, s) \in SUBSET VoteRequestType
<1>1. ASSUME NEW p \in Peers(s)
      PROVE  VoteRequest(n, s, p) \in VoteRequestType
    <2>1. Len(n.log) \in Nat /\ Len(n.preVotes) \in Nat /\ n.log \in Seq(Entry)
        BY LenProperties DEF NodeType
    <2>2. LastLogTerm(n.log) \in Nat
        BY <2>1, GetTermType DEF LastLogTerm
    <2>3. n.term \in Nat /\ n.incarnation \in Nat /\ p \in Server
        BY DEF NodeType, Peers
    <2>4. QED
        BY <2>1, <2>2, <2>3 DEF VoteRequest, VoteRequestType
<1>2. QED
    BY <1>1 DEF VoteRequests

LEMMA AppendRequestsType ==
    ASSUME NEW n \in NodeType, NEW s \in Server
    PROVE  AppendRequests(n, s) \in SUBSET AppendRequestType
<1>1. ASSUME NEW p \in Peers(s)
      PROVE  AppendRequest(n, s, p) \in AppendRequestType
    <2>1. /\ p \in Server /\ n.next[p] \in Nat \ {0} /\ n.log \in Seq(Entry)
          /\ n.term \in Nat /\ n.commit \in Nat /\ n.incarnation \in Nat
        BY DEF NodeType, Peers
    <2>2. n.next[p] - 1 \in Nat
        BY <2>1
    <2>3. GetTerm(n.log, n.next[p] - 1) \in Nat
        <3>1. \A i \in Nat : GetTerm(n.log, i) \in Nat
            <4>1. SUFFICES ASSUME NEW i \in Nat PROVE GetTerm(n.log, i) \in Nat
                OBVIOUS
            <4>2. n.log \in Seq(Entry) /\ i \in Int
                BY <2>1
            <4>3. QED
                BY <4>2, GetTermType, Zenon
        <3>2. QED
            BY <2>2, <3>1
    <2>4. GetEntriesFrom(n.log, n.next[p]) \in Seq(Entry)
        BY <2>1, GetEntriesFromType
    <2>5. QED
        BY <2>1, <2>2, <2>3, <2>4 DEF AppendRequest, AppendRequestType
<1>2. QED
    BY <1>1 DEF AppendRequests

\* Requests are no grants.
LEMMA AnnounceType ==
    ASSUME NEW n \in NodeType, NEW s \in Server
    PROVE  /\ Announce(n, s) \in SUBSET RpcType
           /\ \A m \in Announce(n, s) : ~IsGrant(m)
<1>1. /\ AppendRequests(n, s) \in SUBSET AppendRequestType
      /\ VoteRequests(n, s) \in SUBSET VoteRequestType
    BY AppendRequestsType, VoteRequestsType
<1>2. /\ \A m \in AppendRequestType : m \in RpcType /\ ~IsGrant(m)
      /\ \A m \in VoteRequestType : m \in RpcType /\ ~IsGrant(m)
    BY DEF AppendRequestType, VoteRequestType, RpcType, IsGrant
<1>3. QED
    BY <1>1, <1>2 DEF Announce

LEMMA SendAdds ==
    ASSUME NEW inFlight, NEW msgs, Send(inFlight, msgs)
    PROVE  rpcs' \subseteq inFlight \cup msgs
BY DEF Send

LEMMA WithoutKeeps ==
    ASSUME NEW m, NEW rest \in Without(m)
    PROVE  rest \subseteq rpcs
BY DEF Without

-----------------------------------------------------------------------------
(* What every step does to an election.                                    *)

\* A candidate counts a grant of its term that was in flight.
Counted(s, n, k) ==
    \E m \in rpcs :
        /\ IsGrant(m) /\ m.to = s /\ m.term = n.term
        /\ n.role = "CANDIDATE"
        /\ k.term = n.term
        /\ k.votes = n.votes \cup {m.from}
        /\ k.role = "LEADER" => Cardinality(k.votes) >= QuorumSize

\* From the object n of s to k: the term and the vote do not go back, and who
\* stands for election or leads did so before, has just stood, or counted.
BallotStep(s, n, k) ==
    /\ k.term >= n.term
    /\ k.term = n.term /\ n.votedFor # Nobody => k.votedFor = n.votedFor
    /\ k.role \in Active => \/ k.role = n.role /\ k.term = n.term /\ k.votes = n.votes
                            \/ Stood(s, n, k)
                            \/ Counted(s, n, k)

\* One object changes, and the only votes that are sent are those it cast.
Shape(s, k) ==
    /\ node' = [node EXCEPT ![s] = k]
    /\ BallotStep(s, node[s], k)
    /\ rpcs' \in SUBSET RpcType
    /\ \A m \in rpcs' \ rpcs :
            IsGrant(m) => m.from = s /\ m.term = k.term /\ m.to = k.votedFor
    /\ used' \in [timeouts : Nat, stops : Nat, crashes : Nat]

LEMMA KeptBallot ==
    ASSUME NEW s \in Server, NEW n \in NodeType, NEW k \in NodeType, SameBallot(n, k)
    PROVE  BallotStep(s, n, k)
<1>1. n.term \in Nat
    BY DEF NodeType
<1>2. QED
    BY <1>1 DEF BallotStep, SameBallot

LEMMA ThenKept ==
    ASSUME NEW s \in Server, NEW n \in NodeType, NEW k \in NodeType, NEW j \in NodeType,
           BallotStep(s, n, k), SameBallot(k, j)
    PROVE  BallotStep(s, n, j)
BY DEF BallotStep, SameBallot, Stood, Counted

LEMMA StepDownBallot ==
    ASSUME NEW s \in Server, NEW n \in NodeType, NEW t \in Nat, t > n.term,
           NEW l \in Server \cup {Nobody}
    PROVE  StepDown(n, t, l) \in NodeType /\ BallotStep(s, n, StepDown(n, t, l))
<1>1. n.term \in Nat
    BY DEF NodeType
<1>2. /\ StepDown(n, t, l) \in NodeType
      /\ StepDown(n, t, l).role = "FOLLOWER"
      /\ StepDown(n, t, l).term = t
    BY StepDownType
<1>3. QED
    BY <1>1, <1>2 DEF BallotStep, Active

LEMMA StoodBallot ==
    ASSUME NEW s \in Server, NEW n \in NodeType, NEW k \in NodeType, Stood(s, n, k)
    PROVE  BallotStep(s, n, k)
<1>1. n.term \in Nat
    BY DEF NodeType
<1>2. QED
    BY <1>1 DEF BallotStep, Stood

\* Nothing that is sent in the step is a vote.
LEMMA SilentShape ==
    ASSUME TypeOK, NEW s \in Server, NEW k \in NodeType, NEW msgs \in SUBSET RpcType,
           node' = [node EXCEPT ![s] = k], BallotStep(s, node[s], k),
           rpcs' \subseteq rpcs \cup msgs, \A m \in msgs : ~IsGrant(m),
           used' \in [timeouts : Nat, stops : Nat, crashes : Nat]
    PROVE  Shape(s, k)
BY DEF Shape, TypeOK

LEMMA UsedType ==
    ASSUME TypeOK
    PROVE  LET U == [timeouts : Nat, stops : Nat, crashes : Nat]
           IN  /\ used \in U
               /\ [used EXCEPT !.timeouts = @ + 1] \in U
               /\ [used EXCEPT !.stops = @ + 1] \in U
               /\ [used EXCEPT !.crashes = @ + 1] \in U
BY DEF TypeOK

LEMMA StartShape ==
    ASSUME TypeOK, NEW s \in Server, Start(s)
    PROVE  \E k \in NodeType : Shape(s, k)
<1> DEFINE n == node[s]
           k == Started(n)
<1>1. n \in NodeType
    BY DEF TypeOK
<1>2. k \in NodeType /\ BallotStep(s, n, k)
    <2>1. n.term \in Nat
        BY <1>1 DEF NodeType
    <2>2. QED
        BY <1>1, <2>1, StartedType DEF BallotStep, Active
<1>3. Shape(s, k)
    BY <1>2 DEF Shape, Start, TypeOK
<1>4. QED
    BY <1>2, <1>3

LEMMA StopShape ==
    ASSUME TypeOK, NEW s \in Server, Stop(s)
    PROVE  \E k \in NodeType : Shape(s, k)
<1> DEFINE n == node[s]
           k == [n EXCEPT !.running = FALSE, !.pending = {}, !.timer = "off"]
<1>1. n \in NodeType
    BY DEF TypeOK
<1>2. k \in NodeType /\ SameBallot(n, k)
    BY <1>1 DEF NodeType, SameBallot, Timers
<1>3. node' = [node EXCEPT ![s] = k]
    BY <1>1 DEF Stop, TimerStop, NodeType
<1>4. Shape(s, k)
    <2>1. BallotStep(s, n, k)
        BY <1>1, <1>2, KeptBallot
    <2>2. used' \in [timeouts : Nat, stops : Nat, crashes : Nat]
        BY UsedType DEF Stop
    <2>3. rpcs' \subseteq rpcs \cup {}
        BY DEF Stop
    <2> HIDE DEF k
    <2>4. {} \in SUBSET RpcType /\ \A m \in {} : ~IsGrant(m)
        OBVIOUS
    <2>5. QED
        BY <1>2, <1>3, <2>1, <2>2, <2>3, <2>4, SilentShape
<1>5. QED
    BY <1>2, <1>4

LEMMA CrashShape ==
    ASSUME TypeOK, NEW s \in Server, Crash(s)
    PROVE  \E k \in NodeType : Shape(s, k)
<1> DEFINE n == node[s]
           k == [Reloaded(n) EXCEPT !.resolved = n.resolved]
<1>1. n \in NodeType
    BY DEF TypeOK
<1>2. /\ k \in NodeType /\ k.role = "FOLLOWER" /\ k.term = n.term
      /\ k.votedFor = n.votedFor
    <2>1. /\ n.term \in Nat /\ n.votedFor \in Server \cup {Nobody}
          /\ n.incarnation + 1 \in Nat /\ n.resolved \in SUBSET Settled
        BY <1>1 DEF NodeType
    <2> DEFINE r == NewNode(n.term, n.votedFor, n.incarnation + 1)
    <2>2. /\ r \in NodeType /\ r.role = "FOLLOWER" /\ r.term = n.term
          /\ r.votedFor = n.votedFor
        <3> DEFINE t == n.term
                   v == n.votedFor
                   i == n.incarnation + 1
        <3>1. t \in Nat /\ v \in Server \cup {Nobody} /\ i \in Nat
            BY <2>1
        <3>2. r = NewNode(t, v, i)
            BY DEF r
        <3> HIDE DEF t, v, i, r
        <3>3. /\ r \in NodeType /\ r.role = "FOLLOWER" /\ r.term = t
              /\ r.votedFor = v
            BY <3>1, <3>2, NewNodeType
        <3>4. QED
            BY <3>3 DEF t, v
    <2> HIDE DEF r
    <2>3. k = [r EXCEPT !.resolved = n.resolved]
        BY DEF Reloaded, r
    <2>4. QED
        BY <2>1, <2>2, <2>3 DEF NodeType
<1> HIDE DEF k
<1>3. BallotStep(s, n, k)
    <2>1. n.term \in Nat
        BY <1>1 DEF NodeType
    <2>2. QED
        BY <1>2, <2>1 DEF BallotStep, Active
<1>4. node' = [node EXCEPT ![s] = k]
    BY DEF Crash, k
<1>5. Shape(s, k)
    <2>1. used' \in [timeouts : Nat, stops : Nat, crashes : Nat]
        BY UsedType DEF Crash
    <2>2. rpcs' \subseteq rpcs \cup {}
        BY DEF Crash
    <2>3. {} \in SUBSET RpcType /\ \A m \in {} : ~IsGrant(m)
        OBVIOUS
    <2>4. QED
        BY <1>2, <1>3, <1>4, <2>1, <2>2, <2>3, SilentShape
<1>6. QED
    BY <1>2, <1>5

LEMMA ElectionTimeoutShape ==
    ASSUME TypeOK, NEW s \in Server, ElectionTimeout(s)
    PROVE  \E k \in NodeType : Shape(s, k)
<1> DEFINE n     == node[s]
           fired == [n EXCEPT !.timer = "fired"]
           after == StartPreVote(fired, s)
<1>1. n \in NodeType
    BY DEF TypeOK
<1>2. fired \in NodeType /\ SameBallot(n, fired)
    BY <1>1 DEF NodeType, SameBallot, Timers
<1>3. after \in NodeType /\ BallotStep(s, n, after)
    <2> HIDE DEF fired
    <2>1. /\ after \in NodeType
          /\ \/ after.role = "PRE_CANDIDATE" /\ after.term = fired.term
                /\ after.votedFor = fired.votedFor
             \/ Stood(s, fired, after)
        BY <1>2, StartPreVoteType
    <2> HIDE DEF after
    <2>2. CASE after.role = "PRE_CANDIDATE" /\ after.term = fired.term
                /\ after.votedFor = fired.votedFor
        <3>1. n.term \in Nat
            BY <1>1 DEF NodeType
        <3>2. QED
            BY <1>2, <2>1, <2>2, <3>1 DEF BallotStep, Active, SameBallot
    <2>3. CASE Stood(s, fired, after)
        BY <1>1, <1>2, <2>1, <2>3, StoodBallot DEF Stood, SameBallot
    <2>4. QED
        BY <2>1, <2>2, <2>3
<1>4. /\ Announce(after, s) \in SUBSET RpcType
      /\ \A m \in Announce(after, s) : ~IsGrant(m)
    <2> HIDE DEF after
    <2>1. QED
        BY <1>3, AnnounceType
<1>5. CASE n.running /\ n.role # "LEADER"
    <2>1. node' = [node EXCEPT ![s] = after]
        BY <1>5 DEF ElectionTimeout
    <2>2. used' \in [timeouts : Nat, stops : Nat, crashes : Nat]
        BY <1>5, UsedType DEF ElectionTimeout
    <2>3. rpcs' \subseteq rpcs \cup Announce(after, s)
        BY <1>5, SendAdds DEF ElectionTimeout
    <2> HIDE DEF after
    <2>4. Shape(s, after)
        BY <1>3, <1>4, <2>1, <2>2, <2>3, SilentShape
    <2>5. QED
        BY <1>3, <2>4
<1>6. CASE ~(n.running /\ n.role # "LEADER")
    <2>1. node' = [node EXCEPT ![s] = fired] /\ rpcs' = rpcs /\ used' = used
        BY <1>6 DEF ElectionTimeout
    <2>2. BallotStep(s, n, fired)
        BY <1>1, <1>2, KeptBallot
    <2>3. {} \in SUBSET RpcType /\ \A m \in {} : ~IsGrant(m)
        OBVIOUS
    <2> HIDE DEF fired
    <2>4. rpcs' \subseteq rpcs \cup {} /\ used' \in [timeouts : Nat, stops : Nat, crashes : Nat]
        BY <2>1, UsedType
    <2>5. Shape(s, fired)
        BY <1>2, <2>1, <2>2, <2>3, <2>4, SilentShape
    <2>6. QED
        BY <1>2, <2>5
<1>7. QED
    BY <1>5, <1>6

LEMMA HeartbeatShape ==
    ASSUME TypeOK, NEW s \in Server, Heartbeat(s)
    PROVE  \E k \in NodeType : Shape(s, k)
<1> DEFINE n == node[s]
<1>1. n \in NodeType
    BY DEF TypeOK
<1>2. /\ AppendRequests(n, s) \in SUBSET RpcType
      /\ \A m \in AppendRequests(n, s) : ~IsGrant(m)
    BY <1>1, AppendRequestsType DEF RpcType, AppendRequestType, IsGrant
<1>3. rpcs' \subseteq rpcs \cup AppendRequests(n, s)
    BY SendAdds DEF Heartbeat
<1>4. node' = [node EXCEPT ![s] = n] /\ used' \in [timeouts : Nat, stops : Nat, crashes : Nat]
    BY UsedType DEF Heartbeat, TypeOK
<1>5. BallotStep(s, n, n)
    BY <1>1, KeptBallot DEF SameBallot
<1>6. Shape(s, n)
    BY <1>1, <1>2, <1>3, <1>4, <1>5, SilentShape
<1>7. QED
    BY <1>1, <1>6

LEMMA ProposeShape ==
    ASSUME TypeOK, NEW s \in Server, NEW v \in Value, Propose(s, v)
    PROVE  \E k \in NodeType : Shape(s, k)
<1> DEFINE n        == node[s]
           entry    == [term |-> n.term, value |-> v]
           appended == [n EXCEPT !.log = Append(n.log, entry)]
           index    == Len(appended.log)
           proposal == [index |-> index, entry |-> entry]
           others   == {p \in n.pending : p.index # index}
           waiting  == [appended EXCEPT !.pending = others \cup {proposal}]
           after    == IF Peers(s) = {} THEN CheckCommitIndex(waiting, s) ELSE waiting
<1>1. n \in NodeType
    BY DEF TypeOK
<1>2. appended \in NodeType /\ SameBallot(n, appended) /\ index \in Nat \ {0}
      /\ entry \in Entry /\ appended.pending = n.pending
    <2>1. entry \in Entry
        BY <1>1 DEF NodeType, Entry
    <2>2. /\ Append(n.log, entry) \in Seq(Entry)
          /\ Len(Append(n.log, entry)) = Len(n.log) + 1
        <3> HIDE DEF entry
        <3>1. QED
            BY <1>1, <2>1, AppendProperties DEF NodeType
    <2>3. Len(n.log) \in Nat
        BY <1>1, LenProperties DEF NodeType
    <2> DEFINE log == Append(n.log, entry)
    <2>4. /\ appended = [n EXCEPT !.log = log] /\ index = Len(appended.log)
          /\ log \in Seq(Entry) /\ Len(log) = Len(n.log) + 1
        BY <2>2
    <2> HIDE DEF log, entry, appended, index
    <2>5. /\ appended \in NodeType /\ SameBallot(n, appended)
          /\ appended.pending = n.pending /\ appended.log = log
        BY <1>1, <2>4 DEF NodeType, SameBallot
    <2>6. QED
        BY <2>1, <2>3, <2>4, <2>5
<1>3. waiting \in NodeType /\ SameBallot(appended, waiting)
    <2>1. proposal \in Proposal
        <3> HIDE DEF index, entry
        <3>1. QED
            BY <1>2 DEF Proposal
    <2>2. others \in SUBSET Proposal
        BY <1>1 DEF NodeType
    <2> HIDE DEF proposal, others, appended
    <2>3. QED
        BY <1>2, <2>1, <2>2 DEF NodeType, SameBallot
<1>4. after \in NodeType /\ SameBallot(waiting, after)
    <2> HIDE DEF waiting
    <2>1. QED
        BY <1>3, CheckCommitIndexType DEF SameBallot
<1>5. /\ AppendRequests(waiting, s) \in SUBSET RpcType
      /\ \A m \in AppendRequests(waiting, s) : ~IsGrant(m)
    <2> HIDE DEF waiting
    <2>1. QED
        BY <1>3, AppendRequestsType DEF RpcType, AppendRequestType, IsGrant
<1>6. node' = [node EXCEPT ![s] = after] /\ used' = used
      /\ Send(rpcs, AppendRequests(waiting, s))
    BY DEF Propose
<1> HIDE DEF after, waiting, appended, n
<1>7. rpcs' \subseteq rpcs \cup AppendRequests(waiting, s)
      /\ used' \in [timeouts : Nat, stops : Nat, crashes : Nat]
    BY <1>6, SendAdds, UsedType
<1>8. BallotStep(s, n, after)
    BY <1>1, <1>2, <1>3, <1>4, KeptBallot DEF SameBallot
<1>9. Shape(s, after)
    BY <1>4, <1>5, <1>6, <1>7, <1>8, SilentShape DEF n
<1>10. QED
    BY <1>4, <1>9

\* The object a request of a newer term finds: the receiver steps down first.
LEMMA AdoptTerm ==
    ASSUME NEW s \in Server, NEW n \in NodeType, NEW t \in Nat,
           NEW l \in Server \cup {Nobody}, NEW C \in BOOLEAN, C => t > n.term,
           NEW k, k = IF C THEN StepDown(n, t, l) ELSE n
    PROVE  k \in NodeType /\ BallotStep(s, n, k)
<1>1. CASE C
    BY <1>1, StepDownBallot
<1>2. CASE ~C
    BY <1>2, KeptBallot DEF SameBallot
<1>3. QED
    BY <1>1, <1>2

LEMMA HandleRequestVoteShape ==
    ASSUME TypeOK, NEW m \in rpcs, HandleRequestVote(m)
    PROVE  \E s \in Server, k \in NodeType : Shape(s, k)
<1> DEFINE s == m.to
           C == m.term > node[s].term /\ ~m.preVote
           n == IF C THEN StepDown(node[s], m.term, Nobody) ELSE node[s]
           granted == m.term >= n.term /\ VoteIsFree(n, m) /\ LogUpToDate(n, m)
           voted == [n EXCEPT !.votedFor = m.from]
           after == IF granted /\ ~m.preVote THEN TimerReset(voted) ELSE n
           reply == [type |-> "RequestVoteReply", from |-> s, to |-> m.from,
                     preVote |-> m.preVote, term |-> n.term, granted |-> granted,
                     round |-> m.round, incarnation |-> m.incarnation]
           msgs == IF m.preVote /\ ~granted THEN {} ELSE {reply}
<1>1. m \in VoteRequestType
    BY DEF TypeOK, RpcType, HandleRequestVote, AppendRequestType, VoteReplyType,
           AppendReplyType
<1>2. /\ s \in Server /\ m.from \in Server /\ m.term \in Nat /\ m.preVote \in BOOLEAN
      /\ m.round \in Nat /\ m.incarnation \in Nat
    BY <1>1 DEF VoteRequestType
<1>3. node[s] \in NodeType
    BY <1>2 DEF TypeOK
<1>4. n \in NodeType /\ BallotStep(s, node[s], n)
    <2>1. C \in BOOLEAN /\ (C => m.term > node[s].term)
        BY <1>2
    <2>2. n = IF C THEN StepDown(node[s], m.term, Nobody) ELSE node[s]
        OBVIOUS
    <2> HIDE DEF C, n, s
    <2>3. QED
        BY <1>2, <1>3, <2>1, <2>2, AdoptTerm
<1>5. /\ node' = [node EXCEPT ![s] = after]
      /\ used' = used
      /\ rpcs' \subseteq rpcs \cup msgs
    <2>1. PICK rest \in Without(m) : Send(rest, msgs)
        BY DEF HandleRequestVote
    <2>2. rest \subseteq rpcs
        BY WithoutKeeps
    <2>3. rpcs' \subseteq rest \cup msgs
        <3> HIDE DEF msgs
        <3>1. QED
            BY <2>1, SendAdds
    <2>4. QED
        BY <2>2, <2>3 DEF HandleRequestVote
<1>6. after.term = n.term
      /\ after \in NodeType
      /\ BallotStep(s, node[s], after)
      /\ (granted /\ ~m.preVote => after.votedFor = m.from)
    <2>1. CASE granted /\ ~m.preVote
        <3>1. /\ voted \in NodeType /\ voted.term = n.term /\ voted.role = n.role
              /\ voted.votes = n.votes /\ voted.votedFor = m.from
            <4> HIDE DEF n
            <4>1. QED
                BY <1>2, <1>4 DEF NodeType
        <3>2. n.votedFor \in {Nobody, m.from}
            BY <2>1 DEF VoteIsFree
        <3>3. node[s].term \in Nat /\ node[s].votedFor \in Server \cup {Nobody}
              /\ n.term \in Nat
            <4> HIDE DEF n
            <4>1. QED
                BY <1>3, <1>4 DEF NodeType
        <3>4. after = TimerReset(voted)
            BY <2>1
        <3> HIDE DEF n, voted, granted, after
        <3>5. BallotStep(s, node[s], voted)
            BY <1>2, <1>4, <3>1, <3>2, <3>3, NobodyAssumption DEF BallotStep, Stood, Counted, Active
        <3>6. after \in NodeType /\ SameBallot(voted, after)
            BY <3>1, <3>4, TimersType
        <3>7. BallotStep(s, node[s], after)
            BY <1>2, <1>3, <3>1, <3>5, <3>6, ThenKept
        <3>8. QED
            BY <3>1, <3>6, <3>7 DEF SameBallot
    <2>2. CASE ~(granted /\ ~m.preVote)
        <3>1. after = n
            BY <2>2
        <3>2. QED
            BY <1>4, <2>2, <3>1
    <2>3. QED
        BY <2>1, <2>2
<1>7. \A r \in msgs : /\ r \in RpcType
                      /\ IsGrant(r) => r.from = s /\ r.term = after.term
                                       /\ r.to = after.votedFor
    <2>1. n.term \in Nat /\ granted \in BOOLEAN
        <3>1. n.term \in Nat
            <4> HIDE DEF n
            <4>1. QED
                BY <1>4 DEF NodeType
        <3>2. granted = TRUE \/ granted = FALSE
            <4> HIDE DEF n
            <4>1. QED
                BY DEF VoteIsFree, LogUpToDate
        <3>3. QED
            BY <3>1, <3>2
    <2>2. reply \in VoteReplyType
        <3> HIDE DEF granted, n, s
        <3>1. QED
            BY <1>2, <2>1 DEF VoteReplyType
    <2>3. IsGrant(reply) => granted /\ ~m.preVote
        BY DEF IsGrant
    <2>4. reply.from = s /\ reply.term = n.term /\ reply.to = m.from
        OBVIOUS
    <2>5. msgs \subseteq {reply}
        OBVIOUS
    <2> HIDE DEF reply, after, n, granted, s, msgs
    <2>6. QED
        BY <1>6, <2>2, <2>3, <2>4, <2>5 DEF RpcType
<1> HIDE DEF msgs, after, s
<1>8. Shape(s, after)
    BY <1>5, <1>6, <1>7, UsedType DEF Shape, TypeOK
<1>9. QED
    BY <1>2, <1>6, <1>8

LEMMA HandleAppendEntriesShape ==
    ASSUME TypeOK, NEW m \in rpcs, HandleAppendEntries(m)
    PROVE  \E s \in Server, k \in NodeType : Shape(s, k)
<1> DEFINE s == m.to
           C == m.term > node[s].term
           n == IF C THEN StepDown(node[s], m.term, m.from) ELSE node[s]
           led      == [n EXCEPT !.leader = m.from]
           heard    == TimerReset(led)
           log      == MergeEntries(heard.log, m.prevIndex, m.entries)
           merged   == [heard EXCEPT !.log = log]
           least    == Min({m.commit, Len(merged.log)})
           grown    == [merged EXCEPT !.commit = least]
           caughtUp == IF m.commit > merged.commit THEN ApplyEntries(grown) ELSE merged
           Reply(after, success, conflict) ==
               [type |-> "AppendEntriesReply", from |-> s, to |-> m.from,
                term |-> after.term, success |-> success,
                matchIndex |-> Len(after.log), conflictIndex |-> conflict,
                sentIn |-> m.term, incarnation |-> m.incarnation]
           Finish(after, success, conflict) ==
               /\ node' = [node EXCEPT ![s] = after]
               /\ \E rest \in Without(m) : Send(rest, {Reply(after, success, conflict)})
<1>1. m \in AppendRequestType
    BY DEF TypeOK, RpcType, HandleAppendEntries, VoteRequestType, VoteReplyType,
           AppendReplyType
<1>2. /\ s \in Server /\ m.from \in Server /\ m.term \in Nat /\ m.prevIndex \in Nat
      /\ m.entries \in Seq(Entry) /\ m.commit \in Nat /\ m.incarnation \in Nat
    BY <1>1 DEF AppendRequestType
<1>3. node[s] \in NodeType
    BY <1>2 DEF TypeOK
<1>4. n \in NodeType /\ BallotStep(s, node[s], n)
    <2>1. C \in BOOLEAN /\ (C => m.term > node[s].term)
        BY <1>2
    <2>2. n = IF C THEN StepDown(node[s], m.term, m.from) ELSE node[s]
        OBVIOUS
    <2> HIDE DEF C, n, s
    <2>3. QED
        BY <1>2, <1>3, <2>1, <2>2, AdoptTerm
<1>5. heard \in NodeType /\ SameBallot(n, heard)
    <2>1. led \in NodeType /\ SameBallot(n, led)
        <3> HIDE DEF n
        <3>1. QED
            BY <1>2, <1>4 DEF NodeType, SameBallot
    <2> HIDE DEF led, n
    <2>2. QED
        BY <2>1, TimersType DEF SameBallot
<1>6. merged \in NodeType /\ SameBallot(n, merged) /\ merged.log \in Seq(Entry)
    <2> HIDE DEF heard, n
    <2>1. heard.log \in Seq(Entry)
        BY <1>5 DEF NodeType
    <2>2. log \in Seq(Entry)
        BY <1>2, <2>1, MergeEntriesType
    <2> HIDE DEF log
    <2>3. QED
        BY <1>5, <2>2 DEF NodeType, SameBallot
<1>7. caughtUp \in NodeType /\ SameBallot(n, caughtUp)
    <2> HIDE DEF merged, n
    <2>1. Len(merged.log) \in Nat
        BY <1>6, LenProperties
    <2>2. least \in Nat /\ least <= Len(merged.log)
        BY <1>2, <2>1, MinOfTwo
    <2>3. grown \in NodeType /\ SameBallot(merged, grown) /\ grown.commit <= Len(grown.log)
        <3> HIDE DEF least
        <3>1. QED
            BY <1>6, <2>2 DEF NodeType, SameBallot
    <2> HIDE DEF grown
    <2>4. ApplyEntries(grown) \in NodeType /\ SameBallot(grown, ApplyEntries(grown))
        BY <2>3, ApplyEntriesType
    <2>5. QED
        BY <1>6, <2>3, <2>4 DEF SameBallot
<1>8. ASSUME NEW after \in NodeType, NEW success \in BOOLEAN, NEW conflict \in Nat,
             Finish(after, success, conflict), SameBallot(n, after)
      PROVE  Shape(s, after)
    <2> DEFINE r == Reply(after, success, conflict)
    <2>1. after.term \in Nat /\ Len(after.log) \in Nat
        BY LenProperties DEF NodeType
    <2>2. r \in AppendReplyType /\ ~IsGrant(r)
        <3> HIDE DEF s
        <3>1. QED
            BY <1>2, <2>1 DEF AppendReplyType, IsGrant
    <2>3. PICK rest \in Without(m) : Send(rest, {r})
        BY <1>8
    <2>4. rest \subseteq rpcs
        BY WithoutKeeps
    <2>5. rpcs' \subseteq rest \cup {r}
        <3> HIDE DEF r
        <3>1. QED
            BY <2>3, SendAdds
    <2>6. BallotStep(s, node[s], after)
        <3> HIDE DEF n, s
        <3>1. QED
            BY <1>2, <1>3, <1>4, <1>8, ThenKept
    <2>7. used' \in [timeouts : Nat, stops : Nat, crashes : Nat]
        BY UsedType DEF HandleAppendEntries
    <2>8. node' = [node EXCEPT ![s] = after]
        BY <1>8
    <2>9. {r} \in SUBSET RpcType /\ \A x \in {r} : ~IsGrant(x)
        <3> HIDE DEF r
        <3>1. QED
            BY <2>2 DEF RpcType
    <2> DEFINE msgs == {r}
    <2>10. rpcs' \subseteq rpcs \cup msgs
        <3> HIDE DEF r
        <3>1. QED
            BY <2>4, <2>5
    <2>11. msgs \in SUBSET RpcType /\ \A x \in msgs : ~IsGrant(x)
        BY <2>9
    <2> HIDE DEF r, s, msgs
    <2>12. QED
        BY <1>2, <2>6, <2>7, <2>8, <2>10, <2>11, SilentShape
<1>9. Finish(n, FALSE, 0)
        \/ Finish(heard, FALSE, Max({1, Len(n.log)}))
        \/ Finish(caughtUp, TRUE, 0)
    BY DEF HandleAppendEntries
<1>10. 0 \in Nat /\ Max({1, Len(n.log)}) \in Nat
    <2> HIDE DEF n
    <2>1. Len(n.log) \in Nat
        BY <1>4, LenProperties DEF NodeType
    <2>2. QED
        BY <2>1, MaxOfTwo
<1>11. SameBallot(n, n)
    BY DEF SameBallot
<1> HIDE DEF Finish, Reply, heard, caughtUp, n, s
<1>12. QED
    BY <1>2, <1>4, <1>5, <1>7, <1>8, <1>9, <1>10, <1>11

LEMMA SettleShape ==
    ASSUME TypeOK, NEW m \in rpcs, m.to \in Server, NEW after \in NodeType,
           BallotStep(m.to, node[m.to], after), Settle(m, after)
    PROVE  Shape(m.to, after)
<1> DEFINE msgs == IF after.role # node[m.to].role THEN Announce(after, m.to) ELSE {}
<1>1. msgs \in SUBSET RpcType /\ \A x \in msgs : ~IsGrant(x)
    BY AnnounceType
<1>2. PICK rest \in Without(m) : Send(rest, msgs)
    BY DEF Settle
<1>3. rest \subseteq rpcs
    BY WithoutKeeps
<1> HIDE DEF msgs
<1>4. rpcs' \subseteq rest \cup msgs
    BY <1>2, SendAdds
<1>5. rpcs' \subseteq rpcs \cup msgs
    BY <1>3, <1>4
<1>6. node' = [node EXCEPT ![m.to] = after]
      /\ used' \in [timeouts : Nat, stops : Nat, crashes : Nat]
    BY UsedType DEF Settle
<1>7. QED
    BY <1>1, <1>5, <1>6, SilentShape

LEMMA VoteReplyFields ==
    ASSUME TypeOK, NEW m \in rpcs, m.type = "RequestVoteReply"
    PROVE  /\ m.from \in Server /\ m.to \in Server /\ m.term \in Nat /\ m.round \in Nat
           /\ m.preVote \in BOOLEAN /\ m.granted \in BOOLEAN
           /\ node[m.to] \in NodeType
BY DEF TypeOK, RpcType, VoteRequestType, AppendRequestType, VoteReplyType, AppendReplyType

LEMMA HandlePreVoteReplyShape ==
    ASSUME TypeOK, NEW m \in rpcs, HandlePreVoteReply(m)
    PROVE  \E s \in Server, k \in NodeType : Shape(s, k)
<1> DEFINE s == m.to
           n == node[s]
           rounds == [n.preVotes EXCEPT
                        ![m.round] = [n.preVotes[m.round] EXCEPT
                            !.granted = n.preVotes[m.round].granted \cup {m.from}]]
           counted == [n EXCEPT !.preVotes = rounds]
           after == IF n.role # "PRE_CANDIDATE" THEN n
                    ELSE IF Cardinality(counted.preVotes[m.round].granted) >= QuorumSize
                    THEN BecomeCandidate(counted, s)
                    ELSE counted
<1>1. m.type = "RequestVoteReply"
    BY DEF HandlePreVoteReply
<1>2. m.from \in Server /\ s \in Server /\ m.round \in Nat /\ n \in NodeType
    BY <1>1, VoteReplyFields
<1>3. rounds \in Seq(Round)
    <2>1. n.preVotes \in Seq(Round)
        BY <1>2 DEF NodeType
    <2>2. CASE m.round \in 1..Len(n.preVotes)
        <3> DEFINE round == [n.preVotes[m.round] EXCEPT
                                !.granted = n.preVotes[m.round].granted \cup {m.from}]
        <3>1. round \in Round
            <4>1. n.preVotes[m.round] \in Round
                BY <2>1, <2>2, ElementOfSeq
            <4>2. QED
                BY <1>2, <4>1 DEF Round
        <3> HIDE DEF round
        <3>2. [n.preVotes EXCEPT ![m.round] = round] \in Seq(Round)
            BY <2>1, <2>2, <3>1, ExceptSeq
        <3>3. QED
            BY <3>2 DEF round
    <2>3. CASE m.round \notin 1..Len(n.preVotes)
        <3>1. DOMAIN n.preVotes = 1..Len(n.preVotes)
              /\ n.preVotes = [i \in 1..Len(n.preVotes) |-> n.preVotes[i]]
            BY <2>1, LenProperties
        <3>2. rounds = n.preVotes
            BY <2>3, <3>1
        <3>3. QED
            BY <2>1, <3>2
    <2>4. QED
        BY <2>2, <2>3
<1>4. counted \in NodeType /\ SameBallot(n, counted)
    <2> HIDE DEF rounds, n
    <2>1. QED
        BY <1>2, <1>3 DEF NodeType, SameBallot
<1>5. Settle(m, after)
    <2>1. counted = [n EXCEPT !.preVotes[m.round].granted = @ \cup {m.from}]
        BY <1>2 DEF NodeType
    <2>2. QED
        BY <2>1 DEF HandlePreVoteReply
<1>6. after \in NodeType /\ BallotStep(s, n, after)
    <2> HIDE DEF counted, n, s
    <2>1. BecomeCandidate(counted, s) \in NodeType
          /\ Stood(s, counted, BecomeCandidate(counted, s))
        BY <1>2, <1>4, BecomeCandidateType
    <2>2. Stood(s, n, BecomeCandidate(counted, s))
        BY <1>4, <2>1 DEF Stood, SameBallot
    <2>3. BallotStep(s, n, BecomeCandidate(counted, s))
        BY <1>2, <2>1, <2>2, StoodBallot
    <2>4. BallotStep(s, n, n) /\ BallotStep(s, n, counted)
        BY <1>2, <1>4, KeptBallot DEF SameBallot
    <2>5. QED
        BY <1>2, <1>4, <2>1, <2>3, <2>4
<1> HIDE DEF after
<1>7. QED
    BY <1>2, <1>5, <1>6, SettleShape

LEMMA HandleVoteReplyShape ==
    ASSUME TypeOK, NEW m \in rpcs, HandleVoteReply(m)
    PROVE  \E s \in Server, k \in NodeType : Shape(s, k)
<1> DEFINE s == m.to
           n == node[s]
           counted == [n EXCEPT !.votes = n.votes \cup {m.from}]
           counts  == m.granted /\ n.role = "CANDIDATE" /\ m.term = n.term
           after == IF ~n.running THEN n
                    ELSE IF m.term > n.term THEN StepDown(n, m.term, Nobody)
                    ELSE IF ~counts THEN n
                    ELSE IF Cardinality(counted.votes) >= QuorumSize
                    THEN BecomeLeader(counted, s)
                    ELSE counted
<1>1. m.type = "RequestVoteReply" /\ ~m.preVote
    BY DEF HandleVoteReply
<1>2. m.from \in Server /\ s \in Server /\ m.term \in Nat /\ n \in NodeType
    BY <1>1, VoteReplyFields
<1>3. /\ counted \in NodeType /\ counted.role = n.role /\ counted.term = n.term
      /\ counted.votedFor = n.votedFor /\ counted.votes = n.votes \cup {m.from}
    <2> HIDE DEF n
    <2>1. QED
        BY <1>2 DEF NodeType
<1>4. Settle(m, after)
    BY DEF HandleVoteReply
<1>5. BallotStep(s, n, n)
    BY <1>2, KeptBallot DEF SameBallot
<1>6. CASE ~n.running \/ (~(m.term > n.term) /\ ~counts)
    <2>1. after = n
        BY <1>6
    <2>2. QED
        BY <1>2, <1>4, <1>5, <2>1, SettleShape
<1>7. CASE n.running /\ m.term > n.term
    <2> DEFINE k == StepDown(n, m.term, Nobody)
    <2>1. after = k
        BY <1>7
    <2>2. k \in NodeType /\ BallotStep(s, n, k)
        BY <1>2, <1>7, StepDownBallot
    <2> HIDE DEF k, after
    <2>3. QED
        BY <1>2, <1>4, <2>1, <2>2, SettleShape
<1>8. CASE n.running /\ ~(m.term > n.term) /\ counts
    <2> DEFINE led == Cardinality(counted.votes) >= QuorumSize
    <2>1. after = IF led THEN BecomeLeader(counted, s) ELSE counted
        BY <1>8
    <2>2. IsGrant(m) /\ m.to = s /\ m.term = n.term /\ n.role = "CANDIDATE"
        BY <1>1, <1>8 DEF IsGrant
    <2> HIDE DEF counted, n, after, s
    <2>3. /\ after \in NodeType /\ after.term = n.term /\ after.votedFor = n.votedFor
          /\ after.votes = n.votes \cup {m.from}
          /\ after.role = "LEADER" => Cardinality(after.votes) >= QuorumSize
        BY <1>2, <1>3, <2>1, <2>2, BecomeLeaderType
    <2>4. Counted(s, n, after)
        BY <2>2, <2>3 DEF Counted
    <2>5. BallotStep(s, n, after)
        <3>1. n.term \in Nat
            BY <1>2 DEF NodeType
        <3>2. QED
            BY <2>3, <2>4, <3>1 DEF BallotStep
    <2>6. QED
        BY <1>2, <1>4, <2>3, <2>5, SettleShape DEF s, n
<1>9. QED
    <2> HIDE DEF counts, after
    <2>1. \/ ~n.running \/ (~(m.term > n.term) /\ ~counts)
          \/ n.running /\ m.term > n.term
          \/ n.running /\ ~(m.term > n.term) /\ counts
        OBVIOUS
    <2>2. QED
        BY <1>6, <1>7, <1>8, <2>1

LEMMA HandleAppendReplyShape ==
    ASSUME TypeOK, NEW m \in rpcs, HandleAppendReply(m)
    PROVE  \E s \in Server, k \in NodeType : Shape(s, k)
<1> DEFINE s == m.to
           n == node[s]
           moved == UpdateProgress(n, m.from, m.matchIndex)
           after == IF ~n.running THEN n
                    ELSE IF m.term > n.term THEN StepDown(n, m.term, Nobody)
                    ELSE IF n.role # "LEADER" THEN n
                    ELSE IF m.success THEN CheckCommitIndex(moved, s)
                    ELSE BackOff(n, m.from, m.conflictIndex)
<1>1. m \in AppendReplyType
    BY DEF TypeOK, RpcType, HandleAppendReply, VoteRequestType, VoteReplyType,
           AppendRequestType
<1>2. /\ m.from \in Server /\ s \in Server /\ m.term \in Nat /\ m.matchIndex \in Nat
      /\ m.conflictIndex \in Nat
    BY <1>1 DEF AppendReplyType
<1>3. n \in NodeType
    BY <1>2 DEF TypeOK
<1>4. Settle(m, after)
    BY DEF HandleAppendReply
<1> HIDE DEF n
<1>5. /\ n \in NodeType /\ BallotStep(s, n, n)
    BY <1>2, <1>3, KeptBallot DEF SameBallot
<1>6. m.term > n.term => /\ StepDown(n, m.term, Nobody) \in NodeType
                         /\ BallotStep(s, n, StepDown(n, m.term, Nobody))
    BY <1>2, <1>3, StepDownBallot
<1>7. CheckCommitIndex(moved, s) \in NodeType /\ BallotStep(s, n, CheckCommitIndex(moved, s))
    <2>1. moved \in NodeType /\ SameBallot(n, moved)
        BY <1>2, <1>3, ProgressType
    <2> HIDE DEF moved, s
    <2>2. CheckCommitIndex(moved, s) \in NodeType
          /\ SameBallot(moved, CheckCommitIndex(moved, s))
        BY <1>2, <2>1, CheckCommitIndexType
    <2>3. QED
        BY <1>2, <1>3, <2>1, <2>2, KeptBallot DEF SameBallot
<1>8. /\ BackOff(n, m.from, m.conflictIndex) \in NodeType
      /\ BallotStep(s, n, BackOff(n, m.from, m.conflictIndex))
    BY <1>2, <1>3, ProgressType, KeptBallot
<1>9. after \in NodeType /\ BallotStep(s, n, after)
    <2> HIDE DEF moved
    <2>1. QED
        BY <1>5, <1>6, <1>7, <1>8
<1> HIDE DEF after
<1>10. QED
    BY <1>2, <1>4, <1>9, SettleShape DEF n

\* Every step of the specification changes one object as a ballot allows.
LEMMA NextShape ==
    ASSUME TypeOK, Next
    PROVE  \E s \in Server, k \in NodeType : Shape(s, k)
<1>1. CASE \E s \in Server : Start(s)
    BY <1>1, StartShape
<1>2. CASE \E s \in Server : Stop(s)
    BY <1>2, StopShape
<1>3. CASE \E s \in Server : Crash(s)
    BY <1>3, CrashShape
<1>4. CASE \E s \in Server : ElectionTimeout(s)
    BY <1>4, ElectionTimeoutShape
<1>5. CASE \E s \in Server : Heartbeat(s)
    BY <1>5, HeartbeatShape
<1>6. CASE \E s \in Server, v \in Value : Propose(s, v)
    BY <1>6, ProposeShape
<1>7. CASE \E m \in rpcs : HandleRequestVote(m)
    BY <1>7, HandleRequestVoteShape
<1>8. CASE \E m \in rpcs : HandleAppendEntries(m)
    BY <1>8, HandleAppendEntriesShape
<1>9. CASE \E m \in rpcs : HandlePreVoteReply(m)
    BY <1>9, HandlePreVoteReplyShape
<1>10. CASE \E m \in rpcs : HandleVoteReply(m)
    BY <1>10, HandleVoteReplyShape
<1>11. CASE \E m \in rpcs : HandleAppendReply(m)
    BY <1>11, HandleAppendReplyShape
<1>12. QED
    BY <1>1, <1>2, <1>3, <1>4, <1>5, <1>6, <1>7, <1>8, <1>9, <1>10, <1>11 DEF Next

LEMMA InitType ==
    ASSUME Init
    PROVE  /\ TypeOK
           /\ \A s \in Server : node[s].role = "FOLLOWER"
           /\ rpcs = {}
<1> DEFINE n == NewNode(0, Nobody, 0)
           k == Started(n)
<1>1. n \in NodeType
    BY NewNodeType
<1>2. k \in NodeType /\ k.role = "FOLLOWER"
    <2> HIDE DEF n
    <2>1. QED
        BY <1>1, StartedType
<1>3. node = [s \in Server |-> k] /\ rpcs = {}
      /\ used = [timeouts |-> 0, stops |-> 0, crashes |-> 0]
    BY DEF Init
<1> HIDE DEF k
<1>4. QED
    BY <1>2, <1>3 DEF TypeOK

LEMMA ShapeType ==
    ASSUME TypeOK, NEW s \in Server, NEW k \in NodeType, Shape(s, k)
    PROVE  TypeOK'
BY DEF TypeOK, Shape

\* The state of the program keeps its types whatever the cluster, the batch
\* size and the bounds are.
THEOREM TypeCorrect == Spec => []TypeOK
<1>1. Init => TypeOK
    BY InitType
<1>2. TypeOK /\ [Next]_vars => TypeOK'
    <2>1. ASSUME TypeOK, Next PROVE TypeOK'
        BY <2>1, NextShape, ShapeType
    <2>2. ASSUME TypeOK, UNCHANGED vars PROVE TypeOK'
        BY <2>2 DEF TypeOK, vars
    <2>3. QED
        BY <2>1, <2>2
<1>3. QED
    BY <1>1, <1>2, PTL DEF Spec

\* The term of a server and its vote in it are never taken back.
THEOREM VotesAreKept == Spec => OneVotePerTerm
<1> DEFINE Kept == \A s \in Server :
                    /\ node'[s].term >= node[s].term
                    /\ node'[s].term = node[s].term /\ node[s].votedFor # Nobody
                            => node'[s].votedFor = node[s].votedFor
<1>1. TypeOK /\ [Next]_vars => [Kept]_vars
    <2>1. ASSUME TypeOK, Next PROVE Kept
        <3>1. PICK s \in Server, k \in NodeType : Shape(s, k)
            BY <2>1, NextShape
        <3>2. /\ node' = [node EXCEPT ![s] = k] /\ node \in [Server -> NodeType]
              /\ BallotStep(s, node[s], k)
            BY <2>1, <3>1 DEF Shape, TypeOK
        <3>3. \A t \in Server : node[t].term \in Nat
            BY <3>2 DEF NodeType
        <3>4. QED
            BY <3>2, <3>3 DEF BallotStep
    <2>2. QED
        BY <2>1
<1>2. QED
    BY <1>1, TypeCorrect, PTL DEF Spec, OneVotePerTerm

-----------------------------------------------------------------------------
(* One leader per term.                                                    *)

LEMMA VotedForStable ==
    ASSUME TypeOK, NEW s \in Server, NEW k \in NodeType, Shape(s, k),
           NEW v \in Server, NEW t \in Nat, NEW c \in Server, VotedFor(v, t, c)
    PROVE  VotedFor(v, t, c)'
<1>1. /\ node' = [node EXCEPT ![s] = k] /\ node \in [Server -> NodeType]
      /\ BallotStep(s, node[s], k)
    BY DEF Shape, TypeOK
<1>2. node[s].term \in Nat /\ k.term \in Nat
    BY <1>1 DEF NodeType
<1>3. QED
    BY <1>1, <1>2, NobodyAssumption DEF BallotStep, VotedFor

\* Who stands after a step of s stood before it in the same term with the same
\* votes, or is s and has just stood for election or counted a vote.
LEMMA StandingAfter ==
    ASSUME TypeOK, NEW s \in Server, NEW k \in NodeType, Shape(s, k), NEW c \in Standing'
    PROVE  /\ c \in Server /\ node'[c].term \in Nat /\ node'[c].votes \in SUBSET Server
           /\ \/ /\ c \in Standing /\ node'[c].term = node[c].term
                 /\ node'[c].votes = node[c].votes
                 /\ IsLeader(c)' => IsLeader(c)
              \/ c = s /\ Stood(s, node[s], k)
              \/ c = s /\ Counted(s, node[s], k)
<1>1. /\ node' = [node EXCEPT ![s] = k] /\ node \in [Server -> NodeType]
      /\ BallotStep(s, node[s], k) /\ c \in Server /\ node'[c].role \in Active
    BY DEF Shape, TypeOK, Standing
<1>2. node'[c] = (IF c = s THEN k ELSE node[c]) /\ node'[c] \in NodeType
    BY <1>1
<1>3. node'[c].term \in Nat /\ node'[c].votes \in SUBSET Server
    BY <1>2 DEF NodeType
<1>4. QED
    BY <1>1, <1>2, <1>3 DEF BallotStep, Standing, IsLeader

LEMMA GrantFields ==
    ASSUME TypeOK, NEW m \in rpcs, IsGrant(m)
    PROVE  m.from \in Server /\ m.to \in Server /\ m.term \in Nat
BY DEF IsGrant, TypeOK, RpcType, VoteRequestType, AppendRequestType, VoteReplyType,
       AppendReplyType

\* A vote on its way after a step of s was on its way before it, or s cast it.
LEMMA GrantAfter ==
    ASSUME TypeOK, NEW s \in Server, NEW k \in NodeType, Shape(s, k),
           NEW m \in rpcs', IsGrant(m)
    PROVE  /\ m.from \in Server /\ m.to \in Server /\ m.term \in Nat
           /\ m \in rpcs \/ (m.from = s /\ m.term = k.term /\ m.to = k.votedFor)
<1>1. m \in RpcType /\ (m \in rpcs \/ (m.from = s /\ m.term = k.term /\ m.to = k.votedFor))
    BY DEF Shape
<1>2. m.from \in Server /\ m.to \in Server /\ m.term \in Nat
    BY <1>1 DEF IsGrant, RpcType, VoteRequestType, AppendRequestType, VoteReplyType,
                AppendReplyType
<1>3. QED
    BY <1>1, <1>2

LEMMA CountedVotesStep ==
    ASSUME TypeOK, OneCountPerVote, NEW s \in Server, NEW k \in NodeType, Shape(s, k)
    PROVE  CountedVotesWereCast'
<1> SUFFICES ASSUME NEW c \in Server, c \in Standing', NEW t \in Nat, t = node'[c].term,
                    NEW v \in Server, v \in node'[c].votes
             PROVE  VotedFor(v, t, c)'
    BY StandingAfter DEF CountedVotesWereCast, VotedFor
<1>1. node' = [node EXCEPT ![s] = k] /\ node \in [Server -> NodeType] /\ node'[s] = k
    BY DEF Shape, TypeOK
<1>2. ASSUME c \in Standing, t = node[c].term, v \in node[c].votes
      PROVE  VotedFor(v, t, c)'
    <2>1. VotedFor(v, t, c)
        BY <1>2 DEF OneCountPerVote, CountedVotesWereCast
    <2>2. QED
        BY <2>1, VotedForStable
<1>3. CASE c = s /\ Stood(s, node[s], k)
    BY <1>1, <1>3 DEF Stood, VotedFor
<1>4. CASE c = s /\ Counted(s, node[s], k)
    <2>1. PICK m \in rpcs : /\ IsGrant(m) /\ m.to = s /\ m.term = node[s].term
                            /\ node[s].role = "CANDIDATE" /\ k.term = node[s].term
                            /\ k.votes = node[s].votes \cup {m.from}
        BY <1>4 DEF Counted
    <2>2. t = node[s].term
        BY <1>1, <1>4, <2>1
    <2>3. CASE v = m.from
        <3>1. VotedFor(v, t, c)
            BY <1>4, <2>1, <2>2, <2>3 DEF OneCountPerVote, GrantsWereCast
        <3>2. QED
            BY <3>1, VotedForStable
    <2>4. CASE v \in node[s].votes
        BY <1>2, <1>4, <2>1, <2>2, <2>4 DEF Standing, Active
    <2>5. QED
        BY <1>1, <1>4, <2>1, <2>3, <2>4
<1>5. QED
    BY <1>2, <1>3, <1>4, StandingAfter

LEMMA GrantsStep ==
    ASSUME TypeOK, OneCountPerVote, NEW s \in Server, NEW k \in NodeType, Shape(s, k)
    PROVE  GrantsWereCast' /\ GrantsAgree'
<1>1. node' = [node EXCEPT ![s] = k] /\ node \in [Server -> NodeType] /\ node'[s] = k
      /\ BallotStep(s, node[s], k)
    BY DEF Shape, TypeOK
<1>2. node[s].term \in Nat /\ k.term \in Nat
    BY <1>1 DEF NodeType
<1>3. ASSUME NEW m \in rpcs', IsGrant(m)
      PROVE  VotedFor(m.from, m.term, m.to)'
    <2>1. /\ m.from \in Server /\ m.to \in Server /\ m.term \in Nat
          /\ m \in rpcs \/ (m.from = s /\ m.term = k.term /\ m.to = k.votedFor)
        BY <1>3, GrantAfter
    <2>2. CASE m \in rpcs
        <3>1. VotedFor(m.from, m.term, m.to)
            BY <1>3, <2>2 DEF OneCountPerVote, GrantsWereCast
        <3>2. \A v \in Server, t \in Nat, c \in Server : VotedFor(v, t, c) => VotedFor(v, t, c)'
            BY VotedForStable
        <3>3. QED
            BY <2>1, <3>1, <3>2
    <2>3. CASE m.from = s /\ m.term = k.term /\ m.to = k.votedFor
        BY <1>1, <2>3 DEF VotedFor
    <2>4. QED
        BY <2>1, <2>2, <2>3
\* A vote cast in the step is the one cast before in the same term.
<1>4. ASSUME NEW l \in rpcs, IsGrant(l), l.from = s, l.term = k.term
      PROVE  l.to = k.votedFor
    <2>1. l.to \in Server /\ VotedFor(s, k.term, l.to)
        BY <1>4, GrantFields DEF OneCountPerVote, GrantsWereCast
    <2>2. QED
        BY <1>1, <1>2, <2>1, NobodyAssumption DEF VotedFor, BallotStep
<1>5. ASSUME NEW l \in rpcs', NEW m \in rpcs', IsGrant(l), IsGrant(m),
             l.from = m.from, l.term = m.term
      PROVE  l.to = m.to
    <2>1. /\ l \in rpcs \/ (l.from = s /\ l.term = k.term /\ l.to = k.votedFor)
          /\ m \in rpcs \/ (m.from = s /\ m.term = k.term /\ m.to = k.votedFor)
        BY <1>5, GrantAfter
    <2>2. QED
        BY <1>4, <1>5, <2>1 DEF OneCountPerVote, GrantsAgree
<1>6. QED
    BY <1>3, <1>5 DEF GrantsWereCast, GrantsAgree, VotedFor

\* Of a vote that s casts in a term a candidate has counted already.
LEMMA RecastVote ==
    ASSUME TypeOK, OneCountPerVote, NEW s \in Server, NEW k \in NodeType, Shape(s, k),
           NEW c \in Standing, s \in node[c].votes, k.term = node[c].term
    PROVE  k.votedFor = c
<1>1. VotedFor(s, k.term, c) /\ c \in Server
    BY DEF OneCountPerVote, CountedVotesWereCast, Standing
<1>2. BallotStep(s, node[s], k) /\ node[s].term \in Nat /\ k.term \in Nat
    BY DEF Shape, TypeOK, NodeType
<1>3. QED
    BY <1>1, <1>2, NobodyAssumption DEF VotedFor, BallotStep

LEMMA GrantsAgreeWithCountsStep ==
    ASSUME TypeOK, OneCountPerVote, NEW s \in Server, NEW k \in NodeType, Shape(s, k)
    PROVE  GrantsAgreeWithCounts'
<1> SUFFICES ASSUME NEW m \in rpcs', IsGrant(m), NEW c \in Server, c \in Standing',
                    m.from \in node'[c].votes, m.term = node'[c].term
             PROVE  m.to = c
    BY StandingAfter DEF GrantsAgreeWithCounts
<1>1. node' = [node EXCEPT ![s] = k] /\ node'[s] = k /\ node[s].term \in Nat
    BY DEF Shape, TypeOK, NodeType
<1>2. /\ m.from \in Server /\ m.to \in Server /\ m.term \in Nat
      /\ m \in rpcs \/ (m.from = s /\ m.term = k.term /\ m.to = k.votedFor)
    BY GrantAfter
\* The vote was counted by c before the step.
<1>3. ASSUME c \in Standing, m.term = node[c].term, m.from \in node[c].votes
      PROVE  m.to = c
    <2>1. CASE m \in rpcs
        BY <1>3, <2>1 DEF OneCountPerVote, GrantsAgreeWithCounts
    <2>2. CASE m.from = s /\ m.term = k.term /\ m.to = k.votedFor
        BY <1>3, <2>2, RecastVote
    <2>3. QED
        BY <1>2, <2>1, <2>2
<1>4. CASE c = s /\ Stood(s, node[s], k)
    <2>1. m.from = s /\ m.term = node[s].term + 1 /\ k.votedFor = s
        BY <1>1, <1>4 DEF Stood
    <2>2. CASE m \in rpcs
        <3>1. VotedFor(s, m.term, m.to)
            BY <2>1, <2>2 DEF OneCountPerVote, GrantsWereCast
        <3>2. QED
            BY <1>1, <2>1, <3>1 DEF VotedFor
    <2>3. QED
        BY <1>2, <1>4, <2>1, <2>2
<1>5. CASE c = s /\ Counted(s, node[s], k)
    <2>1. PICK g \in rpcs : /\ IsGrant(g) /\ g.to = s /\ g.term = node[s].term
                            /\ node[s].role = "CANDIDATE" /\ k.term = node[s].term
                            /\ k.votes = node[s].votes \cup {g.from}
        BY <1>5 DEF Counted
    <2>2. m.term = node[s].term /\ s \in Standing
        BY <1>1, <1>5, <2>1 DEF Standing, Active
    <2>3. CASE m.from \in node[s].votes
        BY <1>3, <1>5, <2>2, <2>3
    <2>4. CASE m.from = g.from
        <3>1. CASE m \in rpcs
            BY <1>5, <2>1, <2>2, <2>4, <3>1 DEF OneCountPerVote, GrantsAgree
        <3>2. CASE m.from = s /\ m.term = k.term /\ m.to = k.votedFor
            <4>1. VotedFor(s, node[s].term, s)
                BY <2>1, <2>4, <3>2 DEF OneCountPerVote, GrantsWereCast
            <4>2. node[s].votedFor = s
                BY <1>1, <4>1 DEF VotedFor
            <4>3. k.votedFor = s
                BY <2>1, <4>2, NobodyAssumption DEF Shape, BallotStep
            <4>4. QED
                BY <1>5, <3>2, <4>3
        <3>3. QED
            BY <1>2, <3>1, <3>2
    <2>5. QED
        BY <1>1, <1>5, <2>1, <2>3, <2>4
<1>6. QED
    BY <1>3, <1>4, <1>5, StandingAfter

\* A vote that s comes to count is counted by nobody else.
LEMMA FreshVote ==
    ASSUME TypeOK, OneCountPerVote, NEW s \in Server, NEW k \in NodeType, Shape(s, k),
           Stood(s, node[s], k) \/ Counted(s, node[s], k),
           NEW d \in Standing, d # s, node[d].term = k.term
    PROVE  k.votes \cap node[d].votes = {}
<1>1. node[s].term \in Nat /\ d \in Server
    BY DEF TypeOK, NodeType, Standing
<1>2. CASE Stood(s, node[s], k)
    <2>1. k.votes = {s} /\ k.term = node[s].term + 1
        BY <1>2 DEF Stood
    <2>2. s \in node[d].votes => VotedFor(s, node[d].term, d)
        BY DEF OneCountPerVote, CountedVotesWereCast
    <2>3. ~VotedFor(s, node[d].term, d)
        BY <1>1, <2>1 DEF VotedFor
    <2>4. QED
        BY <2>1, <2>2, <2>3
<1>3. CASE Counted(s, node[s], k)
    <2>1. PICK g \in rpcs : /\ IsGrant(g) /\ g.to = s /\ g.term = node[s].term
                            /\ node[s].role = "CANDIDATE" /\ k.term = node[s].term
                            /\ k.votes = node[s].votes \cup {g.from}
        BY <1>3 DEF Counted
    <2>2. g.from \notin node[d].votes
        BY <2>1 DEF OneCountPerVote, GrantsAgreeWithCounts
    <2>3. node[s].votes \cap node[d].votes = {}
        <3>1. s \in Standing
            BY <2>1 DEF Standing, Active
        <3>2. QED
            BY <2>1, <3>1 DEF OneCountPerVote, CountsAreDisjoint
    <2>4. QED
        BY <2>1, <2>2, <2>3
<1>4. QED
    BY <1>2, <1>3

LEMMA CountsStep ==
    ASSUME TypeOK, OneCountPerVote, NEW s \in Server, NEW k \in NodeType, Shape(s, k)
    PROVE  CountsAreDisjoint'
<1> SUFFICES ASSUME NEW c \in Server, c \in Standing', NEW d \in Server, d \in Standing',
                    node'[c].term = node'[d].term, c # d
             PROVE  node'[c].votes \cap node'[d].votes = {}
    BY StandingAfter DEF CountsAreDisjoint
<1>1. node'[s] = k
    BY DEF Shape, TypeOK
<1> DEFINE Same(e) == /\ e \in Standing /\ node'[e].term = node[e].term
                      /\ node'[e].votes = node[e].votes
           New(e) == e = s /\ (Stood(s, node[s], k) \/ Counted(s, node[s], k))
<1>2. (Same(c) \/ New(c)) /\ (Same(d) \/ New(d))
    BY StandingAfter
<1>3. CASE Same(c) /\ Same(d)
    BY <1>3 DEF OneCountPerVote, CountsAreDisjoint
<1>4. CASE New(c) /\ Same(d)
    BY <1>1, <1>4, FreshVote
<1>5. CASE Same(c) /\ New(d)
    BY <1>1, <1>5, FreshVote
<1>6. QED
    BY <1>2, <1>3, <1>4, <1>5

LEMMA QuorumStep ==
    ASSUME TypeOK, OneCountPerVote, NEW s \in Server, NEW k \in NodeType, Shape(s, k)
    PROVE  LeadersHaveQuorum'
<1> SUFFICES ASSUME NEW c \in Server, node'[c].role = "LEADER"
             PROVE  Cardinality(node'[c].votes) >= QuorumSize
    BY DEF LeadersHaveQuorum, IsLeader, QuorumSize
<1>1. node'[s] = k /\ c \in Standing'
    BY DEF Shape, TypeOK, Standing, Active
<1>2. CASE c \in Standing /\ node'[c].votes = node[c].votes /\ IsLeader(c)
    BY <1>2 DEF OneCountPerVote, LeadersHaveQuorum
<1>3. CASE c = s /\ Stood(s, node[s], k)
    <2>1. node'[c].votes = {s} /\ QuorumSize = 1
        BY <1>1, <1>3 DEF Stood
    <2>2. Cardinality({s}) = 1
        BY FS_Singleton
    <2>3. QED
        BY <2>1, <2>2
<1>4. CASE c = s /\ Counted(s, node[s], k)
    BY <1>1, <1>4 DEF Counted
<1>5. QED
    BY <1>1, <1>2, <1>3, <1>4, StandingAfter DEF IsLeader

LEMMA OneCountPerVoteStep ==
    ASSUME TypeOK, OneCountPerVote, Next
    PROVE  OneCountPerVote'
<1>1. PICK s \in Server, k \in NodeType : Shape(s, k)
    BY NextShape
<1>2. CountedVotesWereCast'
    BY <1>1, CountedVotesStep
<1>3. GrantsWereCast' /\ GrantsAgree'
    BY <1>1, GrantsStep
<1>4. GrantsAgreeWithCounts'
    BY <1>1, GrantsAgreeWithCountsStep
<1>5. CountsAreDisjoint'
    BY <1>1, CountsStep
<1>6. LeadersHaveQuorum'
    BY <1>1, QuorumStep
<1>7. QED
    BY <1>2, <1>3, <1>4, <1>5, <1>6 DEF OneCountPerVote

\* Two quorums share a voter, so that two leaders of a term share a vote.
LEMMA OneLeader ==
    ASSUME TypeOK, OneCountPerVote
    PROVE  ElectionSafety
<1> SUFFICES ASSUME NEW s \in Server, NEW t \in Server, IsLeader(s), IsLeader(t),
                    node[s].term = node[t].term
             PROVE  s = t
    BY DEF ElectionSafety
<1> DEFINE P == node[s].votes
           Q == node[t].votes
<1>1. P \in SUBSET Server /\ Q \in SUBSET Server /\ IsFiniteSet(P) /\ IsFiniteSet(Q)
    BY ServerAssumption, FS_Subset DEF TypeOK, NodeType
<1>2. Cardinality(P) + Cardinality(Q) > Cardinality(Server)
    <2>1. Cardinality(P) >= QuorumSize /\ Cardinality(Q) >= QuorumSize
        BY DEF OneCountPerVote, LeadersHaveQuorum
    <2>2. Cardinality(P) \in Nat /\ Cardinality(Q) \in Nat /\ Cardinality(Server) \in Nat
        BY <1>1, FS_CardinalityType, ServerAssumption
    <2>3. QED
        BY <2>1, <2>2, QuorumSizeType
<1>3. P \cap Q # {}
    BY <1>1, <1>2, FS_MajoritiesIntersect, ServerAssumption
<1>4. s \in Standing /\ t \in Standing
    BY DEF IsLeader, Standing, Active
<1>5. QED
    BY <1>3, <1>4 DEF OneCountPerVote, CountsAreDisjoint

\* The invariant behind the elections: no vote is counted twice.
THEOREM VotesCountOnce == Spec => []OneCountPerVote
<1>1. Init => OneCountPerVote
    <2>1. ASSUME Init PROVE OneCountPerVote
        <3>1. rpcs = {} /\ \A s \in Server : node[s].role = "FOLLOWER"
            BY <2>1, InitType
        <3>2. Standing = {} /\ \A s \in Server : ~IsLeader(s)
            BY <3>1 DEF Standing, Active, IsLeader
        <3>3. CountedVotesWereCast /\ CountsAreDisjoint /\ LeadersHaveQuorum
            BY <3>2 DEF CountedVotesWereCast, CountsAreDisjoint, LeadersHaveQuorum
        <3>4. GrantsWereCast /\ GrantsAgree /\ GrantsAgreeWithCounts
            BY <3>1 DEF GrantsWereCast, GrantsAgree, GrantsAgreeWithCounts
        <3>5. QED
            BY <3>3, <3>4 DEF OneCountPerVote
    <2>2. QED
        BY <2>1
<1>2. TypeOK /\ OneCountPerVote /\ [Next]_vars => OneCountPerVote'
    <2>1. ASSUME TypeOK, OneCountPerVote, Next PROVE OneCountPerVote'
        BY <2>1, OneCountPerVoteStep
    <2>2. ASSUME OneCountPerVote, UNCHANGED vars PROVE OneCountPerVote'
        BY <2>2 DEF vars, OneCountPerVote, CountedVotesWereCast, GrantsWereCast, GrantsAgree,
            GrantsAgreeWithCounts, CountsAreDisjoint, LeadersHaveQuorum, Standing, IsLeader,
            VotedFor, QuorumSize
    <2>3. QED
        BY <2>1, <2>2
<1>3. QED
    BY <1>1, <1>2, TypeCorrect, PTL DEF Spec

\* At most one server is elected in a term, in every cluster, whatever is lost,
\* overtaken or restarted.
THEOREM OneLeaderPerTerm == Spec => []ElectionSafety
BY TypeCorrect, VotesCountOnce, OneLeader, PTL
-----------------------------------------------------------------------------
(* What the steps of the node do to its log.                               *)

NoOpOf(t) == [term |-> t, value |-> NoOp]

LEMMA ApplyEntriesLog ==
    ASSUME NEW n \in NodeType
    PROVE  ApplyEntries(n).log = n.log
BY DEF ApplyEntries, NodeType

LEMMA CheckCommitIndexLog ==
    ASSUME NEW n \in NodeType, NEW s \in Server
    PROVE  CheckCommitIndex(n, s).log = n.log
BY DEF CheckCommitIndex, ApplyEntries, NodeType

LEMMA ProgressLog ==
    ASSUME NEW n \in NodeType, NEW p \in Server, NEW i \in Nat
    PROVE  /\ UpdateProgress(n, p, i).log = n.log
           /\ BackOff(n, p, i).log = n.log
BY DEF UpdateProgress, BackOff, NodeType

LEMMA BecomeLeaderLog ==
    ASSUME NEW n \in NodeType, NEW s \in Server
    PROVE  BecomeLeader(n, s).log = Append(n.log, NoOpOf(n.term))
<1> DEFINE k   == TimerStop([n EXCEPT !.role = "LEADER", !.leader = s])
           led == InitLeaderProgress(k)
<1>1. k \in NodeType /\ k.log = n.log /\ k.term = n.term
    BY DEF TimerStop, NodeType, Roles, Timers
<1>2. led \in NodeType /\ led.log = k.log
    <2> HIDE DEF k
    <2>1. QED
        BY <1>1, ProgressType
<1>3. BecomeLeader(n, s) = [led EXCEPT !.log = Append(led.log, NoOpOf(n.term))]
    BY DEF BecomeLeader, NoOpOf
<1> HIDE DEF led, k
<1>4. QED
    BY <1>1, <1>2, <1>3 DEF NodeType

\* What standing for election does to a log: nothing, or what a new leader does.
StoodLog(n, k) ==
    \/ k.role # "LEADER" /\ k.log = n.log
    \/ k.role = "LEADER" /\ k.term = n.term + 1 /\ k.log = Append(n.log, NoOpOf(k.term))

LEMMA BecomeCandidateLog ==
    ASSUME NEW n \in NodeType, NEW s \in Server
    PROVE  StoodLog(n, BecomeCandidate(n, s))
<1> DEFINE t    == n.term + 1
           k    == [n EXCEPT !.role = "CANDIDATE", !.term = t, !.votedFor = s,
                             !.votes = {s}]
           cand == TimerReset(k)
<1>1. /\ k \in NodeType /\ k.role = "CANDIDATE" /\ k.term = t /\ k.log = n.log
    <2>1. t \in Nat
        BY DEF NodeType
    <2> HIDE DEF t
    <2>2. QED
        BY <2>1 DEF NodeType, Roles
<1>2. /\ cand \in NodeType /\ cand.role = "CANDIDATE" /\ cand.term = t
      /\ cand.log = n.log
    <2> HIDE DEF k
    <2>1. QED
        BY <1>1, TimersType DEF SameBallot
<1>3. BecomeCandidate(n, s) = IF QuorumSize = 1 THEN BecomeLeader(cand, s) ELSE cand
    BY DEF BecomeCandidate
<1> HIDE DEF cand, k
<1>4. /\ BecomeLeader(cand, s).role = "LEADER" /\ BecomeLeader(cand, s).term = t
      /\ BecomeLeader(cand, s).log = Append(n.log, NoOpOf(t))
    BY <1>2, BecomeLeaderType, BecomeLeaderLog
<1>5. QED
    BY <1>2, <1>3, <1>4 DEF StoodLog

LEMMA StartPreVoteLog ==
    ASSUME NEW n \in NodeType, NEW s \in Server
    PROVE  StoodLog(n, StartPreVote(n, s))
<1> DEFINE round == [term |-> n.term + 1, granted |-> {s}]
           pre   == [n EXCEPT !.role = "PRE_CANDIDATE", !.preVotes = Append(n.preVotes, round)]
<1>1. Append(n.preVotes, round) \in Seq(Round)
    BY AppendProperties DEF NodeType, Round
<1>2. /\ pre \in NodeType /\ pre.role = "PRE_CANDIDATE" /\ pre.term = n.term
      /\ pre.log = n.log
    BY <1>1 DEF NodeType, Roles
<1>3. StartPreVote(n, s) = IF QuorumSize = 1 THEN BecomeCandidate(pre, s) ELSE pre
    BY DEF StartPreVote
<1> HIDE DEF pre
<1>4. QED
    BY <1>2, <1>3, BecomeCandidateLog DEF StoodLog

-----------------------------------------------------------------------------
(* Every step of the specification moves one log in one of five ways.      *)

Keeps(n, k) == k.log = n.log /\ (k.role = "LEADER" => n.role = "LEADER" /\ k.term = n.term)

Loses(k) == k.log = <<>> /\ k.role # "LEADER"

Founds(n, k) == /\ k.role = "LEADER" /\ k.log = Append(n.log, NoOpOf(k.term))
                /\ \/ k.term = n.term + 1
                   \/ k.term = n.term /\ n.role = "CANDIDATE"

Extends(n, k) == /\ n.role = "LEADER" /\ k.role = "LEADER" /\ k.term = n.term
                 /\ \E v \in Value : k.log = Append(n.log, [term |-> k.term, value |-> v])

Merges(s, n, k) ==
    \E m \in rpcs :
        /\ m.type = "AppendEntries" /\ m.to = s /\ k.term = m.term
        /\ m.prevIndex > 0 => GetTerm(n.log, m.prevIndex) = m.prevTerm
        /\ k.log = MergeEntries(n.log, m.prevIndex, m.entries)
        /\ k.role = "LEADER" => n.role = "LEADER" /\ k.term = n.term

LogMove(s, n, k) ==
    Keeps(n, k) \/ Loses(k) \/ Founds(n, k) \/ Extends(n, k) \/ Merges(s, n, k)

\* Only leaders send entries, those they have after the step.
LogShape(s, k) ==
    /\ node' = [node EXCEPT ![s] = k]
    /\ LogMove(s, node[s], k)
    /\ \A m \in rpcs' \ rpcs : m.type = "AppendEntries" =>
            k.role = "LEADER" /\ m \in AppendRequests(k, s)

LEMMA SameLog ==
    ASSUME NEW s, NEW n, NEW k, SameBallot(n, k), k.log = n.log
    PROVE  LogMove(s, n, k)
BY DEF SameBallot, LogMove, Keeps

LEMMA StoodMove ==
    ASSUME NEW s, NEW n, NEW k, StoodLog(n, k)
    PROVE  LogMove(s, n, k)
BY DEF StoodLog, LogMove, Keeps, Founds

LEMMA AnnounceEntries ==
    ASSUME NEW s, NEW k, NEW m \in Announce(k, s), m.type = "AppendEntries"
    PROVE  k.role = "LEADER" /\ m \in AppendRequests(k, s)
BY DEF Announce, VoteRequests, VoteRequest

LEMMA StartLog ==
    ASSUME TypeOK, NEW s \in Server, Start(s)
    PROVE  \E k \in NodeType : LogShape(s, k)
<1> DEFINE k == Started(node[s])
<1>1. node[s] \in NodeType
    BY DEF TypeOK
<1>2. k \in NodeType /\ k.role = "FOLLOWER"
    BY <1>1, StartedType
<1>3. k.log = node[s].log
    BY <1>1 DEF Started, TimerStart, NodeType
<1>4. node' = [node EXCEPT ![s] = k] /\ rpcs' = rpcs
    BY DEF Start
<1> HIDE DEF k
<1>5. QED
    BY <1>2, <1>3, <1>4 DEF LogShape, LogMove, Keeps

LEMMA StopLog ==
    ASSUME TypeOK, NEW s \in Server, Stop(s)
    PROVE  \E k \in NodeType : LogShape(s, k)
<1> DEFINE n == node[s]
           k == [n EXCEPT !.running = FALSE, !.pending = {}, !.timer = "off"]
<1>1. n \in NodeType
    BY DEF TypeOK
<1>2. k \in NodeType /\ SameBallot(n, k) /\ k.log = n.log
    BY <1>1 DEF NodeType, SameBallot, Timers
<1>3. node' = [node EXCEPT ![s] = k] /\ rpcs' = rpcs
    BY <1>1 DEF Stop, TimerStop, NodeType
<1> HIDE DEF k
<1>4. QED
    BY <1>2, <1>3, SameLog DEF LogShape

LEMMA CrashLog ==
    ASSUME TypeOK, NEW s \in Server, Crash(s)
    PROVE  \E k \in NodeType : LogShape(s, k)
<1> DEFINE n == node[s]
           r == NewNode(n.term, n.votedFor, n.incarnation + 1)
           k == [r EXCEPT !.resolved = n.resolved]
<1>1. /\ n \in NodeType /\ n.term \in Nat /\ n.votedFor \in Server \cup {Nobody}
      /\ n.incarnation + 1 \in Nat /\ n.resolved \in SUBSET Settled
    BY DEF TypeOK, NodeType
<1>2. r.log = <<>> /\ r.role = "FOLLOWER"
    BY DEF NewNode
<1>3. r \in NodeType
    <2> DEFINE t == n.term
               v == n.votedFor
               i == n.incarnation + 1
    <2>1. t \in Nat /\ v \in Server \cup {Nobody} /\ i \in Nat /\ r = NewNode(t, v, i)
        BY <1>1
    <2> HIDE DEF t, v, i, r
    <2>2. QED
        BY <2>1, NewNodeType
<1>4. k \in NodeType /\ k.log = <<>> /\ k.role = "FOLLOWER"
    <2> HIDE DEF r
    <2>1. QED
        BY <1>1, <1>2, <1>3 DEF NodeType
<1>5. node' = [node EXCEPT ![s] = k] /\ rpcs' = rpcs
    BY DEF Crash, Reloaded
<1> HIDE DEF k
<1>6. QED
    BY <1>4, <1>5 DEF LogShape, LogMove, Loses

LEMMA ElectionTimeoutLog ==
    ASSUME TypeOK, NEW s \in Server, ElectionTimeout(s)
    PROVE  \E k \in NodeType : LogShape(s, k)
<1> DEFINE n     == node[s]
           fired == [n EXCEPT !.timer = "fired"]
           after == StartPreVote(fired, s)
<1>1. n \in NodeType
    BY DEF TypeOK
<1>2. fired \in NodeType /\ SameBallot(n, fired) /\ fired.log = n.log
    BY <1>1 DEF NodeType, SameBallot, Timers
<1>3. after \in NodeType /\ LogMove(s, n, after)
    <2> HIDE DEF fired
    <2>1. after \in NodeType /\ StoodLog(fired, after)
        BY <1>2, StartPreVoteType, StartPreVoteLog
    <2> HIDE DEF after
    <2>2. StoodLog(n, after)
        BY <1>2, <2>1 DEF StoodLog, SameBallot
    <2>3. QED
        BY <2>1, <2>2, StoodMove
<1>4. CASE n.running /\ n.role # "LEADER"
    <2>1. node' = [node EXCEPT ![s] = after] /\ rpcs' \subseteq rpcs \cup Announce(after, s)
        BY <1>4, SendAdds DEF ElectionTimeout
    <2> HIDE DEF after
    <2>2. LogShape(s, after)
        BY <1>3, <2>1, AnnounceEntries DEF LogShape
    <2>3. QED
        BY <1>3, <2>2
<1>5. CASE ~(n.running /\ n.role # "LEADER")
    <2>1. node' = [node EXCEPT ![s] = fired] /\ rpcs' = rpcs
        BY <1>5 DEF ElectionTimeout
    <2> HIDE DEF fired
    <2>2. QED
        BY <1>2, <2>1, SameLog DEF LogShape
<1>6. QED
    BY <1>4, <1>5

LEMMA HeartbeatLog ==
    ASSUME TypeOK, NEW s \in Server, Heartbeat(s)
    PROVE  \E k \in NodeType : LogShape(s, k)
<1> DEFINE n == node[s]
<1>1. n \in NodeType /\ n.role = "LEADER" /\ node' = [node EXCEPT ![s] = n]
    BY DEF Heartbeat, TypeOK
<1>2. rpcs' \subseteq rpcs \cup AppendRequests(n, s)
    BY SendAdds DEF Heartbeat
<1>3. LogMove(s, n, n)
    BY SameLog DEF SameBallot
<1>4. QED
    BY <1>1, <1>2, <1>3 DEF LogShape

LEMMA ProposeLog ==
    ASSUME TypeOK, NEW s \in Server, NEW v \in Value, Propose(s, v)
    PROVE  \E k \in NodeType : LogShape(s, k)
<1> DEFINE n        == node[s]
           entry    == [term |-> n.term, value |-> v]
           log      == Append(n.log, entry)
           appended == [n EXCEPT !.log = log]
           index    == Len(appended.log)
           proposal == [index |-> index, entry |-> entry]
           others   == {p \in n.pending : p.index # index}
           waiting  == [appended EXCEPT !.pending = others \cup {proposal}]
           after    == IF Peers(s) = {} THEN CheckCommitIndex(waiting, s) ELSE waiting
<1>1. n \in NodeType /\ n.role = "LEADER"
    BY DEF TypeOK, Propose
<1>2. entry \in Entry /\ log \in Seq(Entry) /\ Len(log) \in Nat \ {0}
    <2>1. entry \in Entry
        BY <1>1 DEF NodeType, Entry
    <2> HIDE DEF entry
    <2>2. n.log \in Seq(Entry) /\ Len(n.log) \in Nat
        BY <1>1, LenProperties DEF NodeType
    <2>3. QED
        BY <2>1, <2>2, AppendProperties
<1>3. appended \in NodeType /\ SameBallot(n, appended) /\ appended.log = log
      /\ appended.pending = n.pending
    <2> HIDE DEF log
    <2>1. QED
        BY <1>1, <1>2 DEF NodeType, SameBallot
<1>4. waiting \in NodeType /\ SameBallot(n, waiting) /\ waiting.log = log
    <2>1. proposal \in Proposal
        <3>1. index \in Nat \ {0}
            BY <1>2, <1>3
        <3> HIDE DEF index, entry
        <3>2. QED
            BY <1>2, <3>1 DEF Proposal
    <2>2. others \in SUBSET Proposal
        BY <1>1 DEF NodeType
    <2> HIDE DEF proposal, others, appended, log
    <2>3. QED
        BY <1>3, <2>1, <2>2 DEF NodeType, SameBallot
<1>5. /\ node' = [node EXCEPT ![s] = after]
      /\ rpcs' \subseteq rpcs \cup AppendRequests(waiting, s)
    <2>1. /\ node' = [node EXCEPT ![s] = after]
          /\ Send(rpcs, AppendRequests(waiting, s))
        BY DEF Propose
    <2> HIDE DEF after, waiting
    <2>2. QED
        BY <2>1, SendAdds
<1>6. after \in NodeType /\ SameBallot(n, after) /\ after.log = log
    <2> HIDE DEF waiting, log
    <2>1. QED
        BY <1>4, CheckCommitIndexType, CheckCommitIndexLog DEF SameBallot
<1>7. AppendRequests(waiting, s) = {} \/ after = waiting
    BY DEF AppendRequests
<1>8. LogMove(s, n, after)
    <2> HIDE DEF after
    <2>1. Extends(n, after)
        BY <1>1, <1>6 DEF Extends, SameBallot
    <2>2. QED
        BY <2>1 DEF LogMove
<1>9. after.role = "LEADER"
    <2> HIDE DEF after
    <2>1. QED
        BY <1>1, <1>6 DEF SameBallot
<1> HIDE DEF after, waiting
<1>10. QED
    BY <1>5, <1>6, <1>7, <1>8, <1>9 DEF LogShape

LEMMA HandleRequestVoteLog ==
    ASSUME TypeOK, NEW m \in rpcs, HandleRequestVote(m)
    PROVE  \E s \in Server, k \in NodeType : LogShape(s, k)
<1> DEFINE s == m.to
           C == m.term > node[s].term /\ ~m.preVote
           n == IF C THEN StepDown(node[s], m.term, Nobody) ELSE node[s]
           granted == m.term >= n.term /\ VoteIsFree(n, m) /\ LogUpToDate(n, m)
           voted == [n EXCEPT !.votedFor = m.from]
           k == IF granted /\ ~m.preVote THEN TimerReset(voted) ELSE n
           reply == [type |-> "RequestVoteReply", from |-> s, to |-> m.from,
                     preVote |-> m.preVote, term |-> n.term, granted |-> granted,
                     round |-> m.round, incarnation |-> m.incarnation]
           msgs == IF m.preVote /\ ~granted THEN {} ELSE {reply}
<1>1. /\ s \in Server /\ m.from \in Server /\ m.term \in Nat
      /\ node[s] \in NodeType
    BY DEF TypeOK, RpcType, VoteRequestType, AppendRequestType, VoteReplyType,
           AppendReplyType, HandleRequestVote
<1>2. n \in NodeType /\ n.log = node[s].log
      /\ (n.role = "LEADER" => node[s].role = "LEADER" /\ n.term = node[s].term)
    <2> DEFINE o == node[s]
               d == StepDown(o, m.term, Nobody)
    <2> HIDE DEF o
    <2>1. o \in NodeType
        BY <1>1 DEF o
    <2>2. d \in NodeType /\ d.role = "FOLLOWER"
        BY <1>1, <2>1, StepDownType
    <2>3. d.log = o.log
        BY <2>1 DEF StepDown, TimerStart, NodeType
    <2> HIDE DEF d
    <2>4. n = d \/ n = o
        BY DEF d, o
    <2>5. o = node[s]
        BY DEF o
    <2> HIDE DEF n
    <2>6. QED
        BY <2>1, <2>2, <2>3, <2>4, <2>5
<1>3. k \in NodeType /\ k.log = n.log /\ k.role = n.role /\ k.term = n.term
    <2> HIDE DEF n, granted
    <2>1. voted \in NodeType /\ voted.log = n.log /\ voted.role = n.role /\ voted.term = n.term
        BY <1>1, <1>2 DEF NodeType
    <2> HIDE DEF voted
    <2>2. QED
        BY <1>2, <2>1, TimersType DEF SameBallot
<1>4. LogMove(s, node[s], k)
    <2> HIDE DEF k, n
    <2>1. QED
        BY <1>2, <1>3 DEF LogMove, Keeps
<1>5. node' = [node EXCEPT ![s] = k] /\ \E rest \in Without(m) : Send(rest, msgs)
    BY DEF HandleRequestVote
<1>6. \A x \in msgs : x.type # "AppendEntries"
    OBVIOUS
<1> HIDE DEF k, n, msgs, s
<1>7. rpcs' \subseteq rpcs \cup msgs
    BY <1>5, SendAdds, WithoutKeeps
<1>8. QED
    BY <1>1, <1>3, <1>4, <1>5, <1>6, <1>7 DEF LogShape

LEMMA SettleLog ==
    ASSUME TypeOK, NEW m \in rpcs, m.to \in Server, NEW after \in NodeType,
           LogMove(m.to, node[m.to], after), Settle(m, after)
    PROVE  \E s \in Server, k \in NodeType : LogShape(s, k)
<1> DEFINE msgs == IF after.role # node[m.to].role THEN Announce(after, m.to) ELSE {}
<1>1. \A x \in msgs : x.type = "AppendEntries" =>
            after.role = "LEADER" /\ x \in AppendRequests(after, m.to)
    BY AnnounceEntries
<1>2. node' = [node EXCEPT ![m.to] = after] /\ \E rest \in Without(m) : Send(rest, msgs)
    BY DEF Settle
<1> HIDE DEF msgs
<1>3. rpcs' \subseteq rpcs \cup msgs
    BY <1>2, SendAdds, WithoutKeeps
<1>4. LogShape(m.to, after)
    BY <1>1, <1>2, <1>3 DEF LogShape
<1>5. QED
    BY <1>4

LEMMA HandlePreVoteReplyLog ==
    ASSUME TypeOK, NEW m \in rpcs, HandlePreVoteReply(m)
    PROVE  \E s \in Server, k \in NodeType : LogShape(s, k)
<1> DEFINE s == m.to
           n == node[s]
           set == n.preVotes[m.round].granted \cup {m.from}
           rounds == [n.preVotes EXCEPT ![m.round].granted = set]
           counted == [n EXCEPT !.preVotes = rounds]
           won == Cardinality(counted.preVotes[m.round].granted) >= QuorumSize
           after == IF n.role # "PRE_CANDIDATE" THEN n
                    ELSE IF won THEN BecomeCandidate(counted, s) ELSE counted
<1>1. m.type = "RequestVoteReply" /\ m.preVote
    BY DEF HandlePreVoteReply
<1>2. m.from \in Server /\ s \in Server /\ m.round \in Nat /\ n \in NodeType
    BY <1>1, VoteReplyFields
<1>3. rounds \in Seq(Round)
    <2>1. n.preVotes \in Seq(Round)
        BY <1>2 DEF NodeType
    <2>2. CASE m.round \in DOMAIN n.preVotes
        <3>1. n.preVotes[m.round] \in Round
            BY <2>1, <2>2, ElementOfSeq
        <3>2. [n.preVotes[m.round] EXCEPT !.granted = set] \in Round
            BY <1>2, <3>1 DEF Round
        <3>3. rounds = [n.preVotes EXCEPT ![m.round] = [n.preVotes[m.round] EXCEPT !.granted = set]]
            OBVIOUS
        <3>4. QED
            BY <2>1, <2>2, <3>2, <3>3, ExceptSeq
    <2>3. CASE m.round \notin DOMAIN n.preVotes
        <3>1. /\ DOMAIN n.preVotes = 1..Len(n.preVotes)
              /\ n.preVotes = [i \in 1..Len(n.preVotes) |-> n.preVotes[i]]
            BY <2>1, LenProperties
        <3>2. rounds = n.preVotes
            BY <2>3, <3>1
        <3>3. QED
            BY <2>1, <3>2
    <2>4. QED
        BY <2>2, <2>3
<1>4. counted \in NodeType /\ SameBallot(n, counted) /\ counted.log = n.log
    <2> HIDE DEF rounds, n
    <2>1. QED
        BY <1>2, <1>3 DEF NodeType, SameBallot
<1>5. Settle(m, after)
    BY DEF HandlePreVoteReply
<1> HIDE DEF counted
<1>6. BecomeCandidate(counted, s) \in NodeType /\ LogMove(s, n, BecomeCandidate(counted, s))
    <2> DEFINE k == BecomeCandidate(counted, s)
    <2>1. k \in NodeType /\ StoodLog(counted, k)
        BY <1>2, <1>4, BecomeCandidateType, BecomeCandidateLog
    <2> HIDE DEF k
    <2>2. StoodLog(n, k)
        BY <1>4, <2>1 DEF StoodLog, SameBallot
    <2>3. QED
        BY <2>1, <2>2, StoodMove DEF k
<1>7. LogMove(s, n, n) /\ LogMove(s, n, counted)
    BY <1>4, SameLog DEF SameBallot
<1>8. after \in NodeType /\ LogMove(s, n, after)
    <2> HIDE DEF won
    <2>1. QED
        BY <1>2, <1>4, <1>6, <1>7
<1> HIDE DEF after
<1>9. QED
    BY <1>2, <1>5, <1>8, SettleLog

LEMMA HandleVoteReplyLog ==
    ASSUME TypeOK, NEW m \in rpcs, HandleVoteReply(m)
    PROVE  \E s \in Server, k \in NodeType : LogShape(s, k)
<1> DEFINE s == m.to
           n == node[s]
           counted == [n EXCEPT !.votes = n.votes \cup {m.from}]
           counts  == m.granted /\ n.role = "CANDIDATE" /\ m.term = n.term
           won == Cardinality(counted.votes) >= QuorumSize
           after == IF ~n.running THEN n
                    ELSE IF m.term > n.term THEN StepDown(n, m.term, Nobody)
                    ELSE IF ~counts THEN n
                    ELSE IF won THEN BecomeLeader(counted, s)
                    ELSE counted
<1>1. m.type = "RequestVoteReply" /\ ~m.preVote
    BY DEF HandleVoteReply
<1>2. m.from \in Server /\ s \in Server /\ m.term \in Nat /\ n \in NodeType
    BY <1>1, VoteReplyFields
<1>3. /\ counted \in NodeType /\ counted.role = n.role /\ counted.term = n.term
      /\ counted.log = n.log
    <2> HIDE DEF n
    <2>1. QED
        BY <1>2 DEF NodeType
<1>4. Settle(m, after)
    BY DEF HandleVoteReply
<1>5. n \in NodeType /\ LogMove(s, n, n)
    BY <1>2, SameLog DEF SameBallot
<1>6. /\ StepDown(n, m.term, Nobody) \in NodeType
      /\ LogMove(s, n, StepDown(n, m.term, Nobody))
    <2> HIDE DEF n
    <2>1. StepDown(n, m.term, Nobody).log = n.log
        BY <1>2 DEF StepDown, TimerStart, NodeType
    <2>2. QED
        BY <1>2, <2>1, StepDownType DEF LogMove, Keeps
<1>7. counts => /\ BecomeLeader(counted, s) \in NodeType
                /\ LogMove(s, n, BecomeLeader(counted, s))
                /\ LogMove(s, n, counted)
    <2> DEFINE led == BecomeLeader(counted, s)
    <2> HIDE DEF counted
    <2>1. /\ led \in NodeType /\ led.role = "LEADER" /\ led.term = n.term
          /\ led.log = Append(n.log, NoOpOf(n.term))
        <3>1. counted \in NodeType /\ s \in Server
            BY <1>2, <1>3
        <3>2. /\ led \in NodeType /\ led.role = "LEADER" /\ led.term = counted.term
              /\ led.log = Append(counted.log, NoOpOf(counted.term))
            BY <3>1, BecomeLeaderType, BecomeLeaderLog
        <3> HIDE DEF led
        <3>3. QED
            BY <1>3, <3>2
    <2> HIDE DEF led
    <2>2. n.role = "CANDIDATE" => LogMove(s, n, led) /\ LogMove(s, n, counted)
        BY <1>3, <2>1 DEF LogMove, Founds, Keeps
    <2>3. QED
        BY <2>1, <2>2 DEF led
<1>8. after \in NodeType /\ LogMove(s, n, after)
    <2> HIDE DEF counted, counts, won, n
    <2>1. QED
        BY <1>3, <1>5, <1>6, <1>7
<1> HIDE DEF after
<1>9. QED
    BY <1>2, <1>4, <1>8, SettleLog

LEMMA HandleAppendReplyLog ==
    ASSUME TypeOK, NEW m \in rpcs, HandleAppendReply(m)
    PROVE  \E s \in Server, k \in NodeType : LogShape(s, k)
<1> DEFINE s == m.to
           n == node[s]
           moved == UpdateProgress(n, m.from, m.matchIndex)
           back == BackOff(n, m.from, m.conflictIndex)
           after == IF ~n.running THEN n
                    ELSE IF m.term > n.term THEN StepDown(n, m.term, Nobody)
                    ELSE IF n.role # "LEADER" THEN n
                    ELSE IF m.success THEN CheckCommitIndex(moved, s)
                    ELSE back
<1>1. m \in AppendReplyType
    BY DEF TypeOK, RpcType, HandleAppendReply, VoteRequestType, VoteReplyType,
           AppendRequestType
<1>2. /\ m.from \in Server /\ s \in Server /\ m.term \in Nat /\ m.matchIndex \in Nat
      /\ m.conflictIndex \in Nat
    BY <1>1 DEF AppendReplyType
<1>3. n \in NodeType
    BY <1>2 DEF TypeOK
<1>4. Settle(m, after)
    BY DEF HandleAppendReply
<1> HIDE DEF n
<1>5. LogMove(s, n, n)
    BY SameLog DEF SameBallot
<1>6. /\ StepDown(n, m.term, Nobody) \in NodeType
      /\ LogMove(s, n, StepDown(n, m.term, Nobody))
    <2>1. StepDown(n, m.term, Nobody).log = n.log
        BY <1>3 DEF StepDown, TimerStart, NodeType
    <2>2. QED
        BY <1>2, <1>3, <2>1, StepDownType DEF LogMove, Keeps
<1>7. CheckCommitIndex(moved, s) \in NodeType /\ LogMove(s, n, CheckCommitIndex(moved, s))
    <2>1. moved \in NodeType /\ SameBallot(n, moved) /\ moved.log = n.log
        BY <1>2, <1>3, ProgressType, ProgressLog
    <2> DEFINE k == CheckCommitIndex(moved, s)
    <2> HIDE DEF moved
    <2>2. k \in NodeType /\ SameBallot(moved, k) /\ k.log = moved.log
        BY <1>2, <2>1, CheckCommitIndexType, CheckCommitIndexLog
    <2> HIDE DEF k
    <2>3. QED
        BY <2>1, <2>2, SameLog DEF SameBallot, k
<1>8. back \in NodeType /\ LogMove(s, n, back)
    BY <1>2, <1>3, ProgressType, ProgressLog, SameLog
<1>9. after \in NodeType /\ LogMove(s, n, after)
    <2> HIDE DEF moved, back
    <2>1. QED
        BY <1>3, <1>5, <1>6, <1>7, <1>8
<1> HIDE DEF after
<1>10. QED
    BY <1>2, <1>4, <1>9, SettleLog DEF n

LEMMA HandleAppendEntriesLog ==
    ASSUME TypeOK, NEW m \in rpcs, HandleAppendEntries(m)
    PROVE  \E s \in Server, k \in NodeType : LogShape(s, k)
<1> DEFINE s == m.to
           C == m.term > node[s].term
           n == IF C THEN StepDown(node[s], m.term, m.from) ELSE node[s]
           led      == [n EXCEPT !.leader = m.from]
           heard    == TimerReset(led)
           log      == MergeEntries(heard.log, m.prevIndex, m.entries)
           merged   == [heard EXCEPT !.log = log]
           least    == Min({m.commit, Len(merged.log)})
           grown    == [merged EXCEPT !.commit = least]
           caughtUp == IF m.commit > merged.commit THEN ApplyEntries(grown) ELSE merged
           Reply(after, success, conflict) ==
               [type |-> "AppendEntriesReply", from |-> s, to |-> m.from,
                term |-> after.term, success |-> success,
                matchIndex |-> Len(after.log), conflictIndex |-> conflict,
                sentIn |-> m.term, incarnation |-> m.incarnation]
           Finish(after, success, conflict) ==
               /\ node' = [node EXCEPT ![s] = after]
               /\ \E rest \in Without(m) : Send(rest, {Reply(after, success, conflict)})
<1>1. m \in AppendRequestType /\ m.type = "AppendEntries"
    BY DEF TypeOK, RpcType, HandleAppendEntries, VoteRequestType, VoteReplyType,
           AppendReplyType
<1>2. /\ s \in Server /\ m.from \in Server /\ m.term \in Nat /\ m.prevIndex \in Nat
      /\ m.entries \in Seq(Entry) /\ m.commit \in Nat
    BY <1>1 DEF AppendRequestType
<1>3. node[s] \in NodeType /\ node[s].term \in Nat
    BY <1>2 DEF TypeOK, NodeType
<1>4. /\ n \in NodeType /\ n.log = node[s].log /\ m.term <= n.term
      /\ (n.role = "LEADER" => node[s].role = "LEADER" /\ n.term = node[s].term)
      /\ n.term = m.term \/ n.term = node[s].term
    <2>1. CASE C
        <3> DEFINE d == StepDown(node[s], m.term, m.from)
        <3>1. n = d
            BY <2>1
        <3>2. d.log = node[s].log
            BY <1>3 DEF StepDown, TimerStart, NodeType
        <3>3. d \in NodeType /\ d.role = "FOLLOWER" /\ d.term = m.term
            <4> DEFINE o == node[s]
                       t == m.term
                       l == m.from
            <4>1. o \in NodeType /\ t \in Nat /\ l \in Server \cup {Nobody}
                BY <1>2, <1>3
            <4>2. d = StepDown(o, t, l) /\ t = m.term
                OBVIOUS
            <4> HIDE DEF o, t, l, d
            <4>3. QED
                BY <4>1, <4>2, StepDownType
        <3> HIDE DEF d, n
        <3>4. QED
            BY <1>2, <3>1, <3>2, <3>3
    <2>2. CASE ~C
        BY <1>2, <1>3, <2>2
    <2>3. QED
        BY <2>1, <2>2
<1>5. heard \in NodeType /\ SameBallot(n, heard) /\ heard.log = n.log
    <2> HIDE DEF n
    <2>1. led \in NodeType /\ SameBallot(n, led) /\ led.log = n.log
        BY <1>2, <1>4 DEF NodeType, SameBallot
    <2> HIDE DEF led
    <2>2. QED
        BY <2>1, TimersType DEF SameBallot
<1>6. merged \in NodeType /\ SameBallot(n, merged) /\ merged.log = log
    <2> HIDE DEF heard, n
    <2>1. heard.log \in Seq(Entry)
        BY <1>5 DEF NodeType
    <2>2. log \in Seq(Entry)
        BY <1>2, <2>1, MergeEntriesType
    <2> HIDE DEF log
    <2>3. QED
        BY <1>5, <2>2 DEF NodeType, SameBallot
<1>7. caughtUp \in NodeType /\ SameBallot(n, caughtUp) /\ caughtUp.log = log
    <2> HIDE DEF merged, n, log
    <2>1. Len(merged.log) \in Nat
        BY <1>6, LenProperties DEF NodeType
    <2>2. least \in Nat /\ least <= Len(merged.log)
        BY <1>2, <2>1, MinOfTwo
    <2>3. /\ grown \in NodeType /\ SameBallot(merged, grown) /\ grown.commit <= Len(grown.log)
          /\ grown.log = merged.log
        <3> HIDE DEF least
        <3>1. QED
            BY <1>6, <2>2 DEF NodeType, SameBallot
    <2> HIDE DEF grown
    <2>4. /\ ApplyEntries(grown) \in NodeType /\ SameBallot(grown, ApplyEntries(grown))
          /\ ApplyEntries(grown).log = grown.log
        BY <2>3, ApplyEntriesType, ApplyEntriesLog
    <2>5. QED
        BY <1>6, <2>3, <2>4 DEF SameBallot
<1>8. ASSUME NEW after \in NodeType, NEW success, NEW conflict,
             Finish(after, success, conflict), LogMove(s, node[s], after)
      PROVE  LogShape(s, after)
    <2> DEFINE msgs == {Reply(after, success, conflict)}
    <2>1. node' = [node EXCEPT ![s] = after] /\ \E rest \in Without(m) : Send(rest, msgs)
        BY <1>8
    <2>2. \A x \in msgs : x.type # "AppendEntries"
        OBVIOUS
    <2> HIDE DEF msgs, s
    <2>3. rpcs' \subseteq rpcs \cup msgs
        BY <2>1, SendAdds, WithoutKeeps
    <2>4. QED
        BY <1>8, <2>1, <2>2, <2>3 DEF LogShape
<1>9. \/ Finish(n, FALSE, 0)
      \/ Finish(heard, FALSE, Max({1, Len(n.log)}))
      \/ m.term >= n.term /\ PrevMatches(n, m) /\ Finish(caughtUp, TRUE, 0)
    BY DEF HandleAppendEntries
<1>10. LogMove(s, node[s], n) /\ LogMove(s, node[s], heard)
    <2> HIDE DEF n, heard
    <2>1. QED
        BY <1>4, <1>5 DEF LogMove, Keeps, SameBallot
<1>11. ASSUME m.term >= n.term, PrevMatches(n, m)
       PROVE  LogMove(s, node[s], caughtUp)
    <2>1. log = MergeEntries(node[s].log, m.prevIndex, m.entries)
        <3> HIDE DEF n, heard
        <3>1. QED
            BY <1>4, <1>5
    <2>2. n.term \in Nat
        <3> HIDE DEF n
        <3>1. QED
            BY <1>4 DEF NodeType
    <2>3. m.prevIndex > 0 => GetTerm(node[s].log, m.prevIndex) = m.prevTerm
        <3> HIDE DEF n
        <3>1. QED
            BY <1>4, <1>11 DEF PrevMatches
    <2>4. caughtUp.term = m.term /\ caughtUp.role = n.role /\ n.term = m.term
        <3> HIDE DEF n, caughtUp
        <3>1. QED
            BY <1>2, <1>4, <1>7, <1>11, <2>2 DEF SameBallot
    <2> DEFINE k == caughtUp
    <2>5. k.log = MergeEntries(node[s].log, m.prevIndex, m.entries)
        BY <1>7, <2>1
    <2>6. k.role = "LEADER" => node[s].role = "LEADER" /\ k.term = node[s].term
        <3> HIDE DEF n, caughtUp
        <3>1. QED
            BY <1>4, <2>4
    <2> HIDE DEF k, n, caughtUp
    <2>7. Merges(s, node[s], k)
        BY <1>1, <2>3, <2>4, <2>5, <2>6 DEF Merges, k
    <2>8. QED
        BY <2>7 DEF LogMove, k
<1> HIDE DEF Finish, Reply, heard, caughtUp, n, s
<1>12. QED
    BY <1>2, <1>4, <1>5, <1>7, <1>8, <1>9, <1>10, <1>11

LEMMA NextLog ==
    ASSUME TypeOK, Next
    PROVE  \E s \in Server, k \in NodeType : LogShape(s, k)
<1>1. CASE \E s \in Server : Start(s)
    BY <1>1, StartLog
<1>2. CASE \E s \in Server : Stop(s)
    BY <1>2, StopLog
<1>3. CASE \E s \in Server : Crash(s)
    BY <1>3, CrashLog
<1>4. CASE \E s \in Server : ElectionTimeout(s)
    BY <1>4, ElectionTimeoutLog
<1>5. CASE \E s \in Server : Heartbeat(s)
    BY <1>5, HeartbeatLog
<1>6. CASE \E s \in Server, v \in Value : Propose(s, v)
    BY <1>6, ProposeLog
<1>7. CASE \E m \in rpcs : HandleRequestVote(m)
    BY <1>7, HandleRequestVoteLog
<1>8. CASE \E m \in rpcs : HandleAppendEntries(m)
    BY <1>8, HandleAppendEntriesLog
<1>9. CASE \E m \in rpcs : HandlePreVoteReply(m)
    BY <1>9, HandlePreVoteReplyLog
<1>10. CASE \E m \in rpcs : HandleVoteReply(m)
    BY <1>10, HandleVoteReplyLog
<1>11. CASE \E m \in rpcs : HandleAppendReply(m)
    BY <1>11, HandleAppendReplyLog
<1>12. QED
    BY <1>1, <1>2, <1>3, <1>4, <1>5, <1>6, <1>7, <1>8, <1>9, <1>10, <1>11 DEF Next

-----------------------------------------------------------------------------
(* The votes on record.                                                    *)

HistoryType ==
    /\ cast \in [Server -> [Nat -> Server \cup {Nobody}]]
    /\ reign \in [Nat -> Seq(Entry)]

VotesOnRecord == /\ HistoryType /\ VotesRecorded /\ CountsRecorded /\ GrantsRecorded
                 /\ TermsBegin

LEMMA RememberType ==
    ASSUME TypeOK', HistoryType, Remember
    PROVE  HistoryType'
<1>1. \A v \in Server : /\ node'[v].votedFor \in Server \cup {Nobody}
                         /\ node'[v].log \in Seq(Entry)
    BY DEF TypeOK, NodeType
<1>2. cast' \in [Server -> [Nat -> Server \cup {Nobody}]]
    BY <1>1 DEF HistoryType, Remember
<1>3. reign' \in [Nat -> Seq(Entry)]
    <2>1. ASSUME NEW t \in Nat
          PROVE  (IF Leaders(t)' = {} THEN reign[t]
                  ELSE node'[CHOOSE s \in Server : s \in Leaders(t)'].log) \in Seq(Entry)
        <3>1. CASE Leaders(t)' = {}
            BY <3>1 DEF HistoryType
        <3>2. CASE Leaders(t)' # {}
            <4>1. \E s \in Server : s \in Leaders(t)'
                BY <3>2 DEF Leaders
            <4>2. (CHOOSE s \in Server : s \in Leaders(t)') \in Server
                BY <4>1
            <4>3. QED
                BY <1>1, <3>2, <4>2
        <3>3. QED
            BY <3>1, <3>2
    <2>2. QED
        BY <2>1 DEF Remember
<1>4. QED
    BY <1>2, <1>3 DEF HistoryType

\* A vote that was cast stays on record.
LEMMA CastStays ==
    ASSUME TypeOK, VotesOnRecord, NEW s \in Server, NEW k \in NodeType, Shape(s, k), Remember,
           NEW v \in Server, NEW t \in Nat, cast[v][t] # Nobody
    PROVE  cast'[v][t] = cast[v][t]
<1>1. /\ node' = [node EXCEPT ![s] = k] /\ node \in [Server -> NodeType]
      /\ node[v].term \in Nat /\ node'[v].term \in Nat
    BY DEF Shape, TypeOK, NodeType
<1>2. t <= node[v].term /\ (t = node[v].term => cast[v][t] = node[v].votedFor)
    BY <1>1 DEF VotesOnRecord, VotesRecorded
<1>3. /\ node'[v].term >= node[v].term
      /\ node'[v].term = node[v].term /\ node[v].votedFor # Nobody
            => node'[v].votedFor = node[v].votedFor
    BY <1>1 DEF Shape, BallotStep
<1>4. cast'[v][t] = IF t = node'[v].term THEN node'[v].votedFor ELSE cast[v][t]
    BY DEF Remember
<1>5. QED
    BY <1>1, <1>2, <1>3, <1>4

LEMMA VotesRecordedStep ==
    ASSUME TypeOK, VotesOnRecord, NEW s \in Server, NEW k \in NodeType, Shape(s, k), Remember
    PROVE  VotesRecorded'
<1> SUFFICES ASSUME NEW v \in Server
             PROVE  /\ cast'[v][node'[v].term] = node'[v].votedFor
                    /\ \A t \in Nat : t > node'[v].term => cast'[v][t] = Nobody
    BY DEF VotesRecorded
<1>1. /\ node' = [node EXCEPT ![s] = k] /\ node \in [Server -> NodeType]
      /\ node[v].term \in Nat /\ node'[v].term \in Nat
    BY DEF Shape, TypeOK, NodeType
<1>2. node'[v].term >= node[v].term
    BY <1>1 DEF Shape, BallotStep
<1>3. \A t \in Nat : cast'[v][t] = IF t = node'[v].term THEN node'[v].votedFor ELSE cast[v][t]
    BY DEF Remember
<1>4. QED
    BY <1>1, <1>2, <1>3 DEF VotesOnRecord, VotesRecorded

LEMMA CountsRecordedStep ==
    ASSUME TypeOK, VotesOnRecord, NEW s \in Server, NEW k \in NodeType, Shape(s, k), Remember
    PROVE  CountsRecorded' /\ TermsBegin'
<1>1. ASSUME NEW c \in Standing', NEW v \in node'[c].votes
      PROVE  cast'[v][node'[c].term] = c
    <2>1. /\ c \in Server /\ v \in Server /\ node'[c].term \in Nat
          /\ node'[s] = k
        BY <1>1, StandingAfter DEF Shape, TypeOK
    <2>2. c # Nobody
        BY <2>1, NobodyAssumption
    <2>3. CASE /\ c \in Standing /\ node'[c].term = node[c].term
               /\ node'[c].votes = node[c].votes
        <3>1. cast[v][node[c].term] = c
            BY <1>1, <2>3 DEF VotesOnRecord, CountsRecorded
        <3>2. QED
            BY <2>1, <2>2, <2>3, <3>1, CastStays
    <2>4. CASE c = s /\ Stood(s, node[s], k)
        <3>1. v = s /\ node'[s].votedFor = s
            BY <1>1, <2>1, <2>4 DEF Stood
        <3>2. QED
            BY <2>1, <2>4, <3>1 DEF Remember
    <2>5. CASE c = s /\ Counted(s, node[s], k)
        <3>1. PICK m \in rpcs : /\ IsGrant(m) /\ m.to = s /\ m.term = node[s].term
                                /\ node[s].role = "CANDIDATE" /\ k.term = node[s].term
                                /\ k.votes = node[s].votes \cup {m.from}
            BY <2>5 DEF Counted
        <3>2. cast[m.from][m.term] = s
            BY <3>1 DEF VotesOnRecord, GrantsRecorded
        <3>3. s \in Standing
            BY <3>1 DEF Standing, Active
        <3>4. cast[v][node[s].term] = s
            <4>1. v = m.from \/ v \in node[s].votes
                BY <1>1, <2>1, <2>5, <3>1
            <4>2. QED
                BY <3>1, <3>2, <3>3, <4>1 DEF VotesOnRecord, CountsRecorded
        <3>5. QED
            BY <2>1, <2>2, <2>5, <3>1, <3>4, CastStays
    <2>6. QED
        BY <2>3, <2>4, <2>5, StandingAfter
<1>2. ASSUME NEW c \in Standing'
      PROVE  node'[c].term > 0
    <2>1. c \in Server /\ node'[c].term \in Nat /\ node'[s] = k /\ node[s].term \in Nat
        <3>1. c \in Server /\ node'[s] = k
            BY <1>2, StandingAfter DEF Shape, TypeOK
        <3>2. node' \in [Server -> NodeType] /\ node[s].term \in Nat
            BY DEF Shape, TypeOK, NodeType
        <3>3. QED
            BY <3>1, <3>2 DEF NodeType
    <2>2. CASE c \in Standing /\ node'[c].term = node[c].term
        BY <2>2 DEF VotesOnRecord, TermsBegin
    <2>3. CASE c = s /\ Stood(s, node[s], k)
        BY <2>1, <2>3 DEF Stood
    <2>4. CASE c = s /\ Counted(s, node[s], k)
        BY <2>1, <2>4 DEF Counted, VotesOnRecord, TermsBegin, Standing, Active
    <2>5. QED
        BY <2>2, <2>3, <2>4, StandingAfter
<1>3. QED
    BY <1>1, <1>2 DEF CountsRecorded, TermsBegin

LEMMA GrantsRecordedStep ==
    ASSUME TypeOK, VotesOnRecord, NEW s \in Server, NEW k \in NodeType, Shape(s, k), Remember
    PROVE  GrantsRecorded'
<1> SUFFICES ASSUME NEW m \in rpcs', IsGrant(m)
             PROVE  cast'[m.from][m.term] = m.to
    BY DEF GrantsRecorded, IsGrant
<1>1. /\ m.from \in Server /\ m.to \in Server /\ m.term \in Nat /\ m.to # Nobody
      /\ m \in rpcs \/ (m.from = s /\ m.term = k.term /\ m.to = k.votedFor)
    BY GrantAfter, NobodyAssumption
<1>2. CASE m \in rpcs
    <2>1. cast[m.from][m.term] = m.to
        BY <1>2 DEF VotesOnRecord, GrantsRecorded
    <2>2. QED
        BY <1>1, <2>1, CastStays
<1>3. CASE m.from = s /\ m.term = k.term /\ m.to = k.votedFor
    <2>1. node'[s] = k
        BY DEF Shape, TypeOK
    <2>2. QED
        BY <1>1, <1>3, <2>1 DEF Remember
<1>4. QED
    BY <1>1, <1>2, <1>3

LEMMA VotesOnRecordStep ==
    ASSUME TypeOK, TypeOK', VotesOnRecord, NEW s \in Server, NEW k \in NodeType, Shape(s, k),
           Remember
    PROVE  VotesOnRecord'
<1>1. HistoryType'
    BY RememberType DEF VotesOnRecord
<1>2. VotesRecorded'
    BY VotesRecordedStep
<1>3. CountsRecorded' /\ TermsBegin'
    BY CountsRecordedStep
<1>4. GrantsRecorded'
    BY GrantsRecordedStep
<1>5. QED
    BY <1>1, <1>2, <1>3, <1>4 DEF VotesOnRecord

\* The votes on record elect one server in a term, for all time.
LEMMA ElectedOnce ==
    ASSUME NEW t \in Nat, NEW a \in Server, NEW b \in Server, Elected(t, a), Elected(t, b)
    PROVE  a = b
<1> DEFINE P == {v \in Server : cast[v][t] = a}
           Q == {v \in Server : cast[v][t] = b}
<1>1. P \in SUBSET Server /\ Q \in SUBSET Server /\ IsFiniteSet(P) /\ IsFiniteSet(Q)
    BY ServerAssumption, FS_Subset
<1>2. Cardinality(P) >= QuorumSize /\ Cardinality(Q) >= QuorumSize
    BY DEF Elected
<1> HIDE DEF P, Q
<1>3. Cardinality(P) \in Nat /\ Cardinality(Q) \in Nat /\ Cardinality(Server) \in Nat
    BY <1>1, FS_CardinalityType, ServerAssumption
<1>4. P \cap Q # {}
    BY <1>1, <1>2, <1>3, QuorumSizeType, FS_MajoritiesIntersect, ServerAssumption
<1>5. QED
    BY <1>4 DEF P, Q

LEMMA ElectedStays ==
    ASSUME TypeOK, VotesOnRecord, NEW s \in Server, NEW k \in NodeType, Shape(s, k), Remember,
           NEW t \in Nat, NEW c \in Server, Elected(t, c)
    PROVE  Elected(t, c)'
<1> DEFINE P == {v \in Server : cast[v][t] = c}
           Q == {v \in Server : cast'[v][t] = c}
<1>1. P \in SUBSET Q
    BY CastStays, NobodyAssumption
<1>2. IsFiniteSet(Q)
    BY ServerAssumption, FS_Subset
<1>3. Cardinality(P) >= QuorumSize
    BY DEF Elected
<1>4. QED
    <2> HIDE DEF P, Q
    <2>1. Cardinality(P) <= Cardinality(Q) /\ Cardinality(P) \in Nat /\ Cardinality(Q) \in Nat
        BY <1>1, <1>2, FS_Subset, FS_CardinalityType
    <2>2. Cardinality(Q) >= QuorumSize
        BY <1>3, <2>1, QuorumSizeType
    <2>3. QED
        BY <2>2 DEF Elected, Q, QuorumSize

LEMMA LeadersElected ==
    ASSUME TypeOK, OneCountPerVote, VotesOnRecord, NEW s \in Server, IsLeader(s)
    PROVE  Elected(node[s].term, s)
<1> DEFINE P == node[s].votes
           Q == {v \in Server : cast[v][node[s].term] = s}
<1>1. s \in Standing /\ P \in SUBSET Server
    BY DEF Standing, Active, IsLeader, TypeOK, NodeType
<1>2. P \in SUBSET Q
    BY <1>1 DEF VotesOnRecord, CountsRecorded
<1>3. Cardinality(P) >= QuorumSize
    BY DEF OneCountPerVote, LeadersHaveQuorum
<1>4. IsFiniteSet(Q)
    BY ServerAssumption, FS_Subset
<1>5. QED
    <2> HIDE DEF P, Q
    <2>1. Cardinality(P) <= Cardinality(Q) /\ Cardinality(P) \in Nat /\ Cardinality(Q) \in Nat
        BY <1>2, <1>4, FS_Subset, FS_CardinalityType
    <2>2. Cardinality(Q) >= QuorumSize
        BY <1>3, <2>1, QuorumSizeType
    <2>3. QED
        BY <2>2 DEF Elected, Q

-----------------------------------------------------------------------------
(* The elections on record, and how a step moves them.                     *)

OneElected ==
    \A t \in Nat, a \in Server, b \in Server : Elected(t, a) /\ Elected(t, b) => a = b

LeadersWereElected == \A s \in Server : IsLeader(s) => Elected(node[s].term, s)

Elections ==
    TypeOK /\ VotesOnRecord /\ ElectionSafety /\ OneElected /\ LeadersWereElected

\* Elections stay, terms do not fall, and a candidacy begins with its term.
ElectionMove ==
    /\ \A t \in Nat, c \in Server : Elected(t, c) => Elected(t, c)'
    /\ \A c \in Server :
            /\ node'[c].term >= node[c].term
            /\ node'[c].role = "CANDIDATE" /\ node'[c].term = node[c].term
                    => node[c].role = "CANDIDATE"

LEMMA ElectionsFollow ==
    ASSUME TypeOK, OneCountPerVote, VotesOnRecord
    PROVE  Elections
<1>1. OneElected
    BY ElectedOnce DEF OneElected
<1>2. LeadersWereElected
    BY LeadersElected DEF LeadersWereElected
<1>3. QED
    BY <1>1, <1>2, OneLeader DEF Elections

LEMMA NextElectionMove ==
    ASSUME TypeOK, VotesOnRecord, Next, Remember
    PROVE  ElectionMove
<1>1. PICK s \in Server, k \in NodeType : Shape(s, k)
    BY NextShape
<1>2. \A t \in Nat, c \in Server : Elected(t, c) => Elected(t, c)'
    BY <1>1, ElectedStays
<1>3. ASSUME NEW c \in Server
      PROVE  /\ node'[c].term >= node[c].term
             /\ node'[c].role = "CANDIDATE" /\ node'[c].term = node[c].term
                    => node[c].role = "CANDIDATE"
    <2>1. /\ node' = [node EXCEPT ![s] = k] /\ node \in [Server -> NodeType]
          /\ node[c].term \in Nat /\ BallotStep(s, node[s], k)
        BY <1>1 DEF Shape, TypeOK, NodeType
    <2>2. CASE c # s
        BY <2>1, <2>2
    <2>3. CASE c = s
        BY <2>1, <2>3 DEF BallotStep, Stood, Counted, Active
    <2>4. QED
        BY <2>2, <2>3
<1>4. QED
    BY <1>2, <1>3 DEF ElectionMove

-----------------------------------------------------------------------------
(* The reigns: the log of a leader is that of its term, and only grows.    *)

LogStep(s, k) ==
    /\ Elections /\ Elections' /\ ElectionMove
    /\ LogsOnRecord
    /\ LogShape(s, k) /\ Remember

LEMMA StepTypes ==
    ASSUME NEW s \in Server, NEW k \in NodeType, LogStep(s, k)
    PROVE  /\ node \in [Server -> NodeType] /\ node' = [node EXCEPT ![s] = k]
           /\ node' \in [Server -> NodeType] /\ node'[s] = k
           /\ reign \in [Nat -> Seq(Entry)] /\ reign' \in [Nat -> Seq(Entry)]
           /\ \A c \in Server : /\ node[c].term \in Nat /\ node'[c].term \in Nat
                                 /\ node[c].log \in Seq(Entry) /\ node'[c].log \in Seq(Entry)
<1>1. TypeOK /\ TypeOK' /\ HistoryType /\ HistoryType'
    BY DEF LogStep, Elections, VotesOnRecord
<1>2. node' = [node EXCEPT ![s] = k]
    BY DEF LogStep, LogShape
<1>3. node \in [Server -> NodeType] /\ node' \in [Server -> NodeType]
    BY <1>1 DEF TypeOK
<1>4. \A n \in NodeType : n.term \in Nat /\ n.log \in Seq(Entry)
    BY DEF NodeType
<1>5. QED
    BY <1>1, <1>2, <1>3, <1>4 DEF HistoryType

LEMMA LeadersReignStep ==
    ASSUME NEW s \in Server, NEW k \in NodeType, LogStep(s, k)
    PROVE  LeadersReign'
<1> SUFFICES ASSUME NEW c \in Server, node'[c].role = "LEADER"
             PROVE  reign'[node'[c].term] = node'[c].log
    BY DEF LeadersReign, IsLeader
<1> DEFINE t == node'[c].term
<1>1. t \in Nat
    BY StepTypes
<1>2. c \in {x \in Server : node'[x].role = "LEADER" /\ node'[x].term = t}
    OBVIOUS
<1>3. reign'[t] = IF {x \in Server : node'[x].role = "LEADER" /\ node'[x].term = t} = {}
                  THEN reign[t]
                  ELSE node'[CHOOSE y \in Server : y \in
                        {x \in Server : node'[x].role = "LEADER" /\ node'[x].term = t}].log
    BY <1>1 DEF LogStep, Remember, Leaders, IsLeader
<1>4. \A x \in Server : node'[x].role = "LEADER" /\ node'[x].term = t => x = c
    BY DEF LogStep, Elections, ElectionSafety, IsLeader
<1>5. QED
    BY <1>2, <1>3, <1>4

\* What is on record of a term stays, or is what its leader has now.
LEMMA ReignAfter ==
    ASSUME NEW s \in Server, NEW k \in NodeType, LogStep(s, k), NEW t \in Nat
    PROVE  \/ reign'[t] = reign[t]
           \/ \E c \in Server : /\ node'[c].role = "LEADER" /\ node'[c].term = t
                                 /\ reign'[t] = node'[c].log
<1> DEFINE L == {x \in Server : node'[x].role = "LEADER" /\ node'[x].term = t}
<1>1. reign'[t] = IF L = {} THEN reign[t] ELSE node'[CHOOSE y \in Server : y \in L].log
    BY DEF LogStep, Remember, Leaders, IsLeader
<1>2. CASE L = {}
    BY <1>1, <1>2
<1>3. CASE L # {}
    <2>1. PICK c \in Server : c \in L
        BY <1>3
    <2>2. reign'[node'[c].term] = node'[c].log
        BY <2>1, LeadersReignStep DEF LeadersReign, IsLeader
    <2>3. QED
        BY <2>1, <2>2
<1>4. QED
    BY <1>2, <1>3

\* Nobody sends entries to the leader of their term: it would have to be another.
LEMMA NoLeaderMerges ==
    ASSUME NEW s \in Server, NEW k \in NodeType, LogStep(s, k), Merges(s, node[s], k)
    PROVE  k.role # "LEADER"
<1> SUFFICES ASSUME k.role = "LEADER"
             PROVE  FALSE
    OBVIOUS
<1>1. PICK m \in rpcs : /\ m.type = "AppendEntries" /\ m.to = s /\ k.term = m.term
                        /\ node[s].role = "LEADER" /\ k.term = node[s].term
    BY DEF Merges
<1>2. m.from \in Server /\ m.term \in Nat
    BY <1>1 DEF LogStep, Elections, TypeOK, RpcType, VoteRequestType, AppendRequestType,
                VoteReplyType, AppendReplyType
<1>3. Elected(m.term, m.from) /\ m.from # s
    BY <1>1 DEF LogStep, LogsOnRecord, RequestsFollow
<1>4. Elected(m.term, s)
    BY <1>1 DEF LogStep, Elections, LeadersWereElected, IsLeader
<1>5. QED
    BY <1>2, <1>3, <1>4 DEF LogStep, Elections, OneElected

\* A term has no second reign: who founds one was not elected in it before.
LEMMA FoundsFresh ==
    ASSUME NEW s \in Server, NEW k \in NodeType, LogStep(s, k), Founds(node[s], k)
    PROVE  reign[k.term] = <<>>
<1> SUFFICES ASSUME reign[k.term] # <<>>
             PROVE  FALSE
    OBVIOUS
<1>1. node'[s] = k /\ k.term \in Nat /\ node[s].term \in Nat
    BY StepTypes DEF NodeType
<1>2. PICK c \in Server : /\ Elected(k.term, c) /\ node[c].term >= k.term
                          /\ node[c].term = k.term => node[c].role # "CANDIDATE"
    BY <1>1 DEF LogStep, LogsOnRecord, ReignsWereElected
<1>3. Elected(k.term, c)'
    BY <1>1, <1>2 DEF LogStep, ElectionMove
<1>4. Elected(k.term, s)'
    BY <1>1 DEF LogStep, Elections, LeadersWereElected, IsLeader, Founds
<1>5. c = s
    BY <1>1, <1>3, <1>4 DEF LogStep, Elections, OneElected
<1>6. QED
    BY <1>1, <1>2, <1>5 DEF Founds

\* A reign stays, begins, or grows by an entry of its term.
LEMMA ReignStep ==
    ASSUME NEW s \in Server, NEW k \in NodeType, LogStep(s, k), NEW t \in Nat
    PROVE  \/ reign'[t] = reign[t]
           \/ reign[t] = <<>>
           \/ \E e \in Entry : reign'[t] = Append(reign[t], e)
<1>1. CASE reign'[t] = reign[t]
    BY <1>1
<1>2. ASSUME NEW c \in Server, node'[c].role = "LEADER", node'[c].term = t,
             reign'[t] = node'[c].log, c # s
      PROVE  reign'[t] = reign[t]
    <2>1. node'[c] = node[c]
        BY <1>2, StepTypes
    <2>2. reign[node[c].term] = node[c].log
        BY <1>2, <2>1 DEF LogStep, LogsOnRecord, LeadersReign, IsLeader
    <2>3. QED
        BY <1>2, <2>1, <2>2
<1>3. ASSUME k.role = "LEADER", k.term = t, reign'[t] = k.log
      PROVE  \/ reign'[t] = reign[t]
             \/ reign[t] = <<>>
             \/ \E e \in Entry : reign'[t] = Append(reign[t], e)
    <2>1. LogMove(s, node[s], k) /\ LeadersReign
        BY DEF LogStep, LogShape, LogsOnRecord
    <2>2. CASE Keeps(node[s], k)
        BY <1>3, <2>1, <2>2 DEF Keeps, LeadersReign, IsLeader
    <2>3. CASE Loses(k)
        BY <1>3, <2>3 DEF Loses
    <2>4. CASE Founds(node[s], k)
        BY <1>3, <2>4, FoundsFresh
    <2>5. CASE Extends(node[s], k)
        <3>1. PICK v \in Value : k.log = Append(node[s].log, [term |-> t, value |-> v])
            BY <1>3, <2>5 DEF Extends
        <3>2. reign[t] = node[s].log
            BY <1>3, <2>1, <2>5 DEF Extends, LeadersReign, IsLeader
        <3>3. [term |-> t, value |-> v] \in Entry
            BY DEF Entry
        <3>4. QED
            BY <1>3, <3>1, <3>2, <3>3
    <2>6. CASE Merges(s, node[s], k)
        BY <1>3, <2>6, NoLeaderMerges
    <2>7. QED
        BY <2>1, <2>2, <2>3, <2>4, <2>5, <2>6 DEF LogMove
<1>4. CASE \E c \in Server : /\ node'[c].role = "LEADER" /\ node'[c].term = t
                               /\ reign'[t] = node'[c].log
    <2>1. PICK c \in Server : /\ node'[c].role = "LEADER" /\ node'[c].term = t
                              /\ reign'[t] = node'[c].log
        BY <1>4
    <2>2. CASE c = s
        <3>1. node'[c] = k
            BY <2>2, StepTypes
        <3>2. QED
            BY <1>3, <2>1, <3>1
    <2>3. QED
        BY <1>2, <2>1, <2>2
<1>5. QED
    BY <1>1, <1>4, ReignAfter

LEMMA ReignGrows ==
    ASSUME NEW s \in Server, NEW k \in NodeType, LogStep(s, k), NEW t \in Nat,
           NEW i \in 1..Len(reign[t])
    PROVE  i <= Len(reign'[t]) /\ reign'[t][i] = reign[t][i]
<1>1. reign[t] \in Seq(Entry)
    BY StepTypes
<1>2. CASE reign'[t] = reign[t]
    BY <1>1, <1>2, LenProperties
<1>3. CASE reign[t] = <<>>
    BY <1>3
<1>4. ASSUME NEW e \in Entry, reign'[t] = Append(reign[t], e)
      PROVE  i <= Len(reign'[t]) /\ reign'[t][i] = reign[t][i]
    BY <1>1, <1>4, AppendProperties, LenProperties
<1>5. QED
    BY <1>2, <1>3, <1>4, ReignStep

-----------------------------------------------------------------------------
(* What follows the reigns follows them after every step.                  *)

LEMMA FollowsGrows ==
    ASSUME NEW s \in Server, NEW k \in NodeType, LogStep(s, k),
           NEW log \in Seq(Entry), Follows(log, reign)
    PROVE  Follows(log, reign')
<1> SUFFICES ASSUME NEW i \in 1..Len(log)
             PROVE  /\ log[i].term > 0
                    /\ i <= Len(reign'[log[i].term])
                    /\ \A j \in 1..i : log[j] = reign'[log[i].term][j]
    BY DEF Follows
<1> DEFINE t == log[i].term
<1>1. t \in Nat
    <2>1. log[i] \in Entry
        BY ElementOfSeq
    <2>2. QED
        BY <2>1 DEF Entry
<1>2. t > 0 /\ i <= Len(reign[t]) /\ \A j \in 1..i : log[j] = reign[t][j]
    BY DEF Follows
<1> HIDE DEF t
<1>3. reign[t] \in Seq(Entry) /\ Len(reign[t]) \in Nat /\ Len(log) \in Nat
    BY <1>1, StepTypes, LenProperties
<1>4. \A j \in 1..i : j \in 1..Len(reign[t])
    BY <1>2, <1>3
<1>5. \A j \in 1..i : j <= Len(reign'[t]) /\ reign'[t][j] = reign[t][j]
    BY <1>1, <1>4, ReignGrows
<1>6. i \in 1..i
    BY <1>3
<1>7. t > 0 /\ i <= Len(reign'[t]) /\ \A j \in 1..i : log[j] = reign'[t][j]
    BY <1>2, <1>5, <1>6
<1>8. QED
    BY <1>7 DEF t

LEMMA AppendFollows ==
    ASSUME NEW R \in [Nat -> Seq(Entry)], NEW log \in Seq(Entry), Follows(log, R),
           NEW e \in Entry, e.term > 0, R[e.term] = Append(log, e)
    PROVE  Follows(Append(log, e), R)
<1> DEFINE out == Append(log, e)
<1>1. /\ out \in Seq(Entry) /\ Len(log) \in Nat /\ Len(out) = Len(log) + 1
      /\ out[Len(log) + 1] = e
      /\ \A i \in 1..Len(log) : out[i] = log[i]
    BY AppendProperties, LenProperties
<1> HIDE DEF out
<1>2. ASSUME NEW i \in 1..Len(out)
      PROVE  /\ out[i].term > 0
             /\ i <= Len(R[out[i].term])
             /\ \A j \in 1..i : out[j] = R[out[i].term][j]
    <2>1. CASE i = Len(log) + 1
        <3>1. out[i] = e /\ R[e.term] = out /\ i <= Len(out)
            BY <1>1, <2>1 DEF out
        <3>2. QED
            BY <3>1
    <2>2. CASE i \in 1..Len(log)
        <3>1. \A j \in 1..i : out[j] = log[j]
            BY <1>1, <2>2
        <3>2. out[i] = log[i]
            BY <1>1, <2>2
        <3>3. /\ log[i].term > 0 /\ i <= Len(R[log[i].term])
              /\ \A j \in 1..i : log[j] = R[log[i].term][j]
            BY <2>2 DEF Follows
        <3>4. QED
            BY <3>1, <3>2, <3>3
    <2>3. QED
        BY <1>1, <2>1, <2>2
<1>3. QED
    BY <1>2 DEF Follows, out

\* What a merge leaves: the log up to p, which agrees with the entry at p and
\* not with the next one, and the entries from there on.
Merged(log, prev, entries, out, p) ==
    /\ p >= prev /\ p <= Len(log)
    /\ p > prev => log[p].term = entries[p - prev].term
    /\ p < Len(log) => log[p + 1].term # entries[p + 1 - prev].term
    /\ Len(out) = prev + Len(entries) /\ p < Len(out)
    /\ \A i \in 1..p : out[i] = log[i]
    /\ \A i \in p + 1 .. Len(out) : out[i] = entries[i - prev]

LEMMA MergeEntriesLog ==
    ASSUME NEW log \in Seq(Entry), NEW prev \in Nat, NEW entries \in Seq(Entry),
           Len(entries) > 0 => prev <= Len(log)
    PROVE  LET out == MergeEntries(log, prev, entries)
           IN  \/ /\ out = log
                  /\ \A x \in 1..Len(entries) :
                        prev + x <= Len(log) /\ log[prev + x].term = entries[x].term
               \/ \E p \in Nat : Merged(log, prev, entries, out, p)
<1> DEFINE Agrees(k) == prev + k <= Len(log) /\ log[prev + k].term = entries[k].term
           fresh == {k \in 1..Len(entries) : ~Agrees(k)}
           first == Min(fresh)
           out == MergeEntries(log, prev, entries)
<1>1. CASE fresh = {}
    BY <1>1 DEF MergeEntries
<1>2. CASE fresh # {}
    <2> DEFINE p    == prev + first - 1
               kept == Truncate(log, prev + first)
               rest == SubSeq(entries, first, Len(entries))
    <2>1. /\ first \in 1..Len(entries) /\ ~Agrees(first)
          /\ \A j \in 1..Len(entries) : j < first => Agrees(j)
        <3>1. fresh \in SUBSET (1..Len(entries)) /\ fresh \in SUBSET Nat
            BY LenProperties
        <3>2. first \in fresh /\ \A j \in fresh : first <= j
            <4> HIDE DEF fresh
            <4>1. QED
                BY <1>2, <3>1, MinOfNaturals
        <3> DEFINE f == first
        <3>3. f \in Nat /\ f \in 1..Len(entries) /\ ~Agrees(f)
            BY <3>1, <3>2
        <3> HIDE DEF f
        <3>4. ASSUME NEW j \in 1..Len(entries), j < f
              PROVE  Agrees(j)
            <4>1. j \notin fresh
                BY <3>2, <3>3, <3>4 DEF f
            <4>2. QED
                BY <4>1
        <3>5. QED
            BY <3>3, <3>4 DEF f
    <2>2. out = kept \o rest
        BY <1>2 DEF MergeEntries
    <2> HIDE DEF first, fresh, out
    <2>3. Len(log) \in Nat /\ Len(entries) \in Nat
        BY LenProperties
    <2>4. first > 1 => prev + (first - 1) <= Len(log)
                        /\ log[prev + (first - 1)].term = entries[first - 1].term
        BY <2>1, <2>3
    <2>5. p \in Nat /\ p <= Len(log) /\ p >= prev
        BY <2>1, <2>3, <2>4
    <2>6. kept \in Seq(Entry) /\ Len(kept) = p /\ \A i \in 1..p : kept[i] = log[i]
        <3> DEFINE g == prev + first
                   q == Min({g - 1, Len(log)})
        <3>1. g - 1 = p
            BY <2>1, <2>3
        <3>2. kept = Truncate(log, g)
            OBVIOUS
        <3> HIDE DEF g, p, kept
        <3>3. kept = SubSeq(log, 1, q)
            BY <3>2 DEF Truncate
        <3>4. q = p
            BY <2>3, <2>5, <3>1, MinOfTwo
        <3> HIDE DEF q
        <3>5. kept = SubSeq(log, 1, p)
            BY <3>3, <3>4
        <3>6. \A i \in 1..p : log[i] \in Entry
            BY <2>3, <2>5, ElementOfSeq
        <3>7. QED
            BY <2>5, <3>5, <3>6, SubSeqProperties
    <2>7. /\ rest \in Seq(Entry) /\ Len(rest) = Len(entries) - first + 1
          /\ \A i \in 1..Len(rest) : rest[i] = entries[first + i - 1]
        <3>1. \A i \in first..Len(entries) : entries[i] \in Entry
            BY <2>1, <2>3, ElementOfSeq
        <3>2. QED
            BY <2>1, <2>3, <3>1, SubSeqProperties
    <2> HIDE DEF kept, rest
    <2>8. /\ Len(out) = Len(kept) + Len(rest)
          /\ \A i \in 1 .. Len(kept) + Len(rest) :
                out[i] = IF i <= Len(kept) THEN kept[i] ELSE rest[i - Len(kept)]
        BY <2>2, <2>6, <2>7, ConcatProperties
    <2>9. Len(out) = prev + Len(entries) /\ p < Len(out)
        BY <2>1, <2>3, <2>6, <2>7, <2>8
    <2>10. \A i \in 1..p : out[i] = log[i]
        <3> HIDE DEF p
        <3>1. QED
            BY <2>5, <2>6, <2>7, <2>8, <2>9
    <2>11. ASSUME NEW i \in p + 1 .. Len(out)
           PROVE  out[i] = entries[i - prev]
        <3>1. out[i] = rest[i - p] /\ i - p \in 1..Len(rest)
            <4> DEFINE L == Len(rest)
            <4> HIDE DEF p
            <4>1. /\ Len(out) = p + L /\ L \in Nat /\ p \in Nat
                  /\ \A x \in 1 .. p + L : out[x] = IF x <= p THEN kept[x] ELSE rest[x - p]
                BY <2>5, <2>6, <2>7, <2>8, LenProperties
            <4> HIDE DEF L
            <4>2. i \in 1 .. p + L /\ i > p /\ i - p \in 1..L
                BY <4>1
            <4>3. QED
                BY <4>1, <4>2 DEF L
        <3>2. first + (i - p) - 1 = i - prev
            BY <2>1, <2>3, <2>5, <2>9
        <3>3. rest[i - p] = entries[first + (i - p) - 1]
            BY <2>7, <3>1
        <3>4. QED
            BY <3>1, <3>2, <3>3
    <2>12. p > prev => log[p].term = entries[p - prev].term
        <3>1. p - prev = first - 1 /\ p = prev + (first - 1)
            BY <2>1, <2>3
        <3>2. QED
            BY <2>1, <2>3, <2>4, <3>1
    <2>13. p < Len(log) => log[p + 1].term # entries[p + 1 - prev].term
        <3>1. p + 1 = prev + first /\ p + 1 - prev = first
            BY <2>1, <2>3
        <3>2. prev + first <= Len(log) => log[prev + first].term # entries[first].term
            BY <2>1
        <3>3. QED
            BY <2>3, <2>5, <3>1, <3>2
    <2>14. QED
        <3> HIDE DEF p
        <3>1. Merged(log, prev, entries, out, p)
            BY <2>5, <2>9, <2>10, <2>11, <2>12, <2>13 DEF Merged
        <3>2. QED
            BY <2>5, <3>1 DEF out
<1>3. QED
    BY <1>1, <1>2

\* A piece of the leaders' logs, merged where the previous entry matches, makes
\* of a log that follows them another: below the piece both agree because the
\* entry they meet at has one leader.
LEMMA MergeFollows ==
    ASSUME NEW R \in [Nat -> Seq(Entry)], \A t \in Nat : Follows(R[t], R),
           NEW log \in Seq(Entry), Follows(log, R),
           NEW prev \in Nat, NEW prevTerm, NEW entries \in Seq(Entry),
           SliceFollows(prev, prevTerm, entries, R),
           prev > 0 => GetTerm(log, prev) = prevTerm
    PROVE  Follows(MergeEntries(log, prev, entries), R)
<1> DEFINE out == MergeEntries(log, prev, entries)
<1>1. Len(log) \in Nat /\ Len(entries) \in Nat
    BY LenProperties
<1>2. ASSUME NEW x \in 1..Len(entries)
      PROVE  LET t == entries[x].term IN
             /\ t \in Nat /\ Len(R[t]) \in Nat /\ prev + x <= Len(R[t])
             /\ \A j \in 1..x : entries[j] = R[t][prev + j]
             /\ prev > 0 => prevTerm = R[t][prev].term
             /\ \A i \in 1 .. prev + x :
                    /\ R[t][i].term > 0 /\ R[t][i].term \in Nat
                    /\ \A j \in 1..i : R[t][j] = R[R[t][i].term][j]
    <2> DEFINE t == entries[x].term
    <2>1. t \in Nat
        <3>1. entries[x] \in Entry
            BY ElementOfSeq
        <3>2. QED
            BY <3>1 DEF Entry
    <2>2. /\ prev + x <= Len(R[t]) /\ \A j \in 1..x : entries[j] = R[t][prev + j]
          /\ prev > 0 => prevTerm = R[t][prev].term
        BY DEF SliceFollows
    <2> HIDE DEF t
    <2>3. R[t] \in Seq(Entry) /\ Len(R[t]) \in Nat
        BY <2>1, LenProperties
    <2>4. ASSUME NEW i \in 1 .. prev + x
          PROVE  /\ R[t][i].term > 0 /\ R[t][i].term \in Nat
                 /\ \A j \in 1..i : R[t][j] = R[R[t][i].term][j]
        <3>1. i \in 1..Len(R[t])
            <4> DEFINE L == Len(R[t])
            <4>1. prev + x <= L /\ L \in Nat /\ x \in Nat
                BY <1>1, <2>2, <2>3
            <4> HIDE DEF L
            <4>2. i \in 1..L
                BY <4>1
            <4>3. QED
                BY <4>2 DEF L
        <3>2. R[t][i] \in Entry
            BY <2>3, <3>1, ElementOfSeq
        <3>3. Follows(R[t], R)
            BY <2>1
        <3>4. QED
            BY <3>1, <3>2, <3>3 DEF Follows, Entry
    <2>5. QED
        BY <2>1, <2>2, <2>3, <2>4 DEF t
<1>3. prev > 0 /\ Len(entries) > 0
        => prev \in 1..Len(log) /\ log[prev].term = prevTerm
    <2>1. ASSUME prev > 0, Len(entries) > 0
          PROVE  prev \in 1..Len(log) /\ log[prev].term = prevTerm
        <3>1. 1 \in 1..Len(entries) /\ prev \in 1 .. prev + 1
            BY <1>1, <2>1
        <3>2. prevTerm > 0
            BY <1>2, <2>1, <3>1
        <3>3. GetTerm(log, prev) > 0
            BY <2>1, <3>2
        <3>4. QED
            BY <2>1, <3>3 DEF GetTerm
    <2>2. QED
        BY <2>1
<1>4. out = log \/ \E p \in Nat : Merged(log, prev, entries, out, p)
    <2>1. Len(entries) > 0 => prev <= Len(log)
        BY <1>1, <1>3
    <2>2. QED
        BY <2>1, MergeEntriesLog
<1> HIDE DEF out
<1>5. ASSUME NEW p \in Nat, Merged(log, prev, entries, out, p)
      PROVE  Follows(out, R)
    <2>1. /\ p >= prev /\ p <= Len(log) /\ p < Len(out) /\ Len(out) = prev + Len(entries)
          /\ p > prev => log[p].term = entries[p - prev].term
          /\ \A i \in 1..p : out[i] = log[i]
          /\ \A i \in p + 1 .. Len(out) : out[i] = entries[i - prev]
        BY <1>5 DEF Merged
    <2>2. ASSUME NEW i \in 1..p
          PROVE  /\ out[i].term > 0
                 /\ i <= Len(R[out[i].term])
                 /\ \A j \in 1..i : out[j] = R[out[i].term][j]
        <3>1. i \in 1..Len(log) /\ \A j \in 1..i : j \in 1..p
            <4> DEFINE L == Len(log)
            <4>1. p <= L /\ L \in Nat
                BY <1>1, <2>1
            <4> HIDE DEF L
            <4>2. i \in 1..L /\ \A j \in 1..i : j \in 1..p
                BY <4>1
            <4>3. QED
                BY <4>2 DEF L
        <3>2. out[i] = log[i] /\ \A j \in 1..i : out[j] = log[j]
            <4>1. \A j \in 1..p : out[j] = log[j]
                BY <2>1
            <4>2. QED
                BY <3>1, <4>1
        <3>3. /\ log[i].term > 0 /\ i <= Len(R[log[i].term])
              /\ \A j \in 1..i : log[j] = R[log[i].term][j]
            BY <3>1 DEF Follows
        <3>4. QED
            BY <3>2, <3>3
    <2>3. ASSUME NEW i \in p + 1 .. Len(out)
          PROVE  /\ out[i].term > 0
                 /\ i <= Len(R[out[i].term])
                 /\ \A j \in 1..i : out[j] = R[out[i].term][j]
        <3> DEFINE x == i - prev
                   t == entries[x].term
        <3>1. x \in 1..Len(entries) /\ prev + x = i /\ x \in Nat
            <4> DEFINE E == Len(entries)
                       L == Len(out)
            <4>1. p >= prev /\ L = prev + E /\ E \in Nat /\ i \in p + 1 .. L
                BY <1>1, <2>1
            <4> HIDE DEF E, L
            <4>2. i \in Nat /\ i > prev /\ i <= prev + E
                BY <4>1
            <4>3. x \in 1..E /\ prev + x = i /\ x \in Nat
                BY <4>1, <4>2
            <4>4. QED
                BY <4>3 DEF E
        <3>2. out[i] = entries[x]
            BY <2>1
        <3> HIDE DEF x, t
        <3>3. /\ t \in Nat /\ Len(R[t]) \in Nat /\ i <= Len(R[t])
              /\ \A j \in 1..x : entries[j] = R[t][prev + j]
              /\ prev > 0 => prevTerm = R[t][prev].term
              /\ \A a \in 1..i : /\ R[t][a].term > 0 /\ R[t][a].term \in Nat
                                 /\ \A j \in 1..a : R[t][j] = R[R[t][a].term][j]
            BY <1>2, <3>1 DEF t
        <3>4. entries[x] = R[t][i] /\ i \in 1..i
            <4>1. x \in 1..x /\ i \in 1..i
                BY <1>1, <3>1
            <4>2. entries[x] = R[t][prev + x]
                BY <3>3, <4>1
            <4>3. QED
                BY <3>1, <4>1, <4>2
        <3>5. t > 0
            <4>1. R[t][i].term = t
                BY <3>4 DEF t
            <4>2. QED
                BY <3>3, <3>4, <4>1
        <3>6. ASSUME NEW j \in p + 1 .. i
              PROVE  out[j] = R[t][j]
            <4>1. j - prev \in 1..x /\ prev + (j - prev) = j /\ j \in p + 1 .. Len(out)
                <5>1. p >= prev
                    BY <2>1
                <5>2. j \in Int /\ j >= p + 1 /\ j <= i /\ j \in p + 1 .. Len(out)
                    OBVIOUS
                <5>3. prev + x = i
                    BY <3>1
                <5>4. j - prev >= 1
                    BY <5>1, <5>2
                <5>5. j - prev <= x
                    BY <3>1, <5>2, <5>3
                <5>6. j - prev \in 1..x /\ prev + (j - prev) = j
                    BY <3>1, <5>2, <5>4, <5>5
                <5>7. QED
                    BY <5>2, <5>6
            <4>2. out[j] = entries[j - prev]
                BY <2>1, <4>1
            <4>3. entries[j - prev] = R[t][prev + (j - prev)]
                BY <3>3, <4>1
            <4>4. QED
                BY <4>1, <4>2, <4>3
        <3>7. p > 0 => log[p].term = R[t][p].term
            <4>1. CASE p > prev
                <5>1. p - prev \in 1..x /\ prev + (p - prev) = p
                    <6>1. i >= p + 1 /\ i \in Nat
                        OBVIOUS
                    <6>2. QED
                        BY <3>1, <4>1, <6>1
                <5>2. entries[p - prev] = R[t][prev + (p - prev)]
                    BY <3>3, <5>1
                <5>3. QED
                    BY <2>1, <4>1, <5>1, <5>2
            <4>2. CASE p = prev
                <5>1. Len(entries) > 0
                    BY <1>1, <3>1
                <5>2. p > 0 => log[prev].term = prevTerm /\ prevTerm = R[t][prev].term
                    BY <1>3, <3>3, <4>2, <5>1
                <5>3. QED
                    BY <4>2, <5>2
            <4>3. QED
                BY <2>1, <4>1, <4>2
        <3>8. ASSUME NEW j \in 1..p
              PROVE  out[j] = R[t][j]
            <4>1. p \in 1..Len(log) /\ p \in 1..i /\ out[j] = log[j] /\ log[p].term = R[t][p].term
                BY <1>1, <2>1, <3>7
            <4>2. log[j] = R[log[p].term][j]
                BY <4>1 DEF Follows
            <4>3. R[t][j] = R[R[t][p].term][j]
                BY <3>3, <4>1
            <4>4. QED
                BY <4>1, <4>2, <4>3
        <3>9. \A j \in 1..i : out[j] = R[t][j]
            <4>1. \A j \in 1..i : j \in 1..p \/ j \in p + 1 .. i
                OBVIOUS
            <4>2. QED
                BY <3>6, <3>8, <4>1
        <3>10. out[i].term = t
            BY <3>2 DEF t
        <3>11. QED
            BY <3>3, <3>5, <3>9, <3>10
    <2>4. \A i \in 1..Len(out) : i \in 1..p \/ i \in p + 1 .. Len(out)
        OBVIOUS
    <2>5. QED
        BY <2>2, <2>3, <2>4 DEF Follows
<1>6. QED
    BY <1>4, <1>5 DEF out

-----------------------------------------------------------------------------
(* Every step keeps the logs on record.                                    *)

\* A leader appends entries of its own term.
LEMMA LeaderAppends ==
    ASSUME NEW s \in Server, NEW k \in NodeType, LogStep(s, k), k.role = "LEADER",
           NEW e \in Entry, e.term = k.term, k.log = Append(node[s].log, e)
    PROVE  Follows(k.log, reign')
<1> DEFINE R == reign'
           log == node[s].log
<1>1. R \in [Nat -> Seq(Entry)] /\ log \in Seq(Entry) /\ node'[s] = k
    BY StepTypes
<1>2. Follows(log, R)
    <2>1. Follows(log, reign)
        BY DEF LogStep, LogsOnRecord, LogsFollow
    <2>2. QED
        BY <1>1, <2>1, FollowsGrows
<1>3. R[k.term] = k.log
    BY <1>1, LeadersReignStep DEF LeadersReign, IsLeader
<1>4. e.term > 0
    <2>1. s \in Standing'
        BY <1>1 DEF Standing, Active
    <2>2. node'[s].term > 0
        BY <2>1 DEF LogStep, Elections, VotesOnRecord, TermsBegin
    <2>3. QED
        BY <1>1, <2>2
<1>5. R[e.term] = Append(log, e)
    BY <1>3
<1> HIDE DEF R, log
<1>6. Follows(Append(log, e), R)
    BY <1>1, <1>2, <1>4, <1>5, AppendFollows
<1>7. QED
    BY <1>6 DEF R, log

LEMMA LogsFollowStep ==
    ASSUME NEW s \in Server, NEW k \in NodeType, LogStep(s, k)
    PROVE  LogsFollow'
<1> SUFFICES ASSUME NEW c \in Server
             PROVE  Follows(node'[c].log, reign')
    BY DEF LogsFollow
<1>1. /\ \A d \in Server : node[d].log \in Seq(Entry) /\ Follows(node[d].log, reign)
      /\ node' = [node EXCEPT ![s] = k] /\ node \in [Server -> NodeType]
    BY StepTypes DEF LogStep, LogsOnRecord, LogsFollow
<1>2. \A d \in Server : Follows(node[d].log, reign')
    BY <1>1, FollowsGrows
<1>3. CASE c # s
    BY <1>1, <1>2, <1>3
<1>4. Follows(k.log, reign')
    <2>1. LogMove(s, node[s], k)
        BY DEF LogStep, LogShape
    <2>2. CASE Keeps(node[s], k)
        BY <1>2, <2>2 DEF Keeps
    <2>3. CASE Loses(k)
        BY <2>3 DEF Loses, Follows
    <2>4. CASE Founds(node[s], k)
        <3> DEFINE e == NoOpOf(k.term)
        <3>1. e \in Entry /\ e.term = k.term
            BY DEF NoOpOf, Entry, NodeType
        <3>2. k.role = "LEADER" /\ k.log = Append(node[s].log, e)
            BY <2>4 DEF Founds
        <3> HIDE DEF e
        <3>3. QED
            BY <3>1, <3>2, LeaderAppends
    <2>5. CASE Extends(node[s], k)
        <3>1. PICK v \in Value : k.log = Append(node[s].log, [term |-> k.term, value |-> v])
            BY <2>5 DEF Extends
        <3> DEFINE e == [term |-> k.term, value |-> v]
        <3>2. e \in Entry /\ e.term = k.term
            BY DEF Entry, NodeType
        <3>3. k.role = "LEADER" /\ k.log = Append(node[s].log, e)
            BY <2>5, <3>1 DEF Extends
        <3> HIDE DEF e
        <3>4. QED
            BY <3>2, <3>3, LeaderAppends
    <2>6. CASE Merges(s, node[s], k)
        <3>1. PICK m \in rpcs :
                /\ m.type = "AppendEntries"
                /\ m.prevIndex > 0 => GetTerm(node[s].log, m.prevIndex) = m.prevTerm
                /\ k.log = MergeEntries(node[s].log, m.prevIndex, m.entries)
            BY <2>6 DEF Merges
        <3>2. m.prevIndex \in Nat /\ m.entries \in Seq(Entry)
            BY <3>1 DEF LogStep, Elections, TypeOK, RpcType, VoteRequestType,
                        AppendRequestType, VoteReplyType, AppendReplyType
        <3>3. SliceFollows(m.prevIndex, m.prevTerm, m.entries, reign)
            BY <3>1 DEF LogStep, LogsOnRecord, RequestsFollow
        <3>4. reign \in [Nat -> Seq(Entry)] /\ \A t \in Nat : Follows(reign[t], reign)
            BY StepTypes DEF LogStep, LogsOnRecord, ReignsFollow
        <3>5. Follows(k.log, reign)
            BY <1>1, <3>1, <3>2, <3>3, <3>4, MergeFollows
        <3>6. k.log \in Seq(Entry)
            BY DEF NodeType
        <3>7. QED
            BY <3>5, <3>6, FollowsGrows
    <2>7. QED
        BY <2>1, <2>2, <2>3, <2>4, <2>5, <2>6 DEF LogMove
<1>5. CASE c = s
    BY <1>1, <1>4, <1>5
<1>6. QED
    BY <1>3, <1>5

LEMMA ReignsFollowStep ==
    ASSUME NEW s \in Server, NEW k \in NodeType, LogStep(s, k)
    PROVE  ReignsFollow'
<1> SUFFICES ASSUME NEW t \in Nat
             PROVE  Follows(reign'[t], reign')
    BY DEF ReignsFollow
<1>1. CASE reign'[t] = reign[t]
    <2>1. reign[t] \in Seq(Entry) /\ Follows(reign[t], reign)
        BY StepTypes DEF LogStep, LogsOnRecord, ReignsFollow
    <2>2. QED
        BY <1>1, <2>1, FollowsGrows
<1>2. ASSUME NEW c \in Server, reign'[t] = node'[c].log
      PROVE  Follows(reign'[t], reign')
    BY <1>2, LogsFollowStep DEF LogsFollow
<1>3. QED
    BY <1>1, <1>2, ReignAfter

LEMMA ReignsWereElectedStep ==
    ASSUME NEW s \in Server, NEW k \in NodeType, LogStep(s, k)
    PROVE  ReignsWereElected'
<1> SUFFICES ASSUME NEW t \in Nat, reign'[t] # <<>>
             PROVE  \E c \in Server : /\ Elected(t, c)' /\ node'[c].term >= t
                                      /\ node'[c].term = t => node'[c].role # "CANDIDATE"
    BY DEF ReignsWereElected
<1>1. CASE reign'[t] = reign[t]
    <2>1. PICK c \in Server : /\ Elected(t, c) /\ node[c].term >= t
                              /\ node[c].term = t => node[c].role # "CANDIDATE"
        BY <1>1 DEF LogStep, LogsOnRecord, ReignsWereElected
    <2>2. Elected(t, c)'
        BY <2>1 DEF LogStep, ElectionMove
    <2>3. node[c].term \in Nat /\ node'[c].term \in Nat
        BY StepTypes
    <2>4. /\ node'[c].term >= node[c].term
          /\ node'[c].role = "CANDIDATE" /\ node'[c].term = node[c].term
                => node[c].role = "CANDIDATE"
        BY DEF LogStep, ElectionMove
    <2>5. QED
        BY <2>1, <2>2, <2>3, <2>4
<1>2. ASSUME NEW c \in Server, node'[c].role = "LEADER", node'[c].term = t
      PROVE  \E d \in Server : /\ Elected(t, d)' /\ node'[d].term >= t
                               /\ node'[d].term = t => node'[d].role # "CANDIDATE"
    <2>1. Elected(t, c)'
        BY <1>2 DEF LogStep, Elections, LeadersWereElected, IsLeader
    <2>2. QED
        BY <1>2, <2>1
<1>3. QED
    BY <1>1, <1>2, ReignAfter

LEMMA SliceGrows ==
    ASSUME NEW s \in Server, NEW k \in NodeType, LogStep(s, k),
           NEW prev \in Nat, NEW prevTerm, NEW entries \in Seq(Entry),
           SliceFollows(prev, prevTerm, entries, reign)
    PROVE  SliceFollows(prev, prevTerm, entries, reign')
<1> SUFFICES ASSUME NEW i \in 1..Len(entries)
             PROVE  /\ prev + i <= Len(reign'[entries[i].term])
                    /\ \A j \in 1..i : entries[j] = reign'[entries[i].term][prev + j]
                    /\ prev > 0 => prevTerm = reign'[entries[i].term][prev].term
    BY DEF SliceFollows
<1> DEFINE t == entries[i].term
<1>1. t \in Nat
    <2>1. entries[i] \in Entry
        BY ElementOfSeq
    <2>2. QED
        BY <2>1 DEF Entry
<1>2. /\ prev + i <= Len(reign[t])
      /\ \A j \in 1..i : entries[j] = reign[t][prev + j]
      /\ prev > 0 => prevTerm = reign[t][prev].term
    BY DEF SliceFollows
<1> HIDE DEF t
<1>3. reign[t] \in Seq(Entry) /\ Len(reign[t]) \in Nat /\ Len(entries) \in Nat
    BY <1>1, StepTypes, LenProperties
<1>4. \A a \in 1 .. prev + i : a \in 1..Len(reign[t])
    <2> DEFINE L == Len(reign[t])
    <2>1. prev + i <= L /\ L \in Nat /\ i \in Nat
        BY <1>2, <1>3
    <2> HIDE DEF L
    <2>2. \A a \in 1 .. prev + i : a \in 1..L
        BY <2>1
    <2>3. QED
        BY <2>2 DEF L
<1>5. \A a \in 1 .. prev + i : a <= Len(reign'[t]) /\ reign'[t][a] = reign[t][a]
    BY <1>1, <1>4, ReignGrows
<1>6. /\ prev + i \in 1 .. prev + i
      /\ \A j \in 1..i : prev + j \in 1 .. prev + i
      /\ prev > 0 => prev \in 1 .. prev + i
    BY <1>3
<1>7. prev + i <= Len(reign'[t])
    BY <1>5, <1>6
<1>8. \A j \in 1..i : entries[j] = reign'[t][prev + j]
    BY <1>2, <1>5, <1>6
<1>9. prev > 0 => prevTerm = reign'[t][prev].term
    BY <1>2, <1>5, <1>6
<1>10. QED
    BY <1>7, <1>8, <1>9 DEF t

\* What is cut from a log that follows the leaders is a piece of theirs.
LEMMA EntriesFromFollow ==
    ASSUME NEW R \in [Nat -> Seq(Entry)], NEW log \in Seq(Entry), Follows(log, R),
           NEW a \in Nat \ {0}
    PROVE  SliceFollows(a - 1, GetTerm(log, a - 1), GetEntriesFrom(log, a), R)
<1> DEFINE b       == Min({Len(log), a + MaxEntriesPerRpc - 1})
           entries == GetEntriesFrom(log, a)
           prev    == a - 1
<1>1. Len(log) \in Nat
    BY LenProperties
<1>2. b \in Int /\ b <= Len(log)
    <2> DEFINE L == Len(log)
               c == a + MaxEntriesPerRpc - 1
    <2>1. L \in Int /\ c \in Int
        BY <1>1, BatchAssumption
    <2>2. b = Min({L, c})
        OBVIOUS
    <2> HIDE DEF L, c, b
    <2>3. b = IF L <= c THEN L ELSE c
        BY <2>1, <2>2, MinOfTwo
    <2>4. b \in Int /\ b <= L
        BY <2>1, <2>3
    <2>5. QED
        BY <2>4 DEF L
<1>3. entries = SubSeq(log, a, b)
    BY DEF GetEntriesFrom
<1> HIDE DEF b, entries
<1>4. /\ Len(entries) = IF a <= b THEN b - a + 1 ELSE 0
      /\ \A i \in 1 .. b - a + 1 : entries[i] = log[a + i - 1]
    <2>1. \A i \in a..b : log[i] \in Entry
        BY <1>1, <1>2, ElementOfSeq
    <2>2. QED
        BY <1>2, <1>3, <2>1, SubSeqProperties
<1>5. ASSUME NEW i \in 1..Len(entries)
      PROVE  /\ prev + i <= Len(R[entries[i].term])
             /\ \A j \in 1..i : entries[j] = R[entries[i].term][prev + j]
             /\ prev > 0 => GetTerm(log, prev) = R[entries[i].term][prev].term
    <2>1. /\ Len(entries) = b - a + 1 /\ i \in Nat /\ i <= b - a + 1
          /\ prev + i \in 1..Len(log)
        <3> DEFINE E == Len(entries)
                   L == Len(log)
        <3>1. i \in 1..E /\ E = IF a <= b THEN b - a + 1 ELSE 0
            BY <1>4
        <3>2. L \in Nat /\ b \in Int /\ b <= L
            BY <1>1, <1>2
        <3> HIDE DEF E, L
        <3>3. E = b - a + 1 /\ i \in Nat /\ i <= b - a + 1
            BY <3>1, <3>2
        <3>4. prev + i \in 1..L
            BY <3>2, <3>3
        <3>5. QED
            BY <3>3, <3>4 DEF E, L
    <2>2. \A j \in 1..i : entries[j] = log[prev + j]
        <3>1. \A j \in 1..i : j \in 1 .. b - a + 1 /\ a + j - 1 = prev + j
            BY <1>2, <2>1
        <3>2. QED
            BY <1>4, <3>1
    <2> DEFINE t == log[prev + i].term
    <2>3. entries[i].term = t
        <3>1. i \in 1..i
            BY <2>1
        <3>2. QED
            BY <2>2, <3>1
    <2>4. prev + i <= Len(R[t]) /\ \A j \in 1 .. prev + i : log[j] = R[t][j]
        BY <2>1 DEF Follows
    <2> HIDE DEF t
    <2>5. \A j \in 1..i : prev + j \in 1 .. prev + i
        BY <2>1
    <2>6. prev > 0 => prev \in 1 .. prev + i /\ prev \in 1..Len(log)
        BY <1>1, <2>1
    <2>7. prev > 0 => GetTerm(log, prev) = R[t][prev].term
        BY <2>4, <2>6 DEF GetTerm
    <2>8. QED
        BY <2>2, <2>3, <2>4, <2>5, <2>7
<1> HIDE DEF prev
<1>6. SliceFollows(prev, GetTerm(log, prev), entries, R)
    BY <1>5 DEF SliceFollows
<1>7. QED
    BY <1>6 DEF prev, entries

LEMMA RequestsFollowStep ==
    ASSUME NEW s \in Server, NEW k \in NodeType, LogStep(s, k)
    PROVE  RequestsFollow'
<1> SUFFICES ASSUME NEW m \in rpcs', m.type = "AppendEntries"
             PROVE  /\ Elected(m.term, m.from)' /\ m.to # m.from
                    /\ SliceFollows(m.prevIndex, m.prevTerm, m.entries, reign')
    BY DEF RequestsFollow, Elected, QuorumSize
<1>1. CASE m \in rpcs
    <2>1. /\ Elected(m.term, m.from) /\ m.to # m.from
          /\ SliceFollows(m.prevIndex, m.prevTerm, m.entries, reign)
        BY <1>1 DEF LogStep, LogsOnRecord, RequestsFollow
    <2>2. /\ m.term \in Nat /\ m.from \in Server /\ m.prevIndex \in Nat
          /\ m.entries \in Seq(Entry)
        BY <1>1 DEF LogStep, Elections, TypeOK, RpcType, VoteRequestType, AppendRequestType,
                    VoteReplyType, AppendReplyType
    <2>3. Elected(m.term, m.from)'
        BY <2>1, <2>2 DEF LogStep, ElectionMove
    <2>4. SliceFollows(m.prevIndex, m.prevTerm, m.entries, reign')
        BY <2>1, <2>2, SliceGrows
    <2>5. QED
        BY <2>1, <2>3, <2>4
<1>2. CASE m \notin rpcs
    <2>1. k.role = "LEADER" /\ m \in AppendRequests(k, s)
        BY <1>2 DEF LogStep, LogShape
    <2>2. PICK p \in Peers(s) : m = AppendRequest(k, s, p)
        BY <2>1 DEF AppendRequests
    <2> DEFINE a == k.next[p]
    <2>3. /\ m.term = k.term /\ m.from = s /\ m.to = p /\ p # s
          /\ m.prevIndex = a - 1 /\ m.prevTerm = GetTerm(k.log, a - 1)
          /\ m.entries = GetEntriesFrom(k.log, a)
        BY <2>2 DEF AppendRequest, Peers
    <2>4. node'[s] = k /\ k.log \in Seq(Entry) /\ a \in Nat \ {0}
        BY <2>2, StepTypes DEF NodeType, Peers
    <2>5. Elected(m.term, m.from)'
        BY <2>1, <2>3, <2>4 DEF LogStep, Elections, LeadersWereElected, IsLeader
    <2>6. Follows(k.log, reign') /\ reign' \in [Nat -> Seq(Entry)]
        BY <2>4, LogsFollowStep, StepTypes DEF LogsFollow
    <2> HIDE DEF a
    <2>7. SliceFollows(a - 1, GetTerm(k.log, a - 1), GetEntriesFrom(k.log, a), reign')
        <3> DEFINE R == reign'
        <3> HIDE DEF R
        <3>1. R \in [Nat -> Seq(Entry)] /\ Follows(k.log, R)
            BY <2>6 DEF R
        <3>2. SliceFollows(a - 1, GetTerm(k.log, a - 1), GetEntriesFrom(k.log, a), R)
            BY <2>4, <3>1, EntriesFromFollow
        <3>3. QED
            BY <3>2 DEF R
    <2>8. QED
        BY <2>3, <2>5, <2>7
<1>3. QED
    BY <1>1, <1>2

LEMMA LogsOnRecordStep ==
    ASSUME Elections, Elections', VotesOnRecord, LogsOnRecord, Next, Remember
    PROVE  LogsOnRecord'
<1>1. TypeOK
    BY DEF Elections
<1>2. ElectionMove
    BY <1>1, NextElectionMove
<1>3. PICK s \in Server, k \in NodeType : LogShape(s, k)
    BY <1>1, NextLog
<1>4. LogStep(s, k)
    BY <1>2, <1>3 DEF LogStep
<1>5. LeadersReign' /\ ReignsWereElected'
    BY <1>4, LeadersReignStep, ReignsWereElectedStep
<1>6. LogsFollow' /\ ReignsFollow'
    BY <1>4, LogsFollowStep, ReignsFollowStep
<1>7. RequestsFollow'
    BY <1>4, RequestsFollowStep
<1>8. QED
    BY <1>5, <1>6, <1>7 DEF LogsOnRecord

-----------------------------------------------------------------------------
(* The theorems.                                                           *)

LEMMA HistoryInitially ==
    ASSUME HistoryInit
    PROVE  VotesOnRecord /\ LogsOnRecord
<1>1. /\ TypeOK /\ rpcs = {} /\ \A s \in Server : node[s].role = "FOLLOWER"
      /\ cast = [v \in Server |-> [t \in Nat |-> Nobody]]
      /\ reign = [t \in Nat |-> <<>>]
    BY InitType DEF HistoryInit
<1>2. \A s \in Server : node[s].log = <<>> /\ node[s].votedFor = Nobody /\ node[s].term = 0
    BY DEF HistoryInit, Init, Started, TimerStart, NewNode
<1>3. Standing = {} /\ \A s \in Server : ~IsLeader(s)
    BY <1>1 DEF Standing, Active, IsLeader
<1>4. HistoryType
    BY <1>1, EmptySeq DEF HistoryType
<1>5. VotesRecorded
    BY <1>1, <1>2 DEF VotesRecorded
<1>6. CountsRecorded /\ GrantsRecorded /\ TermsBegin
    BY <1>1, <1>3 DEF CountsRecorded, GrantsRecorded, TermsBegin
<1>7. LeadersReign /\ ReignsWereElected
    BY <1>1, <1>3 DEF LeadersReign, ReignsWereElected
<1>8. LogsFollow /\ ReignsFollow /\ RequestsFollow
    BY <1>1, <1>2 DEF LogsFollow, ReignsFollow, RequestsFollow, Follows
<1>9. QED
    BY <1>4, <1>5, <1>6, <1>7, <1>8 DEF VotesOnRecord, LogsOnRecord

\* The history refines the specification: it only remembers.
THEOREM HistoryIsRaft == HistorySpec => Spec
<1>1. HistoryInit => Init
    BY DEF HistoryInit
<1>2. [Next /\ Remember]_<<vars, historyVars>> => [Next]_vars
    BY DEF vars
<1>3. QED
    BY <1>1, <1>2, PTL DEF HistorySpec, Spec

\* No vote that elected a leader is forgotten, and a term elects one for all time.
THEOREM ElectionsOnRecord == HistorySpec => [](Elections /\ VotesOnRecord)
<1>1. HistoryInit => VotesOnRecord
    BY HistoryInitially
<1>2. TypeOK /\ TypeOK' /\ VotesOnRecord /\ [Next /\ Remember]_<<vars, historyVars>>
        => VotesOnRecord'
    <2>1. ASSUME TypeOK, TypeOK', VotesOnRecord, Next, Remember
          PROVE  VotesOnRecord'
        <3>1. PICK s \in Server, k \in NodeType : Shape(s, k)
            BY <2>1, NextShape
        <3>2. QED
            BY <2>1, <3>1, VotesOnRecordStep
    <2>2. ASSUME VotesOnRecord, UNCHANGED <<vars, historyVars>>
          PROVE  VotesOnRecord'
        BY <2>2 DEF vars, historyVars, VotesOnRecord, HistoryType, VotesRecorded,
            CountsRecorded, GrantsRecorded, TermsBegin, Standing
    <2>3. QED
        BY <2>1, <2>2
<1>3. TypeOK /\ OneCountPerVote /\ VotesOnRecord => Elections
    BY ElectionsFollow
<1>4. QED
    BY <1>1, <1>2, <1>3, HistoryIsRaft, TypeCorrect, VotesCountOnce, PTL DEF HistorySpec

\* The invariant behind the logs: every log, every batch on its way and every
\* leader's log is, up to each of its entries, the log of the leader of the
\* entry's term.
THEOREM LogsFollowLeaders == HistorySpec => []LogsOnRecord
<1>1. HistoryInit => LogsOnRecord
    BY HistoryInitially
<1>2. Elections /\ VotesOnRecord /\ Elections' /\ LogsOnRecord
        /\ [Next /\ Remember]_<<vars, historyVars>> => LogsOnRecord'
    <2>1. ASSUME Elections, VotesOnRecord, Elections', LogsOnRecord, Next, Remember
          PROVE  LogsOnRecord'
        BY <2>1, LogsOnRecordStep
    <2>2. ASSUME LogsOnRecord, UNCHANGED <<vars, historyVars>>
          PROVE  LogsOnRecord'
        BY <2>2 DEF vars, historyVars, LogsOnRecord, LeadersReign, ReignsWereElected,
            LogsFollow, ReignsFollow, RequestsFollow, Elected, IsLeader, QuorumSize
    <2>3. QED
        BY <2>1, <2>2
<1>3. QED
    BY <1>1, <1>2, ElectionsOnRecord, PTL DEF HistorySpec

\* Two logs that hold an entry of one term at one index are the same up to it:
\* both are there what the leader of the term had.
THEOREM LogsMatch == HistorySpec => []LogMatching
<1>1. TypeOK /\ LogsFollow => LogMatching
    <2> SUFFICES ASSUME TypeOK, LogsFollow, NEW s \in Server, NEW t \in Server,
                        NEW i \in 1..Min({Len(node[s].log), Len(node[t].log)}),
                        node[s].log[i].term = node[t].log[i].term
                 PROVE  SubSeq(node[s].log, 1, i) = SubSeq(node[t].log, 1, i)
        BY DEF LogMatching
    <2> DEFINE a == node[s].log
               b == node[t].log
               R == reign[a[i].term]
    <2>1. a \in Seq(Entry) /\ b \in Seq(Entry) /\ Len(a) \in Nat /\ Len(b) \in Nat
        BY LenProperties DEF TypeOK, NodeType
    <2>2. i \in 1..Len(a) /\ i \in 1..Len(b)
        <3> HIDE DEF a, b
        <3> DEFINE L == Len(a)
                   K == Len(b)
        <3>1. i \in 1..Min({L, K}) /\ L \in Int /\ K \in Int
            BY <2>1 DEF a, b
        <3> HIDE DEF L, K
        <3>2. Min({L, K}) = IF L <= K THEN L ELSE K
            BY <3>1, MinOfTwo
        <3>3. i \in 1..L /\ i \in 1..K
            BY <3>1, <3>2
        <3>4. QED
            BY <3>3 DEF L, K
    <2>3. \A j \in 1..i : a[j] = R[j] /\ b[j] = R[j]
        BY <2>2 DEF LogsFollow, Follows
    <2>4. \A j \in 1..i : a[j] = b[j] /\ a[j] \in Entry /\ b[j] \in Entry
        <3> HIDE DEF a, b, R
        <3>1. \A j \in 1..i : j \in 1..Len(a) /\ j \in 1..Len(b)
            <4> DEFINE L == Len(a)
                       K == Len(b)
            <4>1. L \in Nat /\ K \in Nat /\ i \in 1..L /\ i \in 1..K
                BY <2>1, <2>2
            <4> HIDE DEF L, K
            <4>2. \A j \in 1..i : j \in 1..L /\ j \in 1..K
                BY <4>1
            <4>3. QED
                BY <4>2 DEF L, K
        <3>2. QED
            BY <2>1, <2>3, <3>1, ElementOfSeq
    <2> DEFINE x == SubSeq(a, 1, i)
               y == SubSeq(b, 1, i)
    <2> HIDE DEF a, b, R
    <2>5. /\ x \in Seq(Entry) /\ Len(x) = i /\ \A j \in 1..i : x[j] = a[j]
          /\ y \in Seq(Entry) /\ Len(y) = i /\ \A j \in 1..i : y[j] = b[j]
        BY <2>1, <2>2, <2>4, SubSeqProperties
    <2> HIDE DEF x, y
    <2>6. x = y
        BY <2>4, <2>5, SeqEqual
    <2>7. QED
        BY <2>6 DEF x, y, a, b
<1>2. LogsOnRecord => LogsFollow
    BY DEF LogsOnRecord
<1>3. QED
    BY <1>1, <1>2, HistoryIsRaft, TypeCorrect, LogsFollowLeaders, PTL
=============================================================================
