--------------------------- MODULE RaftProperties ---------------------------
(***************************************************************************)
(* What the consensus node promises, stated over the state of Raft.        *)
(***************************************************************************)
EXTENDS Raft

Entry    == [term : Nat, value : Value \cup {NoOp}]
Proposal == [index : Nat \ {0}, entry : Entry]
Settled  == [proposed : Proposal, got : Entry]
Round    == [term : Nat, granted : SUBSET Server]

NodeType ==
    [running : BOOLEAN, role : Roles, term : Nat, votedFor : Server \cup {Nobody},
     leader : Server \cup {Nobody}, timer : Timers, log : Seq(Entry),
     commit : Nat, applied : Seq(Entry),
     next : [Server -> Nat \ {0}], match : [Server -> Nat],
     votes : SUBSET Server, preVotes : Seq(Round),
     pending : SUBSET Proposal, resolved : SUBSET Settled, incarnation : Nat]

VoteRequestType ==
    [type : {"RequestVote"}, from : Server, to : Server, preVote : BOOLEAN,
     term : Nat, lastIndex : Nat, lastTerm : Nat, round : Nat, incarnation : Nat]

AppendRequestType ==
    [type : {"AppendEntries"}, from : Server, to : Server, term : Nat,
     prevIndex : Nat, prevTerm : Nat, entries : Seq(Entry), commit : Nat,
     incarnation : Nat]

VoteReplyType ==
    [type : {"RequestVoteReply"}, from : Server, to : Server, preVote : BOOLEAN,
     term : Nat, granted : BOOLEAN, round : Nat, incarnation : Nat]

AppendReplyType ==
    [type : {"AppendEntriesReply"}, from : Server, to : Server, term : Nat,
     success : BOOLEAN, matchIndex : Nat, conflictIndex : Nat, sentIn : Nat,
     incarnation : Nat]

RpcType == VoteRequestType \cup AppendRequestType \cup VoteReplyType \cup AppendReplyType

\* Every field of every node and of every RPC in flight has its type: the next
\* index of a peer stays above 0, whatever replies arrive.
TypeOK ==
    /\ node \in [Server -> NodeType]
    /\ rpcs \in SUBSET RpcType
    /\ used \in [timeouts : Nat, stops : Nat, crashes : Nat]

-----------------------------------------------------------------------------
IsLeader(s) == node[s].role = "LEADER"

Prefix(a, b) == Len(a) <= Len(b) /\ SubSeq(b, 1, Len(a)) = a

\* Two servers that were both elected in one term are the same server: the
\* votes of a term, which several processes of a voter may have cast, elect
\* one candidate (_becomeLeader).
ElectionSafety ==
    \A s, t \in Server :
        IsLeader(s) /\ IsLeader(t) /\ node[s].term = node[t].term => s = t

\* A vote granted in an election, as opposed to a pre-vote.
IsGrant(m) == m.type = "RequestVoteReply" /\ ~m.preVote /\ m.granted

Active == {"CANDIDATE", "LEADER"}

Standing == {s \in Server : node[s].role \in Active}

\* Server v cannot vote for anybody but s in term t any more.
VotedFor(v, t, s) == node[v].term > t \/ (node[v].term = t /\ node[v].votedFor = s)

\* Every vote that is counted was cast for the one who counts it.
CountedVotesWereCast ==
    \A s \in Standing : \A v \in node[s].votes : VotedFor(v, node[s].term, s)

\* So was every vote on its way.
GrantsWereCast == \A m \in rpcs : IsGrant(m) => VotedFor(m.from, m.term, m.to)

\* A voter has one vote on its way per term, also with its processes before.
GrantsAgree ==
    \A l, m \in rpcs :
        IsGrant(l) /\ IsGrant(m) /\ l.from = m.from /\ l.term = m.term => l.to = m.to

\* It is on its way to the candidate that counted that vote, if one did.
GrantsAgreeWithCounts ==
    \A m \in rpcs, s \in Standing :
        IsGrant(m) /\ m.from \in node[s].votes /\ m.term = node[s].term => m.to = s

\* Two candidates of a term share no vote.
CountsAreDisjoint ==
    \A s, t \in Standing :
        node[s].term = node[t].term /\ node[s].votes \cap node[t].votes # {} => s = t

LeadersHaveQuorum ==
    \A s \in Server : IsLeader(s) => Cardinality(node[s].votes) >= QuorumSize

\* No vote is counted twice: what makes ElectionSafety inductive.  A vote that
\* was cast before a process of the voter died may still be in flight, or be
\* counted already, when the next process votes in the same term.
OneCountPerVote ==
    /\ CountedVotesWereCast
    /\ GrantsWereCast
    /\ GrantsAgree
    /\ GrantsAgreeWithCounts
    /\ CountsAreDisjoint
    /\ LeadersHaveQuorum

\* A server's term never falls, and a vote cast in a term is neither taken
\* back nor given to another candidate while the term lasts, restarts and
\* process deaths included (persistentState.save at every change).
OneVotePerTerm ==
    [][\A s \in Server :
        /\ node'[s].term >= node[s].term
        /\ node'[s].term = node[s].term /\ node[s].votedFor # Nobody
                => node'[s].votedFor = node[s].votedFor]_vars

\* Two logs that hold an entry of the same term at the same index agree on
\* everything up to it (the check of prevLogTerm in handleAppendEntries).
LogMatching ==
    \A s, t \in Server : \A i \in 1..Min({Len(node[s].log), Len(node[t].log)}) :
        node[s].log[i].term = node[t].log[i].term
            => SubSeq(node[s].log, 1, i) = SubSeq(node[t].log, 1, i)

\* The state machines of two servers never apply different entries at one
\* index: what one has applied is a prefix of what the other has.
StateMachineSafety ==
    \A s, t \in Server : \/ Prefix(node[s].applied, node[t].applied)
                         \/ Prefix(node[t].applied, node[s].applied)

\* A leader holds every entry that any server applied while in a term no
\* later than the leader's.
LeaderCompleteness ==
    \A s, t \in Server :
        IsLeader(s) /\ node[t].term <= node[s].term
            => Prefix(node[t].applied, node[s].log)

\* What a server has applied is stored by a quorum of the logs.
AppliedOnQuorum ==
    \A s \in Server :
        Cardinality({t \in Server : Prefix(node[s].applied, node[t].log)}) >= QuorumSize

\* An applied entry is never cut from the log of the server that applied it.
AppliedStaysInLog == \A s \in Server : Prefix(node[s].applied, node[s].log)

-----------------------------------------------------------------------------
(* What the documentation says and the code does not do.                    *)

\* election_timer.js: the timer is there "to prevent split-vote deadlocks".  A
\* running cluster without a leader still has a timeout or an RPC to come.
NoElectionDeadlock ==
    (\A s \in Server : node[s].running /\ ~IsLeader(s))
        => rpcs # {} \/ \E s \in Server : node[s].timer = "armed"

\* raft_node.js, propose: the promise "Resolves when committed to quorum".  A
\* proposal is settled with the entry that was proposed, not with the one
\* another leader put at its index.
ProposalResolvedAsProposed ==
    \A s \in Server : \A r \in node[s].resolved : r.got = r.proposed.entry
=============================================================================
