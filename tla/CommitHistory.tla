--------------------------- MODULE CommitHistory ---------------------------
(***************************************************************************)
(* Raft with the memory a proof about committed entries needs besides the  *)
(* one of RaftHistory: how much of each leader's log every server held     *)
(* while the leader's term was its own.  An entry that a quorum held in    *)
(* its term is chosen, whether the leader has counted it or not.           *)
(***************************************************************************)
EXTENDS RaftHistory

VARIABLE held    \* held[v][t]: of the log of the leader of term t, in term t

commitVars == <<vars, historyVars, held>>

\* A log that ends with an entry of its server's term is, up to there, the log
\* of the leader of the term.
Hold ==
    held' = [v \in Server |-> [t \in Nat |->
               IF t = node'[v].term /\ LastLogTerm(node'[v].log) = t
               THEN Len(node'[v].log) ELSE held[v][t]]]

CommitInit == HistoryInit /\ held = [v \in Server |-> [t \in Nat |-> 0]]

CommitNext == Next /\ Remember /\ Hold

CommitSpec == CommitInit /\ [][CommitNext]_commitVars

-----------------------------------------------------------------------------
\* The entry of term t at index i, of which there is one at most.
Has(log, t, i) == i \in 1..Len(log) /\ log[i].term = t

Held(v, t, i) == i \in 1..held[v][t] /\ Has(reign[t], t, i)

Holders(t, i) == {v \in Server : held[v][t] >= i}

Chosen(t, i) == Has(reign[t], t, i) /\ Cardinality(Holders(t, i)) >= QuorumSize

\* The leader of term u began without that entry and replaces it.
Lacks(u, t, i) == reign[u] # <<>> /\ ~Has(reign[u], t, i)

\* What v held before term u is in the log, unless a leader before u lacked it.
Backs(v, log, u) ==
    \A t \in 0 .. u - 1 : \A i \in Nat :
        Held(v, t, i) => Has(log, t, i) \/ \E w \in t + 1 .. u - 1 : Lacks(w, t, i)

\* The servers that were in term u and whose past backs its leader.
Backers(u) == {v \in Server : node[v].term >= u /\ Backs(v, reign[u], u)}

-----------------------------------------------------------------------------
(* The parts of the invariant.                                              *)

TermsOfLogs ==
    /\ \A s \in Server : \A i \in 1..Len(node[s].log) : node[s].log[i].term <= node[s].term
    /\ \A t \in Nat : \A i \in 1..Len(reign[t]) : reign[t][i].term <= t

\* A leader's log ends with an entry of its own.
ReignsEnd ==
    /\ \A s \in Server : IsLeader(s) => node[s].log # <<>>
    /\ \A t \in Nat : reign[t] # <<>> => LastLogTerm(reign[t]) = t

HeldIsOfReign ==
    \A v \in Server, t \in Nat :
        /\ held[v][t] > 0 => t <= node[v].term /\ Has(reign[t], t, held[v][t])
        /\ t = node[v].term /\ LastLogTerm(node[v].log) = t => held[v][t] = Len(node[v].log)

\* The leader held all of its log.
LeadersHold ==
    \A s \in Server, t \in Nat :
        Elected(t, s) /\ reign[t] # <<>> => held[s][t] >= Len(reign[t])

\* A server loses an entry to a leader that lacks it, in a later term.
HeldIsKept ==
    \A v \in Server, t \in Nat, i \in Nat :
        Held(v, t, i) => \/ Has(node[v].log, t, i)
                         \/ \E w \in t + 1 .. node[v].term : Lacks(w, t, i)

\* Server s may still be the first to lead in term u.
MayLead(s, u) == node[s].role = "CANDIDATE" /\ node[s].term = u /\ reign[u] = <<>>

VoteRequestsTell ==
    \A m \in rpcs : m.type = "RequestVote" /\ ~m.preVote =>
        /\ m.term <= node[m.from].term
        /\ MayLead(m.from, m.term) =>
            m.lastIndex = Len(node[m.from].log) /\ m.lastTerm = LastLogTerm(node[m.from].log)

VotesBack ==
    /\ \A s \in Server : MayLead(s, node[s].term) =>
            \A v \in node[s].votes : Backs(v, node[s].log, node[s].term)
    /\ \A m \in rpcs : IsGrant(m) =>
            /\ m.term <= node[m.to].term
            /\ MayLead(m.to, m.term) => Backs(m.from, node[m.to].log, m.term)

ReignsAreBacked ==
    \A u \in Nat : reign[u] # <<>> => Cardinality(Backers(u)) >= QuorumSize

\* Entries in flight are a piece of the log of the leader that sent them, up to
\* one of its own: the batch reached the end of the log.
BatchesReachTheEnd ==
    \A m \in rpcs : m.type = "AppendEntries" =>
        /\ Has(reign[m.term], m.term, m.prevIndex + Len(m.entries))
        /\ \A i \in 1..Len(m.entries) : m.entries[i] = reign[m.term][m.prevIndex + i]
        /\ m.prevIndex > 0 => m.prevTerm = reign[m.term][m.prevIndex].term

\* What a follower answers with, it held in the term of the request.
AcksWereHeld ==
    \A m \in rpcs : m.type = "AppendEntriesReply" /\ m.success =>
        /\ m.from # m.to /\ m.sentIn <= node[m.to].term /\ Elected(m.sentIn, m.to)
        /\ m.matchIndex > 0 /\ m.matchIndex <= held[m.from][m.sentIn]

\* A leader knows of no more than its followers hold.
MatchesAreHeld ==
    \A s \in Server : IsLeader(s) =>
        \A p \in Peers(s) :
            /\ node[s].match[p] <= Len(node[s].log)
            /\ node[s].next[p] <= Len(node[s].log) + 1
            /\ \A i \in 1..node[s].match[p] :
                    node[s].log[i].term = node[s].term => held[p][node[s].term] >= i

\* Entries up to c are chosen, in term u or before, and the log has them.
ChosenUpTo(c, u) == \E t \in 0..u : \E i \in Nat : c <= i /\ Chosen(t, i)

Committed(log, c, u) ==
    c = 0 \/ \E t \in 0..u : \E i \in Nat :
                /\ c <= i /\ Chosen(t, i)
                /\ c <= Len(log) /\ \A j \in 1..c : log[j] = reign[t][j]

CommitsAreChosen ==
    /\ \A s \in Server :
        /\ Committed(node[s].log, node[s].commit, node[s].term)
        /\ Len(node[s].applied) = node[s].commit
        /\ \A j \in 1..node[s].commit : node[s].applied[j] = node[s].log[j]
    /\ \A m \in rpcs : m.type = "AppendEntries" =>
        m.commit = 0 \/ ChosenUpTo(m.commit, m.term)

LogsAreShort ==
    /\ \A s \in Server : Len(node[s].log) <= MaxLogLen
    /\ \A t \in Nat : Len(reign[t]) <= MaxLogLen

\* The invariant behind what is applied.
CommitsOnRecord ==
    /\ TermsOfLogs /\ ReignsEnd /\ HeldIsOfReign /\ LeadersHold /\ HeldIsKept
    /\ VoteRequestsTell /\ VotesBack /\ ReignsAreBacked
    /\ BatchesReachTheEnd /\ AcksWereHeld /\ MatchesAreHeld
    /\ CommitsAreChosen /\ LogsAreShort
=============================================================================
