---------------------------- MODULE RaftHistory ----------------------------
(***************************************************************************)
(* Raft with the memory a proof about its log needs: the votes that were   *)
(* ever cast, and the log every leader had when it was last seen leading.  *)
(* The two variables follow from the others and restrict nothing.          *)
(***************************************************************************)
EXTENDS RaftProperties

VARIABLES
    cast,     \* cast[v][t]: whom v voted for in term t
    reign     \* reign[t]: the log of the leader of term t, <<>> if it had none

historyVars == <<cast, reign>>

Leaders(t) == {s \in Server : IsLeader(s) /\ node[s].term = t}

Remember ==
    /\ cast' = [v \in Server |-> [t \in Nat |->
                  IF t = node'[v].term THEN node'[v].votedFor ELSE cast[v][t]]]
    /\ reign' = [t \in Nat |->
                  IF Leaders(t)' = {} THEN reign[t]
                  ELSE node'[CHOOSE s \in Server : s \in Leaders(t)'].log]

HistoryInit ==
    /\ Init
    /\ cast = [v \in Server |-> [t \in Nat |-> Nobody]]
    /\ reign = [t \in Nat |-> <<>>]

HistorySpec == HistoryInit /\ [][Next /\ Remember]_<<vars, historyVars>>

-----------------------------------------------------------------------------
Elected(t, s) == Cardinality({v \in Server : cast[v][t] = s}) >= QuorumSize

\* What a server voted is on record, and nothing of terms it has not seen.
VotesRecorded ==
    \A v \in Server :
        /\ cast[v][node[v].term] = node[v].votedFor
        /\ \A t \in Nat : t > node[v].term => cast[v][t] = Nobody

\* So are the votes a candidate counted and those on their way.
CountsRecorded ==
    \A s \in Standing : \A v \in node[s].votes : cast[v][node[s].term] = s

GrantsRecorded == \A m \in rpcs : IsGrant(m) => cast[m.from][m.term] = m.to

\* Term 0 has no candidates.
TermsBegin == \A s \in Standing : node[s].term > 0

\* Who once led in a term is no candidate of it any more.
ReignsWereElected ==
    \A t \in Nat : reign[t] # <<>> =>
        \E s \in Server : /\ Elected(t, s) /\ node[s].term >= t
                          /\ node[s].term = t => node[s].role # "CANDIDATE"

LeadersReign == \A s \in Server : IsLeader(s) => reign[node[s].term] = node[s].log

\* Every entry of the log has come with all that its leader, of whom R knows,
\* had before it.
Follows(log, R) ==
    \A i \in 1..Len(log) :
        /\ log[i].term > 0
        /\ i <= Len(R[log[i].term])
        /\ \A j \in 1..i : log[j] = R[log[i].term][j]

LogsFollow == \A s \in Server : Follows(node[s].log, reign)

ReignsFollow == \A t \in Nat : Follows(reign[t], reign)

\* Entries behind prev are a piece of the log of the leader of each of them.
SliceFollows(prev, prevTerm, entries, R) ==
    \A i \in 1..Len(entries) :
        /\ prev + i <= Len(R[entries[i].term])
        /\ \A j \in 1..i : entries[j] = R[entries[i].term][prev + j]
        /\ prev > 0 => prevTerm = R[entries[i].term][prev].term

RequestsFollow ==
    \A m \in rpcs : m.type = "AppendEntries" =>
        /\ Elected(m.term, m.from) /\ m.to # m.from
        /\ SliceFollows(m.prevIndex, m.prevTerm, m.entries, reign)

\* The invariant behind the logs.
LogsOnRecord ==
    LeadersReign /\ ReignsWereElected /\ LogsFollow /\ ReignsFollow /\ RequestsFollow
=============================================================================
