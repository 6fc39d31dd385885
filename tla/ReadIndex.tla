------------------------------ MODULE ReadIndex ------------------------------
(***************************************************************************)
(* Reads that go round the log: packages/raft/src/linearizable_read.js and *)
(* what raft_node.js does with it.  A client registers a read with the     *)
(* commit index of the node it takes for the leader, and may serve it from *)
(* the state machine at that index once the promise is resolved.           *)
(***************************************************************************)
EXTENDS RaftProperties

CONSTANT MaxReads    \* bound on the reads

VARIABLES
    pendingReads,    \* pendingReads[s]: of the manager of server s
    served           \* history: the reads that were resolved

readVars == <<pendingReads, served>>

\* The most that any server had applied.
AppliedSoFar == Max({Len(node[s].applied) : s \in Server})

\* registerRead, as its comment asks to call it; applied is not in the code.
RegisterRead(s) ==
    /\ IsLeader(s)
    /\ Cardinality(UNION {pendingReads[p] : p \in Server} \cup served) < MaxReads
    /\ pendingReads' = [pendingReads EXCEPT ![s] =
           @ \cup {[readIndex |-> node[s].commit, acks |-> {s}, applied |-> AppliedSoFar]}]
    /\ UNCHANGED <<vars, served>>

\* recordHeartbeatAck: an ack counts for every read that waits, whichever request
\* it answers.
RecordHeartbeatAck(s, peer) ==
    LET acked == {[r EXCEPT !.acks = @ \cup {peer}] : r \in pendingReads[s]}
        done == {r \in acked : Cardinality(r.acks) >= QuorumSize}
    IN  /\ pendingReads' = [pendingReads EXCEPT ![s] = acked \ done]
        /\ served' = served \cup done

\* The handler of this reply comes to the call of recordHeartbeatAck.
IsAck(m) ==
    LET n == node[m.to]
    IN  m.type = "AppendEntriesReply" /\ n.running /\ m.term <= n.term /\ IsLeader(m.to) /\ m.success

\* abortAll, when a node steps down or stops; a process takes its promises with it.
Aborts(s) ==
    \/ node[s].running /\ ~node'[s].running
    \/ node'[s].incarnation # node[s].incarnation
    \/ node'[s].term > node[s].term /\ node'[s].role = "FOLLOWER"

AbortReads ==
    /\ pendingReads' = [s \in Server |-> IF Aborts(s) THEN {} ELSE pendingReads[s]]
    /\ UNCHANGED served

ReadInit == Init /\ pendingReads = [s \in Server |-> {}] /\ served = {}

ReadNext ==
    \/ \E s \in Server : RegisterRead(s)
    \/ \E m \in rpcs : HandleAppendReply(m) /\ IsAck(m) /\ RecordHeartbeatAck(m.to, m.from)
    \/ \E m \in rpcs : HandleAppendReply(m) /\ ~IsAck(m) /\ AbortReads
    \/ \E m \in rpcs :
        /\ HandleRequestVote(m) \/ HandleAppendEntries(m) \/ HandlePreVoteReply(m)
            \/ HandleVoteReply(m)
        /\ AbortReads
    \/ \E s \in Server :
        /\ \/ Start(s) \/ Stop(s) \/ Crash(s) \/ ElectionTimeout(s) \/ Heartbeat(s)
           \/ \E v \in Value : Propose(s, v)
        /\ AbortReads

ReadSpec == ReadInit /\ [][ReadNext]_<<vars, readVars>>

\* linearizable_read.js:3, "ensuring linearizable read consistency": a read is not
\* resolved with an index before what some server had applied, and told its client,
\* when the read was registered.
ReadsAreLinearizable == \A r \in served : r.readIndex >= r.applied
=============================================================================
