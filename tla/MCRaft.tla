------------------------------- MODULE MCRaft -------------------------------
(***************************************************************************)
(* Small clusters of Raft for TLC.                                         *)
(***************************************************************************)
EXTENDS RaftProperties, TLC

\* The state without what no step and no property reads again: the progress
\* of peers unless the node leads, the votes unless it is a candidate, the
\* leader it last heard of, and the pre-vote rounds nobody will answer.
Awaited(s, round) ==
    \E m \in rpcs :
        /\ m.type \in {"RequestVote", "RequestVoteReply"}
        /\ m.preVote /\ m.round = round
        /\ s = IF m.type = "RequestVote" THEN m.from ELSE m.to

Live(s) ==
    LET n == node[s]
    IN  [n EXCEPT !.leader   = Nobody,
                  !.votes    = IF n.role = "CANDIDATE" THEN @ ELSE {},
                  !.next     = IF n.role = "LEADER" THEN @ ELSE 0,
                  !.match    = IF n.role = "LEADER" THEN @ ELSE 0,
                  !.preVotes = [r \in DOMAIN @ |-> IF Awaited(s, r) THEN @[r] ELSE 0]]

LiveView == <<[s \in Server |-> Live(s)], rpcs, used>>

\* The servers take no part in any definition but as themselves.
Symmetry == Permutations(Server)
=============================================================================
