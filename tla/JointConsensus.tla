--------------------------- MODULE JointConsensus ---------------------------
(***************************************************************************)
(* The change of a cluster's members in two steps, from                    *)
(* packages/raft/src/joint_consensus.js: a configuration is an immutable   *)
(* object, and the next one is made from it.  Nothing orders the calls: a  *)
(* transition may be entered twice, and a configuration that is in no      *)
(* transition may be finalized.                                            *)
(***************************************************************************)
EXTENDS Integers, Sequences, FiniteSets

CONSTANTS
    Member,        \* ids of nodes
    MemberLists    \* the lists a configuration may be made of; a node may be listed twice

ASSUME ListsAssumption == MemberLists \subseteq Seq(Member) /\ <<>> \in MemberLists

VARIABLES
    config,    \* the configuration in force
    former     \* history: the one it was made from, or itself

jointVars == <<config, former>>

Configuration == [oldNodes : MemberLists, newNodes : MemberLists, stage : {"STABLE", "JOINT"}]

\* How many positions of a list the acks hold.
Matches(nodes, acks) == Cardinality({i \in DOMAIN nodes : nodes[i] \in acks})

Majority(nodes, acks) == Matches(nodes, acks) >= Len(nodes) \div 2 + 1

\* A mutant: either majority is enough in a transition.
EitherMajority(c, acks) ==
    \/ Majority(c.oldNodes, acks)
    \/ c.stage = "JOINT" /\ Majority(c.newNodes, acks)

\* A mutant: half of a list is enough.
HalfQuorum(c, acks) == 2 * Matches(c.oldNodes, acks) >= Len(c.oldNodes)

\* A transition that names no new node asks the old ones only.
HasQuorum(c, acks) ==
    /\ Majority(c.oldNodes, acks)
    /\ (c.stage = "JOINT" /\ c.newNodes # <<>>) => Majority(c.newNodes, acks)

\* The old nodes stay, whatever stage they are in.
EnterJoint(nodes) ==
    /\ config' = [config EXCEPT !.newNodes = nodes, !.stage = "JOINT"]
    /\ former' = config

FinalizeNew ==
    /\ config' = [oldNodes |-> config.newNodes, newNodes |-> <<>>, stage |-> "STABLE"]
    /\ former' = config

JointInit ==
    /\ config \in {c \in Configuration : c.stage = "STABLE" /\ c.newNodes = <<>>}
    /\ former = config

JointNext ==
    \/ \E nodes \in MemberLists : EnterJoint(nodes)
    \/ FinalizeNew

JointSpec == JointInit /\ [][JointNext]_jointVars

JointTypeOK == config \in Configuration /\ former \in Configuration

-----------------------------------------------------------------------------
\* Two sets of acks that carry a decision, one under the configuration in force
\* and one under it or the one it came from, share a node: no two leaders of one
\* term and no two entries for one index, whichever configuration a node knows.
QuorumsMeet ==
    \A a, b \in SUBSET Member :
        (HasQuorum(config, a) /\ (HasQuorum(former, b) \/ HasQuorum(config, b))) => a \cap b # {}

=============================================================================
