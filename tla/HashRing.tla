------------------------------ MODULE HashRing ------------------------------
(***************************************************************************)
(* packages/cluster/src/consistent_hash_ring.js.  A ring is the sequence   *)
(* of its tokens, sorted by hash; Tokens gives the hashes of the virtual   *)
(* nodes of a node, which may be those of another one, too.                *)
(***************************************************************************)
EXTENDS Integers, Sequences, SequencesExt, FiniteSetsExt, FiniteSets, Listing

CONSTANTS
    Host,
    Tokens     \* Tokens[n]: the hashes of the virtual nodes of n, in order

\* Hashes are numbers of 32 bits, and every node has a token: 128 of them
\* unless the options say otherwise.
ASSUME TokensAssumption == Tokens \in [Host -> Seq(Nat) \ {<<>>}]

\* The nodes of a ring are those with a token on it.
NodesOf(ring) == {ring[i].nodeId : i \in DOMAIN ring}

\* ring.sort, which keeps the order of tokens of one hash
ByHash(list) ==
    {p \in (DOMAIN list) \X (DOMAIN list) :
        \/ list[p[1]].hash < list[p[2]].hash
        \/ list[p[1]].hash = list[p[2]].hash /\ p[1] < p[2]}

\* addNode: the tokens of the node are put at the end and the ring is sorted.
AddNode(ring, n) ==
    LET own == [i \in DOMAIN Tokens[n] |-> [hash |-> Tokens[n][i], nodeId |-> n]]
        pushed == ring \o own
    IN  IF n \in NodesOf(ring) THEN ring
        ELSE EntriesAt(pushed, DOMAIN pushed, ByHash(pushed))

\* A mutant: the first token of the node is removed.
RemoveToken(ring, n) ==
    LET own == {i \in DOMAIN ring : ring[i].nodeId = n}
    IN  IF own = {} THEN ring
        ELSE LET first == CHOOSE i \in own : \A j \in own : i <= j
             IN  SubSeq(ring, 1, first - 1) \o SubSeq(ring, first + 1, Len(ring))

RemoveNode(ring, n) ==
    LET kept == {i \in DOMAIN ring : ring[i].nodeId # n}
    IN  IF n \in NodesOf(ring) THEN EntriesAt(ring, kept, Upwards(kept)) ELSE ring

\* The first token at or after a hash, else the first of the ring.
StartIndex(ring, hash) ==
    LET after == {i \in DOMAIN ring : ring[i].hash >= hash}
    IN  IF after = {} THEN 1 ELSE Min(after)

\* The ring from there on, and round to there
Turned(ring, hash) ==
    LET start == StartIndex(ring, hash)
    IN  SubSeq(ring, start, Len(ring)) \o SubSeq(ring, 1, start - 1)

\* getPreferenceList: round the ring, every node where it is met first, up to a number of them.
PreferenceList(ring, hash, count) ==
    LET turned == Turned(ring, hash)
        first == {i \in DOMAIN turned : \A j \in 1 .. i - 1 : turned[j].nodeId # turned[i].nodeId}
        met == EntriesAt([i \in DOMAIN turned |-> turned[i].nodeId], first, Upwards(first))
    IN  SubSeq(met, 1, Min({count, Len(met)}))
=============================================================================
