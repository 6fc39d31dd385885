---------------------------- MODULE ClusterProofs ----------------------------
(***************************************************************************)
(* Theorems about the parts that nodes share, each for its own             *)
(* specification and every value of its constants: the configurations in   *)
(* transition, whatever the lists of nodes are; vector clocks and the      *)
(* heap, of any size; the token buckets, for any capacity, rate and        *)
(* clients, and for a clock that may be set back; the leases and the       *)
(* locks, each the refinement of a fenced mutex; the failure detector with *)
(* the hash ring it keeps, for any hosts and tokens; the reader of frames, *)
(* for any payloads and chunks; and all of them together.                  *)
(***************************************************************************)
EXTENDS MCCluster, OrderLemmas

-----------------------------------------------------------------------------
(* The configurations.                                                      *)

\* Two majorities of one list share a node, though it may be listed twice.
LEMMA MajoritiesMeet ==
    ASSUME NEW nodes \in Seq(Member), NEW a, NEW b,
           Majority(nodes, a), Majority(nodes, b)
    PROVE  a \cap b # {}
<1> DEFINE At(acks) == {i \in DOMAIN nodes : nodes[i] \in acks}
<1>1. /\ Len(nodes) \in Nat /\ DOMAIN nodes = 1 .. Len(nodes)
    OBVIOUS
<1>2. IsFiniteSet(1 .. Len(nodes)) /\ Cardinality(1 .. Len(nodes)) = Len(nodes)
    BY <1>1, FirstNumbers
<1>3. At(a) \subseteq 1 .. Len(nodes) /\ At(b) \subseteq 1 .. Len(nodes)
    BY <1>1
<1>4. Cardinality(At(a)) + Cardinality(At(b)) > Len(nodes)
    <2>1. /\ Cardinality(At(a)) >= Len(nodes) \div 2 + 1
          /\ Cardinality(At(b)) >= Len(nodes) \div 2 + 1
        BY DEF Majority, Matches
    <2>2. Cardinality(At(a)) \in Nat /\ Cardinality(At(b)) \in Nat
        BY <1>2, <1>3, FS_Subset, FS_CardinalityType
    <2> HIDE DEF At
    <2> QED
        BY <1>1, <2>1, <2>2
<1> HIDE DEF At
<1>5. At(a) \cap At(b) # {}
    BY <1>2, <1>3, <1>4, FS_MajoritiesIntersect
<1> QED
    BY <1>5 DEF At

-----------------------------------------------------------------------------
\* A configuration that is in no transition names no new nodes.
StableAlone ==
    \A c \in {config, former} : c.stage = "STABLE" => c.newNodes = <<>>

\* The majority that the configuration asks for is one the former asks for, too.
Linked ==
    \/ config = former
    \/ config.oldNodes = former.oldNodes
    \/ config.oldNodes = former.newNodes

JointInv == JointTypeOK /\ StableAlone /\ Linked

LEMMA JointInductive == JointSpec => []JointInv
<1>1. JointInit => JointInv
    BY DEF JointInit, JointInv, JointTypeOK, StableAlone, Linked
<1>2. JointInv /\ [JointNext]_jointVars => JointInv'
    <2> SUFFICES ASSUME JointInv, [JointNext]_jointVars
                 PROVE  JointInv'
        OBVIOUS
    <2> USE DEF JointInv, JointTypeOK, StableAlone, Linked, Configuration
    <2>1. CASE \E nodes \in MemberLists : EnterJoint(nodes)
        BY <2>1 DEF EnterJoint
    <2>2. CASE FinalizeNew
        BY <2>2, ListsAssumption DEF FinalizeNew
    <2>3. CASE UNCHANGED jointVars
        BY <2>3 DEF jointVars
    <2> QED
        BY <2>1, <2>2, <2>3 DEF JointNext
<1> QED
    BY <1>1, <1>2, PTL DEF JointSpec

\* Every configuration is one that the calls can make.
THEOREM JointTypes == JointSpec => []JointTypeOK
BY JointInductive, PTL DEF JointInv

\* No list has a majority without members, so that a configuration whose list of
\* old nodes is empty decides nothing.
LEMMA EmptyDecidesNothing == ASSUME NEW acks PROVE ~Majority(<<>>, acks)
<1>1. {i \in DOMAIN <<>> : <<>>[i] \in acks} = {}
    OBVIOUS
<1>2. Matches(<<>>, acks) = 0
    BY <1>1, FS_EmptySet DEF Matches
<1> QED
    BY <1>2 DEF Majority

\* Safety of the change of members: what is decided under the configuration in force
\* shares a node with what was decided under the former one, or under itself.
THEOREM QuorumsAlwaysMeet == JointSpec => []QuorumsMeet
<1>1. JointInv => QuorumsMeet
    <2> SUFFICES ASSUME JointInv, NEW a \in SUBSET Member, NEW b \in SUBSET Member,
                        HasQuorum(config, a), HasQuorum(former, b) \/ HasQuorum(config, b)
                 PROVE  a \cap b # {}
        BY DEF QuorumsMeet
    <2>1. /\ config.oldNodes \in Seq(Member)
          /\ former.oldNodes \in Seq(Member) /\ former.newNodes \in Seq(Member)
        BY ListsAssumption DEF JointInv, JointTypeOK, Configuration
    <2>2. Majority(config.oldNodes, a)
        BY DEF HasQuorum
    <2>3. CASE HasQuorum(config, b)
        BY <2>1, <2>2, <2>3, MajoritiesMeet DEF HasQuorum
    <2>4. CASE HasQuorum(former, b) /\ config.oldNodes = former.oldNodes
        BY <2>1, <2>2, <2>4, MajoritiesMeet DEF HasQuorum
    <2>5. CASE HasQuorum(former, b) /\ config.oldNodes = former.newNodes
        <3>1. former.newNodes # <<>>
            BY <2>2, <2>5, EmptyDecidesNothing
        <3>2. former.stage = "JOINT"
            BY <3>1 DEF JointInv, StableAlone, JointTypeOK, Configuration
        <3>3. Majority(former.newNodes, b)
            BY <2>5, <3>1, <3>2 DEF HasQuorum
        <3> QED
            BY <2>1, <2>2, <2>5, <3>3, MajoritiesMeet
    <2> QED
        BY <2>3, <2>4, <2>5 DEF JointInv, Linked
<1> QED
    BY <1>1, JointInductive, PTL

-----------------------------------------------------------------------------
(* Vector clocks.                                                          *)

Clock == UNION {[sites -> Nat] : sites \in SUBSET Site}
Event == [site : Site, clock : Clock, past : SUBSET Nat]

\* The number of an event among those of its site, and the event with what caused it.
NumberOf(H, k) == Entry(H[k].clock, H[k].site)
Upto(H, i) == H[i].past \cup {i}

\* A clock m covers a set P of events: its entries are the numbers of the last events of
\* each site in P, and P has the causes of what it has.
Covers(H, m, P) ==
    /\ m \in Clock /\ P \subseteq DOMAIN H
    /\ \A k \in P : H[k].past \subseteq P
    /\ \A k \in DOMAIN H : Entry(m, H[k].site) >= NumberOf(H, k) <=> k \in P
    /\ \A s \in Site : Entry(m, s) = 0 \/ \E k \in P : H[k].site = s /\ NumberOf(H, k) = Entry(m, s)

\* The events of a site are in its past, one after the other.
Causal(H) ==
    /\ H \in Seq(Event)
    /\ \A i \in DOMAIN H : NumberOf(H, i) > 0 /\ \A k \in H[i].past : k < i
    /\ \A i, j \in DOMAIN H : i < j /\ H[i].site = H[j].site => i \in H[j].past
    /\ \A i \in DOMAIN H : Covers(H, H[i].clock, Upto(H, i))

\* A clock is that of the last event of its site.
ClockOf(H, s, c) ==
    \/ c = EmptyClock /\ \A i \in DOMAIN H : H[i].site # s
    \/ \E i \in DOMAIN H : /\ H[i].site = s /\ c = H[i].clock
                           /\ \A j \in DOMAIN H : H[j].site = s => j <= i

ClockInv == Causal(happened) /\ \A s \in Site : ClockOf(happened, s, clocks[s])
            /\ clocks \in [Site -> Clock]

LEMMA EntryType ==
    ASSUME NEW m \in Clock, NEW s
    PROVE  Entry(m, s) \in Nat
BY DEF Entry, Clock

LEMMA NumberType ==
    ASSUME NEW H \in Seq(Event), NEW k \in DOMAIN H
    PROVE  /\ H[k] \in Event /\ H[k].site \in Site /\ H[k].clock \in Clock /\ NumberOf(H, k) \in Nat
           /\ k \in Nat /\ H[k].past \subseteq Nat
<1>1. H[k] \in Event /\ k \in Nat
    BY ElementOfSeq, LenProperties
<1>2. QED
    BY <1>1, EntryType DEF Event, NumberOf

LEMMA EmptyClockIs == EmptyClock \in Clock /\ DOMAIN EmptyClock = {}
<1>1. EmptyClock \in [{} -> Nat] /\ DOMAIN EmptyClock = {} /\ {} \in SUBSET Site
    BY DEF EmptyClock
<1>2. QED
    BY <1>1 DEF Clock

LEMMA EmptyCovers ==
    ASSUME NEW H, Causal(H)
    PROVE  Covers(H, EmptyClock, {})
<1>1. EmptyClock \in Clock /\ \A s : Entry(EmptyClock, s) = 0
    BY EmptyClockIs DEF Entry
<1>2. \A k \in DOMAIN H : NumberOf(H, k) \in Nat
    BY NumberType DEF Causal
<1>3. QED
    BY <1>1, <1>2 DEF Covers, Causal

LEMMA MergeEntries ==
    ASSUME NEW c \in Clock, NEW d \in Clock
    PROVE  /\ Merge(c, d) \in Clock
           /\ \A s : Entry(Merge(c, d), s) = IF Entry(c, s) >= Entry(d, s) THEN Entry(c, s) ELSE Entry(d, s)
<1>1. PICK C \in SUBSET Site : c \in [C -> Nat]
    BY DEF Clock
<1>2. PICK D \in SUBSET Site : d \in [D -> Nat]
    BY DEF Clock
<1> DEFINE e == Merge(c, d)
<1>3. /\ DOMAIN e = C \cup D
      /\ \A s \in C \cup D : e[s] = IF s \in D THEN MaxOf(Entry(c, s), d[s]) ELSE c[s]
      /\ e = [s \in C \cup D |-> e[s]]
    BY <1>1, <1>2 DEF Merge
<1> HIDE DEF e
<1>4. \A s \in C \cup D : e[s] \in Nat
    <2> TAKE s \in C \cup D
    <2>1. Entry(c, s) \in Nat
        BY EntryType
    <2>2. CASE s \in D
        <3>1. d[s] \in Nat
            BY <1>2, <2>2
        <3>2. QED
            BY <1>3, <2>1, <2>2, <3>1 DEF MaxOf
    <2>3. CASE s \notin D
        BY <1>1, <1>3, <2>3
    <2>4. QED
        BY <2>2, <2>3
<1>5. e \in Clock
    <2>1. e \in [C \cup D -> Nat] /\ C \cup D \in SUBSET Site
        BY <1>3, <1>4
    <2>2. QED
        BY <2>1 DEF Clock
<1>6. ASSUME NEW s
      PROVE  Entry(e, s) = IF Entry(c, s) >= Entry(d, s) THEN Entry(c, s) ELSE Entry(d, s)
    <2>1. Entry(c, s) \in Nat /\ Entry(d, s) \in Nat
        BY EntryType
    <2>2. Entry(d, s) = IF s \in D THEN d[s] ELSE 0
        BY <1>2 DEF Entry
    <2>3. Entry(c, s) = IF s \in C THEN c[s] ELSE 0
        BY <1>1 DEF Entry
    <2>4. Entry(e, s) = IF s \in C \cup D THEN e[s] ELSE 0
        BY <1>3 DEF Entry
    <2>5. CASE s \in D
        BY <1>3, <2>1, <2>2, <2>4, <2>5 DEF MaxOf
    <2>6. CASE s \notin D
        BY <1>3, <2>1, <2>2, <2>3, <2>4, <2>6
    <2>7. QED
        BY <2>5, <2>6
<1>7. QED
    BY <1>5, <1>6 DEF e

LEMMA MergeCovers ==
    ASSUME NEW H, Causal(H), NEW c, NEW P, Covers(H, c, P), NEW d, NEW Q, Covers(H, d, Q)
    PROVE  Covers(H, Merge(c, d), P \cup Q)
<1>1. c \in Clock /\ d \in Clock /\ P \subseteq DOMAIN H /\ Q \subseteq DOMAIN H
    BY DEF Covers
<1> DEFINE e == Merge(c, d)
<1>2. /\ e \in Clock
      /\ \A s : Entry(e, s) = IF Entry(c, s) >= Entry(d, s) THEN Entry(c, s) ELSE Entry(d, s)
    BY <1>1, MergeEntries
<1> HIDE DEF e
<1>3. \A s : Entry(c, s) \in Nat /\ Entry(d, s) \in Nat
    BY <1>1, EntryType
<1>4. \A k \in P \cup Q : H[k].past \subseteq P \cup Q
    BY DEF Covers
<1>5. ASSUME NEW k \in DOMAIN H
      PROVE  Entry(e, H[k].site) >= NumberOf(H, k) <=> k \in P \cup Q
    <2>1. NumberOf(H, k) \in Nat
        BY NumberType DEF Causal
    <2>2. Entry(c, H[k].site) >= NumberOf(H, k) <=> k \in P
        BY DEF Covers
    <2>3. Entry(d, H[k].site) >= NumberOf(H, k) <=> k \in Q
        BY DEF Covers
    <2>4. QED
        BY <1>2, <1>3, <2>1, <2>2, <2>3
<1>6. ASSUME NEW s \in Site
      PROVE  Entry(e, s) = 0 \/ \E k \in P \cup Q : H[k].site = s /\ NumberOf(H, k) = Entry(e, s)
    <2>1. Entry(e, s) = Entry(c, s) \/ Entry(e, s) = Entry(d, s)
        BY <1>2
    <2>2. QED
        BY <2>1 DEF Covers
<1>7. QED
    BY <1>1, <1>2, <1>4, <1>5, <1>6 DEF Covers, e

\* What a site knows covers its past, which has all events of the site.
LEMMA SiteCovers ==
    ASSUME ClockInv, NEW s \in Site
    PROVE  /\ Covers(happened, clocks[s], PastOf(s))
           /\ \A k \in DOMAIN happened : happened[k].site = s => k \in PastOf(s)
<1> DEFINE H == happened
           own == {i \in DOMAIN H : H[i].site = s}
<1>1. Causal(H) /\ ClockOf(H, s, clocks[s])
    BY DEF ClockInv
<1>2. PastOf(s) = own \cup UNION {H[i].past : i \in own}
    BY DEF PastOf
<1>3. CASE clocks[s] = EmptyClock /\ \A i \in DOMAIN H : H[i].site # s
    <2>1. own = {}
        BY <1>3
    <2>2. PastOf(s) = {}
        BY <1>2, <2>1
    <2>3. QED
        BY <1>1, <1>3, <2>2, EmptyCovers
<1>4. CASE \E i \in DOMAIN H : /\ H[i].site = s /\ clocks[s] = H[i].clock
                               /\ \A j \in DOMAIN H : H[j].site = s => j <= i
    <2>1. PICK l \in DOMAIN H : /\ H[l].site = s /\ clocks[s] = H[l].clock
                                /\ \A j \in DOMAIN H : H[j].site = s => j <= l
        BY <1>4
    <2>2. Covers(H, H[l].clock, Upto(H, l))
        BY <1>1 DEF Causal
    <2>3. \A j \in own : j \in Upto(H, l)
        <3> TAKE j \in own
        <3>1. j \in Nat /\ l \in Nat
            BY <1>1, NumberType DEF Causal
        <3>2. j = l \/ j < l
            BY <2>1, <3>1
        <3>3. QED
            BY <1>1, <2>1, <3>2 DEF Causal, Upto
    <2>4. \A j \in own : H[j].past \subseteq Upto(H, l)
        BY <2>2, <2>3 DEF Covers
    <2>5. PastOf(s) = Upto(H, l)
        BY <1>2, <2>1, <2>3, <2>4 DEF Upto
    <2>6. QED
        BY <2>1, <2>2, <2>3, <2>5
<1>5. QED
    BY <1>1, <1>3, <1>4 DEF ClockOf

\* A clock with one more event of its site.
LEMMA IncrementEntries ==
    ASSUME NEW c \in Clock, NEW s \in Site
    PROVE  /\ Increment(c, s) \in Clock
           /\ \A t : Entry(Increment(c, s), t) = IF t = s THEN Entry(c, s) + 1 ELSE Entry(c, t)
<1>1. PICK C \in SUBSET Site : c \in [C -> Nat]
    BY DEF Clock
<1> DEFINE e == Increment(c, s)
<1>2. /\ DOMAIN e = C \cup {s}
      /\ \A t \in C \cup {s} : e[t] = IF t = s THEN Entry(c, s) + 1 ELSE c[t]
      /\ e = [t \in C \cup {s} |-> e[t]]
    BY <1>1 DEF Increment
<1>3. Entry(c, s) \in Nat
    BY EntryType
<1> HIDE DEF e
<1>4. \A t \in C \cup {s} : e[t] \in Nat
    BY <1>1, <1>2, <1>3
<1>5. e \in [C \cup {s} -> Nat] /\ C \cup {s} \in SUBSET Site
    BY <1>2, <1>4
<1>6. e \in Clock
    BY <1>5 DEF Clock
<1>7. \A t : Entry(e, t) = IF t = s THEN Entry(c, s) + 1 ELSE Entry(c, t)
    BY <1>1, <1>2 DEF Entry
<1>8. QED
    BY <1>6, <1>7 DEF e

\* One more event, of a site whose earlier events are all in its past.
LEMMA OneMoreEvent ==
    ASSUME NEW H, Causal(H), NEW s \in Site, NEW m, NEW P, Covers(H, m, P),
           \A k \in DOMAIN H : H[k].site = s => k \in P
    PROVE  Causal(Append(H, [site |-> s, clock |-> Increment(m, s), past |-> P]))
<1> DEFINE n == Len(H)
           c == Increment(m, s)
           e == [site |-> s, clock |-> c, past |-> P]
           G == Append(H, e)
<1>1. H \in Seq(Event) /\ n \in Nat /\ DOMAIN H = 1 .. n
    BY LenProperties DEF Causal
<1>2. m \in Clock /\ P \subseteq DOMAIN H
    BY DEF Covers
<1>3. c \in Clock /\ \A t : Entry(c, t) = IF t = s THEN Entry(m, s) + 1 ELSE Entry(m, t)
    BY <1>2, IncrementEntries
<1>4. \A t : Entry(m, t) \in Nat
    BY <1>2, EntryType
<1> HIDE DEF c
<1>5. e \in Event /\ e.site = s /\ e.clock = c /\ e.past = P
    BY <1>1, <1>2, <1>3 DEF Event
<1> HIDE DEF e
<1>6. /\ G \in Seq(Event) /\ Len(G) = n + 1
      /\ \A i \in 1 .. n : G[i] = H[i]
      /\ G[n + 1] = e
    BY <1>1, <1>5, AppendProperties
<1> HIDE DEF G
<1>7. DOMAIN G = 1 .. n + 1
    BY <1>6, LenProperties
<1> HIDE DEF n
<1>8. /\ n + 1 \in DOMAIN G /\ \A i \in DOMAIN H : i \in DOMAIN G /\ i # n + 1 /\ i \in Nat /\ i < n + 1
      /\ \A i \in DOMAIN G : i \in DOMAIN H \/ i = n + 1
    BY <1>1, <1>7
<1>9. /\ \A i \in DOMAIN H : G[i] = H[i] /\ NumberOf(G, i) = NumberOf(H, i) /\ Upto(G, i) = Upto(H, i)
      /\ NumberOf(G, n + 1) = Entry(m, s) + 1 /\ Upto(G, n + 1) = P \cup {n + 1}
    BY <1>1, <1>3, <1>5, <1>6 DEF NumberOf, Upto
<1>10. \A i \in DOMAIN G : NumberOf(G, i) > 0 /\ \A k \in G[i].past : k < i
    <2> TAKE i \in DOMAIN G
    <2>1. CASE i \in DOMAIN H
        BY <1>9, <2>1 DEF Causal
    <2>2. CASE i = n + 1
        BY <1>2, <1>4, <1>5, <1>6, <1>8, <1>9, <2>2
    <2>3. QED
        BY <1>8, <2>1, <2>2
<1>11. \A i, j \in DOMAIN G : i < j /\ G[i].site = G[j].site => i \in G[j].past
    <2> SUFFICES ASSUME NEW i \in DOMAIN G, NEW j \in DOMAIN G, i < j, G[i].site = G[j].site
                 PROVE  i \in G[j].past
        OBVIOUS
    <2>1. i \in DOMAIN H
        BY <1>1, <1>7
    <2>2. CASE j \in DOMAIN H
        BY <1>9, <2>1, <2>2 DEF Causal
    <2>3. CASE j = n + 1
        BY <1>5, <1>6, <1>9, <2>1, <2>3
    <2>4. QED
        BY <1>8, <2>2, <2>3
\* What covered a past before covers it now: nothing has the number of the new event.
<1>12. ASSUME NEW d, NEW Q, Covers(H, d, Q)
       PROVE  \A t \in Site : Entry(d, t) \in Nat /\ (t = s => Entry(d, t) < Entry(m, s) + 1)
    <2> TAKE t \in Site
    <2>1. Entry(d, t) \in Nat
        BY <1>12, EntryType DEF Covers
    <2>2. CASE t = s
        <3>1. CASE Entry(d, t) = 0
            BY <1>4, <3>1
        <3>2. CASE \E k \in Q : H[k].site = t /\ NumberOf(H, k) = Entry(d, t)
            <4>1. PICK k \in DOMAIN H : H[k].site = t /\ NumberOf(H, k) = Entry(d, t)
                BY <1>12, <3>2 DEF Covers
            <4>2. k \in P
                BY <2>2, <4>1
            <4>3. Entry(m, H[k].site) >= NumberOf(H, k)
                BY <4>2 DEF Covers
            <4>4. QED
                BY <1>4, <2>1, <2>2, <4>1, <4>3
        <3>3. QED
            BY <1>12, <3>1, <3>2 DEF Covers
    <2>3. QED
        BY <2>1, <2>2
<1>13. ASSUME NEW i \in DOMAIN H PROVE Covers(G, G[i].clock, Upto(G, i))
    <2>1. Covers(H, H[i].clock, Upto(H, i))
        BY DEF Causal
    <2>2. Upto(H, i) \subseteq DOMAIN G /\ H[i].clock \in Clock
        BY <1>8, <2>1 DEF Covers
    <2>3. \A k \in Upto(H, i) : G[k].past \subseteq Upto(H, i)
        BY <1>9, <2>1 DEF Covers
    <2>4. ASSUME NEW k \in DOMAIN G
          PROVE  Entry(H[i].clock, G[k].site) >= NumberOf(G, k) <=> k \in Upto(H, i)
        <3>1. CASE k \in DOMAIN H
            BY <1>9, <2>1, <3>1 DEF Covers
        <3>2. CASE k = n + 1
            <4>1. k \notin Upto(H, i)
                BY <1>8, <2>1, <3>2 DEF Covers
            <4>2. Entry(H[i].clock, s) \in Nat /\ Entry(H[i].clock, s) < Entry(m, s) + 1
                BY <1>12, <2>1
            <4>3. G[k].site = s /\ NumberOf(G, k) = Entry(m, s) + 1
                BY <1>5, <1>6, <1>9, <3>2
            <4>4. QED
                BY <1>4, <4>1, <4>2, <4>3
        <3>3. QED
            BY <1>8, <3>1, <3>2
    <2>5. ASSUME NEW t \in Site
          PROVE  \/ Entry(H[i].clock, t) = 0
                 \/ \E k \in Upto(H, i) : G[k].site = t /\ NumberOf(G, k) = Entry(H[i].clock, t)
        BY <1>9, <2>1 DEF Covers
    <2>6. QED
        BY <1>9, <2>2, <2>3, <2>4, <2>5 DEF Covers
<1>14. Covers(G, G[n + 1].clock, Upto(G, n + 1))
    <2> DEFINE Q == P \cup {n + 1}
    <2>1. Q \subseteq DOMAIN G
        BY <1>2, <1>8
    <2>2. \A k \in Q : G[k].past \subseteq Q
        <3> TAKE k \in Q
        <3>1. CASE k \in P
            BY <1>2, <1>9, <3>1 DEF Covers
        <3>2. CASE k = n + 1
            BY <1>5, <1>6, <3>2
        <3>3. QED
            BY <3>1, <3>2
    <2>3. ASSUME NEW k \in DOMAIN G
          PROVE  Entry(c, G[k].site) >= NumberOf(G, k) <=> k \in Q
        <3>1. CASE k \in DOMAIN H
            <4>1. G[k] = H[k] /\ NumberOf(G, k) = NumberOf(H, k) /\ NumberOf(H, k) \in Nat /\ (k \in Q <=> k \in P)
                BY <1>1, <1>8, <1>9, <3>1, NumberType
            <4>2. Entry(m, H[k].site) >= NumberOf(H, k) <=> k \in P
                BY <3>1 DEF Covers
            <4>3. CASE H[k].site = s
                <5>1. k \in P
                    BY <3>1, <4>3
                <5>2. Entry(c, H[k].site) = Entry(m, H[k].site) + 1 /\ Entry(m, H[k].site) \in Nat
                    BY <1>3, <1>4, <4>3
                <5>3. QED
                    BY <4>1, <4>2, <5>1, <5>2
            <4>4. CASE H[k].site # s
                BY <1>3, <4>1, <4>2, <4>4
            <4>5. QED
                BY <4>3, <4>4
        <3>2. CASE k = n + 1
            <4>1. Entry(c, G[k].site) = Entry(m, s) + 1 /\ NumberOf(G, k) = Entry(m, s) + 1
                BY <1>3, <1>5, <1>6, <1>9, <3>2
            <4>2. QED
                BY <1>4, <3>2, <4>1
        <3>3. QED
            BY <1>8, <3>1, <3>2
    <2>4. ASSUME NEW t \in Site
          PROVE  Entry(c, t) = 0 \/ \E k \in Q : G[k].site = t /\ NumberOf(G, k) = Entry(c, t)
        <3>1. CASE t = s
            BY <1>3, <1>5, <1>6, <1>9, <3>1
        <3>2. CASE t # s
            <4>1. Entry(c, t) = Entry(m, t)
                BY <1>3, <3>2
            <4>2. Entry(m, t) = 0 \/ \E k \in P : H[k].site = t /\ NumberOf(H, k) = Entry(m, t)
                BY DEF Covers
            <4>3. QED
                BY <1>2, <1>9, <4>1, <4>2
        <3>3. QED
            BY <3>1, <3>2
    <2>5. G[n + 1].clock = c /\ Upto(G, n + 1) = Q
        BY <1>5, <1>6, <1>9
    <2> HIDE DEF Q
    <2>6. QED
        BY <1>3, <2>1, <2>2, <2>3, <2>4, <2>5 DEF Covers
<1>15. \A i \in DOMAIN G : Covers(G, G[i].clock, Upto(G, i))
    BY <1>8, <1>13, <1>14
<1>16. QED
    BY <1>6, <1>10, <1>11, <1>15 DEF Causal, G, e, c

-----------------------------------------------------------------------------

LEMMA HappensKeeps ==
    ASSUME ClockInv, NEW s \in Site, NEW m, NEW P, Covers(happened, m, P),
           \A k \in DOMAIN happened : happened[k].site = s => k \in P,
           Happens(s, Increment(m, s), P)
    PROVE  ClockInv'
<1> DEFINE H == happened
           n == Len(happened)
           c == Increment(m, s)
           e == [site |-> s, clock |-> c, past |-> P]
<1>1. Causal(H) /\ clocks \in [Site -> Clock] /\ \A t \in Site : ClockOf(H, t, clocks[t])
    BY DEF ClockInv
<1>2. H \in Seq(Event) /\ n \in Nat /\ DOMAIN H = 1 .. n
    BY <1>1, LenProperties DEF Causal
<1>3. m \in Clock /\ P \subseteq DOMAIN H
    BY DEF Covers
<1>4. c \in Clock
    BY <1>3, IncrementEntries
<1>5. clocks' = [clocks EXCEPT ![s] = c] /\ happened' = Append(H, e)
    BY DEF Happens
<1>6. Causal(happened')
    BY <1>1, <1>5, OneMoreEvent
<1> HIDE DEF c
<1>7. e \in Event /\ e.site = s /\ e.clock = c
    BY <1>2, <1>3, <1>4 DEF Event
<1> HIDE DEF e
<1>8. /\ Len(happened') = n + 1 /\ happened' \in Seq(Event)
      /\ \A i \in 1 .. n : happened'[i] = H[i]
      /\ happened'[n + 1] = e
    BY <1>2, <1>5, <1>7, AppendProperties
<1>9. DOMAIN happened' = 1 .. n + 1
    BY <1>8, LenProperties
<1>10. clocks' \in [Site -> Clock]
    BY <1>1, <1>4, <1>5
<1> HIDE DEF n
<1>11. /\ n + 1 \in DOMAIN happened' /\ \A i \in DOMAIN H : i \in DOMAIN happened' /\ i <= n + 1
       /\ \A i \in DOMAIN happened' : i <= n + 1 /\ (i \in DOMAIN H \/ i = n + 1)
    BY <1>2, <1>9
<1>12. ASSUME NEW t \in Site PROVE ClockOf(happened', t, clocks'[t])
    <2>1. CASE t = s
        <3>1. clocks'[t] = c
            BY <1>1, <1>5, <2>1
        <3>2. QED
            BY <1>7, <1>8, <1>11, <2>1, <3>1 DEF ClockOf
    <2>2. CASE t # s
        <3>1. clocks'[t] = clocks[t]
            BY <1>1, <1>5, <2>2
        <3>2. \A i \in DOMAIN happened' : happened'[i].site = t => i \in DOMAIN H /\ H[i].site = t
            BY <1>2, <1>7, <1>8, <1>11, <2>2
        <3>3. \A i \in DOMAIN H : happened'[i] = H[i]
            BY <1>2, <1>8
        <3>4. CASE clocks[t] = EmptyClock /\ \A i \in DOMAIN H : H[i].site # t
            BY <3>1, <3>2, <3>4 DEF ClockOf
        <3>5. CASE \E i \in DOMAIN H : /\ H[i].site = t /\ clocks[t] = H[i].clock
                                       /\ \A j \in DOMAIN H : H[j].site = t => j <= i
            <4>1. PICK i \in DOMAIN H : /\ H[i].site = t /\ clocks[t] = H[i].clock
                                        /\ \A j \in DOMAIN H : H[j].site = t => j <= i
                BY <3>5
            <4>2. /\ i \in DOMAIN happened' /\ happened'[i].site = t /\ clocks'[t] = happened'[i].clock
                  /\ \A j \in DOMAIN happened' : happened'[j].site = t => j <= i
                BY <1>11, <3>1, <3>2, <3>3, <4>1
            <4>3. QED
                BY <4>2 DEF ClockOf
        <3>6. QED
            BY <1>1, <3>4, <3>5 DEF ClockOf
    <2>3. QED
        BY <2>1, <2>2
<1>13. QED
    BY <1>6, <1>10, <1>12 DEF ClockInv

LEMMA LocalEventKeeps ==
    ASSUME ClockInv, NEW s \in Site, LocalEvent(s)
    PROVE  ClockInv'
BY SiteCovers, HappensKeeps DEF LocalEvent

LEMMA HearKeeps ==
    ASSUME ClockInv, NEW s \in Site, Hear(s)
    PROVE  ClockInv'
<1> DEFINE H == happened
<1>1. PICK i \in DOMAIN H :
          Happens(s, Increment(Merge(clocks[s], H[i].clock), s), PastOf(s) \cup {i} \cup H[i].past)
    BY DEF Hear
<1>2. Causal(H) /\ Covers(H, clocks[s], PastOf(s))
      /\ \A k \in DOMAIN H : H[k].site = s => k \in PastOf(s)
    BY SiteCovers DEF ClockInv
<1>3. Covers(H, H[i].clock, Upto(H, i))
    BY <1>2 DEF Causal
<1> DEFINE m == Merge(clocks[s], H[i].clock)
           P == PastOf(s) \cup Upto(H, i)
<1>4. Covers(H, m, P)
    BY <1>2, <1>3, MergeCovers
<1>5. P = PastOf(s) \cup {i} \cup H[i].past
    BY DEF Upto
<1>6. Happens(s, Increment(m, s), P)
    BY <1>1, <1>5
<1>7. \A k \in DOMAIN H : H[k].site = s => k \in P
    BY <1>2
<1> HIDE DEF m, P
<1>8. QED
    BY <1>4, <1>6, <1>7, HappensKeeps

LEMMA ClockInvAlways == ClockSpec => []ClockInv
<1>1. ClockInit => ClockInv
    <2> SUFFICES ASSUME ClockInit PROVE ClockInv
        OBVIOUS
    <2>1. DOMAIN happened = {} /\ happened \in Seq(Event)
        BY EmptySeq DEF ClockInit
    <2>2. EmptyClock \in Clock
        BY EmptyClockIs
    <2>3. clocks \in [Site -> Clock] /\ \A s \in Site : clocks[s] = EmptyClock
        BY <2>2 DEF ClockInit
    <2>4. QED
        BY <2>1, <2>3 DEF ClockInv, Causal, ClockOf
<1>2. ClockInv /\ [ClockNext]_clockVars => ClockInv'
    <2> SUFFICES ASSUME ClockInv, [ClockNext]_clockVars PROVE ClockInv'
        OBVIOUS
    <2>1. ASSUME NEW s \in Site, LocalEvent(s) PROVE ClockInv'
        BY <2>1, LocalEventKeeps
    <2>2. ASSUME NEW s \in Site, Hear(s) PROVE ClockInv'
        BY <2>2, HearKeeps
    <2>3. CASE UNCHANGED clockVars
        BY <2>3 DEF clockVars, ClockInv
    <2>4. QED
        BY <2>1, <2>2, <2>3 DEF ClockNext
<1>3. QED
    BY <1>1, <1>2, PTL DEF ClockSpec

\* The entries of two clocks say which of two sets of events is part of the other.
LEMMA EntriesGrow ==
    ASSUME NEW H, Causal(H), NEW c, NEW P, Covers(H, c, P), NEW d, NEW Q, Covers(H, d, Q),
           P \subseteq Q, NEW s
    PROVE  Entry(c, s) <= Entry(d, s)
<1>1. c \in Clock /\ d \in Clock
    BY DEF Covers
<1>2. Entry(c, s) \in Nat /\ Entry(d, s) \in Nat
    BY <1>1, EntryType
<1>3. CASE Entry(c, s) = 0
    BY <1>2, <1>3
<1>4. CASE Entry(c, s) # 0
    <2>1. s \in Site
        BY <1>1, <1>4 DEF Clock, Entry
    <2>2. PICK k \in P : H[k].site = s /\ NumberOf(H, k) = Entry(c, s)
        BY <1>4, <2>1 DEF Covers
    <2>3. Entry(d, s) >= NumberOf(H, k)
        BY <2>2 DEF Covers
    <2>4. QED
        BY <1>2, <2>2, <2>3
<1>5. QED
    BY <1>3, <1>4

LEMMA ComparesByCause == ClockInv => CompareIsCausality
<1> DEFINE H == happened
           c(i) == H[i].clock
<1> SUFFICES ASSUME ClockInv, NEW i \in DOMAIN H, NEW j \in DOMAIN H
             PROVE  Compare(c(i), c(j)) = CASE i = j -> "EQUAL"
                                            [] i \in H[j].past -> "BEFORE"
                                            [] j \in H[i].past -> "AFTER"
                                            [] OTHER -> "CONCURRENT"
    BY DEF CompareIsCausality
<1>1. Causal(H) /\ H \in Seq(Event)
    BY DEF ClockInv, Causal
<1>2. \A k \in DOMAIN H : Covers(H, c(k), Upto(H, k)) /\ c(k) \in Clock /\ H[k].site \in Site
                          /\ NumberOf(H, k) = Entry(c(k), H[k].site) /\ NumberOf(H, k) \in Nat
    BY <1>1, NumberType DEF Causal, NumberOf
<1>3. i \in Nat /\ j \in Nat /\ (\A k \in H[i].past : k < i) /\ (\A k \in H[j].past : k < j)
    BY <1>1, NumberType DEF Causal
\* An entry of the one is not above that of the other, if its event is in the other's past.
<1>4. ASSUME NEW k \in DOMAIN H, NEW l \in DOMAIN H, k \in Upto(H, l)
      PROVE  \A s : Entry(c(k), s) <= Entry(c(l), s)
    <2>1. Upto(H, k) \subseteq Upto(H, l)
        BY <1>2, <1>4 DEF Covers, Upto
    <2>2. QED
        BY <1>1, <1>2, <2>1, EntriesGrow
<1>5. ASSUME NEW k \in DOMAIN H, NEW l \in DOMAIN H, k \notin Upto(H, l)
      PROVE  Entry(c(k), H[k].site) > Entry(c(l), H[k].site) /\ H[k].site \in DOMAIN c(k)
    <2>1. ~(Entry(c(l), H[k].site) >= NumberOf(H, k))
        BY <1>2, <1>5 DEF Covers
    <2>2. Entry(c(l), H[k].site) \in Nat
        BY <1>2, EntryType
    <2>3. NumberOf(H, k) > Entry(c(l), H[k].site) /\ NumberOf(H, k) # 0
        BY <1>2, <2>1, <2>2
    <2>4. QED
        BY <1>2, <2>3 DEF Entry
<1> DEFINE nodes == DOMAIN c(i) \cup DOMAIN c(j)
           greater == \E s \in nodes : Entry(c(i), s) > Entry(c(j), s)
           lesser == \E s \in nodes : Entry(c(i), s) < Entry(c(j), s)
<1>6. \A s : Entry(c(i), s) \in Nat /\ Entry(c(j), s) \in Nat
    BY <1>2, EntryType
<1>7. greater <=> i \notin Upto(H, j)
    <2>1. ASSUME i \in Upto(H, j) PROVE ~greater
        <3>1. \A s : Entry(c(i), s) <= Entry(c(j), s)
            BY <1>4, <2>1
        <3>2. QED
            BY <1>6, <3>1
    <2>2. ASSUME i \notin Upto(H, j) PROVE greater
        BY <1>5, <2>2
    <2>3. QED
        BY <2>1, <2>2
<1>8. lesser <=> j \notin Upto(H, i)
    <2>1. ASSUME j \in Upto(H, i) PROVE ~lesser
        <3>1. \A s : Entry(c(j), s) <= Entry(c(i), s)
            BY <1>4, <2>1
        <3>2. QED
            BY <1>6, <3>1
    <2>2. ASSUME j \notin Upto(H, i) PROVE lesser
        <3>1. Entry(c(j), H[j].site) > Entry(c(i), H[j].site) /\ H[j].site \in nodes
            BY <1>5, <2>2
        <3>2. QED
            BY <1>6, <3>1
    <2>3. QED
        BY <2>1, <2>2
<1>9. Compare(c(i), c(j)) = CASE greater /\ lesser -> "CONCURRENT"
                              [] greater /\ ~lesser -> "AFTER"
                              [] ~greater /\ lesser -> "BEFORE"
                              [] OTHER -> "EQUAL"
    BY Zenon DEF Compare
<1> HIDE DEF greater, lesser
<1>10. CASE i = j
    <2>1. ~greater /\ ~lesser
        BY <1>7, <1>8, <1>10 DEF Upto
    <2>2. i \notin H[j].past /\ j \notin H[i].past
        BY <1>3, <1>10
    <2>3. QED
        BY <1>9, <1>10, <2>1, <2>2
<1>11. CASE i # j /\ i \in H[j].past
    <2>1. j \notin H[i].past
        BY <1>3, <1>11
    <2>2. ~greater /\ lesser
        BY <1>7, <1>8, <1>11, <2>1 DEF Upto
    <2>3. QED
        BY <1>9, <1>11, <2>1, <2>2
<1>12. CASE i # j /\ j \in H[i].past
    <2>1. i \notin H[j].past
        BY <1>3, <1>12
    <2>2. greater /\ ~lesser
        BY <1>7, <1>8, <1>12, <2>1 DEF Upto
    <2>3. QED
        BY <1>9, <1>12, <2>1, <2>2
<1>13. CASE i # j /\ i \notin H[j].past /\ j \notin H[i].past
    <2>1. greater /\ lesser
        BY <1>7, <1>8, <1>13 DEF Upto
    <2>2. QED
        BY <1>9, <1>13, <2>1
<1>14. QED
    BY <1>10, <1>11, <1>12, <1>13

\* Of any two events of any number of nodes, whatever they heard and how often, compare
\* tells by their clocks which caused the other, and that neither did when neither did.
THEOREM ClocksTellCauses == ClockSpec => []CompareIsCausality
BY ClockInvAlways, ComparesByCause, PTL

-----------------------------------------------------------------------------
(* The heap.                                                               *)

\* An item is not before its parent.
Follows(h, i) == h[i \div 2] <= h[i]

\* The children of a place are not before its parent.
Spans(h, p) == p > 1 => \A c \in 2 .. Len(h) : c \div 2 = p => h[p \div 2] <= h[c]

\* The item at p may belong above it, or below it, unless it came down from the hole q.
UpInv(h, p) ==
    /\ p \in DOMAIN h /\ Spans(h, p)
    /\ \A i \in 2 .. Len(h) : i # p => Follows(h, i)

DownInv(h, p, q) ==
    /\ p \in DOMAIN h /\ q \in DOMAIN h /\ q <= p /\ Spans(h, p)
    /\ \A i \in 2 .. Len(h) : i # p /\ i \div 2 # p => Follows(h, i)
    /\ p # q => Follows(h, p)

CountOf(h, r) == Cardinality({i \in DOMAIN h : h[i] = r})

HeapInv ==
    /\ heap \in Seq(Rank) /\ kept \in [Rank -> Int]
    /\ sifting \in {"none", "up", "down"}
    /\ \A r \in Rank : kept[r] = CountOf(heap, r)
    /\ sifting = "none" => \A i \in 2 .. Len(heap) : Follows(heap, i)
    /\ sifting = "up" => UpInv(heap, idx)
    /\ sifting = "down" => DownInv(heap, idx, hole)

LEMMA Halves ==
    ASSUME NEW i \in Nat
    PROVE  /\ i \div 2 \in Nat /\ (i = 2 * (i \div 2) \/ i = 2 * (i \div 2) + 1)
OBVIOUS

\* What the halves of places say of parents and children.
LEMMA ParentIs ==
    ASSUME NEW i \in Nat, i >= 2
    PROVE  i \div 2 \in Nat /\ i \div 2 >= 1 /\ i \div 2 < i
           /\ \A p \in Nat : i \div 2 = p <=> i = 2 * p \/ i = 2 * p + 1
BY Halves

LEMMA HeapItems ==
    ASSUME NEW h \in Seq(Rank)
    PROVE  Len(h) \in Nat /\ DOMAIN h = 1 .. Len(h) /\ \A i \in 1 .. Len(h) : h[i] \in Int
BY LenProperties, ElementOfSeq, RankAssumption

LEMMA SwappedIs ==
    ASSUME NEW h \in Seq(Rank), NEW i \in DOMAIN h, NEW j \in DOMAIN h
    PROVE  /\ Swapped(h, i, j) \in Seq(Rank) /\ Len(Swapped(h, i, j)) = Len(h)
           /\ DOMAIN Swapped(h, i, j) = DOMAIN h
           /\ \A k \in DOMAIN h : Swapped(h, i, j)[k] =
                 IF k = j THEN h[i] ELSE IF k = i THEN h[j] ELSE h[k]
<1>1. Len(h) \in Nat /\ DOMAIN h = 1 .. Len(h) /\ h \in [1 .. Len(h) -> Rank]
    BY LenProperties
<1> DEFINE g == Swapped(h, i, j)
<1>2. g \in [1 .. Len(h) -> Rank]
    BY <1>1 DEF Swapped
<1>3. g \in Seq(Rank) /\ Len(g) = Len(h) /\ DOMAIN g = 1 .. Len(h)
    <2> HIDE DEF g
    <2>1. g \in Seq(Rank)
        BY <1>1, <1>2, SeqDef
    <2>2. QED
        BY <1>1, <1>2, <2>1, LenProperties
<1>4. \A k \in DOMAIN h : g[k] = IF k = j THEN h[i] ELSE IF k = i THEN h[j] ELSE h[k]
    BY <1>1 DEF Swapped
<1>5. QED
    BY <1>1, <1>3, <1>4

\* Two items change places: there are as many of each rank.
LEMMA SwappedCounts ==
    ASSUME NEW h \in Seq(Rank), NEW i \in DOMAIN h, NEW j \in DOMAIN h, NEW r
    PROVE  CountOf(Swapped(h, i, j), r) = CountOf(h, r)
<1> DEFINE g == Swapped(h, i, j)
           A == {k \in DOMAIN h : h[k] = r}
           B == {k \in DOMAIN g : g[k] = r}
           f == [k \in A |-> IF k = i THEN j ELSE IF k = j THEN i ELSE k]
<1>1. DOMAIN g = DOMAIN h /\ DOMAIN h = 1 .. Len(h) /\ Len(h) \in Nat
      /\ \A k \in DOMAIN h : g[k] = IF k = j THEN h[i] ELSE IF k = i THEN h[j] ELSE h[k]
    BY SwappedIs, LenProperties
<1> HIDE DEF g
<1>2. IsFiniteSet(A) /\ IsFiniteSet(B)
    <2>1. A \in SUBSET (1 .. Len(h)) /\ B \in SUBSET (1 .. Len(h))
        BY <1>1
    <2>2. IsFiniteSet(1 .. Len(h))
        BY <1>1, FirstNumbers
    <2>3. QED
        BY <2>1, <2>2, FS_Subset
<1>3. f \in Bijection(A, B)
    <2>1. f \in [A -> B]
        BY <1>1
    <2>2. \A k, l \in A : f[k] = f[l] => k = l
        OBVIOUS
    <2>3. \A m \in B : \E k \in A : f[k] = m
        <3> TAKE m \in B
        <3> DEFINE k == IF m = i THEN j ELSE IF m = j THEN i ELSE m
        <3>1. k \in A /\ f[k] = m
            BY <1>1
        <3>2. QED
            BY <3>1
    <2> HIDE DEF f
    <2>4. QED
        BY <2>1, <2>2, <2>3, Fun_IsBij
<1>4. ExistsBijection(A, B)
    BY <1>3 DEF ExistsBijection
<1>5. Cardinality(A) = Cardinality(B)
    BY <1>2, <1>4, FS_Bijection
<1>6. QED
    BY <1>5 DEF CountOf, g

-----------------------------------------------------------------------------

\* A round of sifting up, and its end.
LEMMA UpRound ==
    ASSUME NEW h \in Seq(Rank), NEW p, UpInv(h, p), p > 1, h[p] < h[p \div 2]
    PROVE  p \div 2 \in DOMAIN h /\ UpInv(Swapped(h, p, p \div 2), p \div 2)
<1> DEFINE n == Len(h)
           q == p \div 2
           g == Swapped(h, p, q)
<1>1. n \in Nat /\ DOMAIN h = 1 .. n /\ \A i \in 1 .. n : h[i] \in Int
    BY HeapItems
<1>2. p \in 1 .. n /\ p \in Nat /\ p >= 2
    BY <1>1 DEF UpInv
<1>3. q \in Nat /\ q >= 1 /\ q < p /\ q \in 1 .. n
    BY <1>1, <1>2, ParentIs
<1>4. /\ DOMAIN g = 1 .. n /\ Len(g) = n
      /\ \A k \in 1 .. n : g[k] = IF k = q THEN h[p] ELSE IF k = p THEN h[q] ELSE h[k]
    <2> HIDE DEF q
    <2>1. p \in DOMAIN h /\ q \in DOMAIN h
        BY <1>1, <1>2, <1>3
    <2>2. /\ Len(g) = Len(h) /\ DOMAIN g = DOMAIN h
          /\ \A k \in DOMAIN h : g[k] = IF k = q THEN h[p] ELSE IF k = p THEN h[q] ELSE h[k]
        BY <2>1, SwappedIs
    <2> HIDE DEF g
    <2>3. QED
        BY <1>1, <2>2
<1>5. /\ \A i \in 2 .. n : i # p => h[i \div 2] <= h[i]
      /\ \A c \in 2 .. n : c \div 2 = p => h[q] <= h[c]
    BY <1>2 DEF UpInv, Spans, Follows
<1>6. \A i \in 2 .. n : i \in Nat /\ i >= 2 /\ i \in 1 .. n /\ i \div 2 \in 1 .. n /\ i \div 2 < i
    <2> TAKE i \in 2 .. n
    <2>1. i \in Nat /\ i >= 2 /\ i \in 1 .. n
        BY <1>1
    <2>2. i \div 2 \in Nat /\ i \div 2 >= 1 /\ i \div 2 < i
        BY <2>1, ParentIs
    <2> DEFINE half == i \div 2
    <2> HIDE DEF half
    <2>3. half \in 1 .. n
        BY <1>1, <2>1, <2>2 DEF half
    <2>4. QED
        BY <2>1, <2>2, <2>3 DEF half
<1>7. h[p] < h[q]
    OBVIOUS
<1>8. p \in 2 .. n /\ q = p \div 2
    BY <1>1, <1>2
<1> HIDE DEF g, q, n
<1>9. ASSUME NEW i \in 2 .. n, i # q PROVE g[i \div 2] <= g[i]
    <2> DEFINE half == i \div 2
    <2>1. i \in 1 .. n /\ half \in 1 .. n /\ half # i
        BY <1>6
    <2>2. i # p => h[half] <= h[i]
        BY <1>5
    <2>3. half = p => h[q] <= h[i]
        BY <1>5
    <2>4. i = p => half = q
        BY <1>8
    <2>5. h[half] \in Int /\ h[i] \in Int /\ h[p] \in Int /\ h[q] \in Int
        BY <1>1, <1>2, <1>3, <2>1
    <2> HIDE DEF half
    <2>6. g[half] = (IF half = q THEN h[p] ELSE IF half = p THEN h[q] ELSE h[half])
        BY <1>4, <2>1
    <2>7. g[i] = IF i = p THEN h[q] ELSE h[i]
        BY <1>4, <1>9, <2>1
    <2>8. g[half] <= g[i]
        <3>1. CASE i = p
            BY <1>7, <2>4, <2>5, <2>6, <2>7, <3>1
        <3>2. CASE i # p /\ half = q
            BY <1>7, <2>2, <2>5, <2>6, <2>7, <3>2
        <3>3. CASE i # p /\ half = p
            BY <1>3, <2>3, <2>6, <2>7, <3>3
        <3>4. CASE i # p /\ half # p /\ half # q
            BY <2>2, <2>6, <2>7, <3>4
        <3>5. QED
            BY <3>1, <3>2, <3>3, <3>4
    <2>9. QED
        BY <2>8 DEF half
<1>10. ASSUME q > 1, NEW c \in 2 .. n, c \div 2 = q PROVE g[q \div 2] <= g[c]
    <2> DEFINE half == q \div 2
    <2>1. q \in 2 .. n
        BY <1>1, <1>3, <1>10
    <2>2. half \in 1 .. n /\ half < q /\ h[half] <= h[q]
        BY <1>3, <1>5, <1>6, <2>1
    <2>3. c \in 1 .. n /\ c # q
        BY <1>6, <1>10
    <2>4. c # p => h[q] <= h[c]
        BY <1>5, <1>10
    <2> HIDE DEF half
    <2>5. half # p /\ half # q /\ half \in Nat
        BY <1>2, <1>3, <2>2
    <2>6. g[half] = h[half] /\ g[c] = IF c = p THEN h[q] ELSE h[c]
        BY <1>4, <2>2, <2>3, <2>5
    <2>7. h[half] \in Int /\ h[q] \in Int /\ h[c] \in Int
        BY <1>1, <1>3, <2>2, <2>3
    <2>8. g[half] <= g[c]
        BY <2>2, <2>4, <2>6, <2>7
    <2>9. QED
        BY <2>8 DEF half
<1>11. UpInv(g, q)
    BY <1>3, <1>4, <1>9, <1>10 DEF UpInv, Spans, Follows
<1>12. QED
    BY <1>1, <1>3, <1>11 DEF g, q, n

LEMMA UpEnds ==
    ASSUME NEW h \in Seq(Rank), NEW p, UpInv(h, p), ~(p > 1 /\ h[p] < h[p \div 2])
    PROVE  \A i \in 2 .. Len(h) : Follows(h, i)
<1> TAKE i \in 2 .. Len(h)
<1>1. Len(h) \in Nat /\ DOMAIN h = 1 .. Len(h) /\ \A k \in 1 .. Len(h) : h[k] \in Int
    BY HeapItems
<1>2. CASE i # p
    BY <1>2 DEF UpInv
<1>3. CASE i = p
    <2>1. p > 1 /\ p \in 1 .. Len(h) /\ p \in Nat /\ p >= 2
        BY <1>1, <1>3
    <2> DEFINE half == p \div 2
    <2>2. half \in Nat /\ half >= 1 /\ half < p
        BY <2>1, ParentIs
    <2> HIDE DEF half
    <2>3. half \in 1 .. Len(h)
        BY <1>1, <2>1, <2>2
    <2>4. h[half] \in Int /\ h[p] \in Int /\ ~(h[p] < h[half])
        BY <1>1, <2>1, <2>3 DEF half
    <2>5. h[half] <= h[p]
        BY <2>4
    <2>6. QED
        BY <1>3, <2>5 DEF Follows, half
<1>4. QED
    BY <1>2, <1>3

\* The child that _siftDown compares with.
LEMMA BestChildIs ==
    ASSUME NEW h \in Seq(Rank), NEW p \in DOMAIN h, 2 * p <= Len(h)
    PROVE  /\ BestChild(h, p) \in 2 .. Len(h) /\ BestChild(h, p) \div 2 = p
           /\ \A c \in 2 .. Len(h) : c \div 2 = p => h[BestChild(h, p)] <= h[c]
<1> DEFINE n == Len(h)
           b == BestChild(h, p)
<1>1. n \in Nat /\ p \in Nat /\ p \in 1 .. n /\ \A k \in 1 .. n : h[k] \in Int
    BY HeapItems
<1>2. 2 * p \in 2 .. n /\ 2 * p \in 1 .. n /\ 2 * p \in Nat /\ 2 * p >= 2
    BY <1>1
<1>3. \A c \in 2 .. n : c \div 2 = p => c = 2 * p \/ c = 2 * p + 1
    <2> TAKE c \in 2 .. n
    <2>1. c \in Nat /\ c >= 2
        BY <1>1
    <2>2. \A x \in Nat : c \div 2 = x <=> c = 2 * x \/ c = 2 * x + 1
        BY <2>1, ParentIs
    <2>3. QED
        BY <1>1, <2>2
<1>4. (2 * p) \div 2 = p /\ (2 * p + 1) \div 2 = p
    <2> DEFINE l == 2 * p
               r == 2 * p + 1
    <2>1. l \in Nat /\ l >= 2 /\ r \in Nat /\ r >= 2
        BY <1>1, <1>2
    <2> HIDE DEF l, r
    <2>2. \A x \in Nat : l \div 2 = x <=> l = 2 * x \/ l = 2 * x + 1
        BY <2>1, ParentIs
    <2>3. \A x \in Nat : r \div 2 = x <=> r = 2 * x \/ r = 2 * x + 1
        BY <2>1, ParentIs
    <2>4. QED
        BY <1>1, <2>2, <2>3 DEF l, r
<1>5. CASE 2 * p < n
    <2> DEFINE l == 2 * p
               r == 2 * p + 1
    <2>1. l \in 1 .. n /\ r \in 1 .. n /\ r \in 2 .. n /\ l \in 2 .. n
        BY <1>1, <1>2, <1>5
    <2>2. h[l] \in Int /\ h[r] \in Int
        BY <1>1, <2>1
    <2>3. b = IF h[r] < h[l] THEN r ELSE l
        BY <1>5 DEF BestChild
    <2>4. b \in 2 .. n /\ b \div 2 = p
        <3> HIDE DEF b
        <3>1. b = l \/ b = r
            BY <2>3
        <3>2. QED
            BY <1>4, <2>1, <3>1
    <2> HIDE DEF b, l, r
    <2>5. h[b] <= h[l] /\ h[b] <= h[r]
        BY <2>2, <2>3
    <2>6. QED
        BY <1>3, <2>4, <2>5 DEF b, l, r
<1>6. CASE ~(2 * p < n)
    <2>1. b = 2 * p
        BY <1>6 DEF BestChild
    <2>2. \A c \in 2 .. n : c \div 2 = p => c = 2 * p
        <3> TAKE c \in 2 .. n
        <3>1. c <= n /\ c \in Nat
            BY <1>1
        <3>2. QED
            BY <1>1, <1>2, <1>3, <1>6, <3>1
    <2>3. h[2 * p] <= h[2 * p]
        BY <1>1, <1>2
    <2> HIDE DEF b
    <2>4. QED
        BY <1>2, <1>4, <2>1, <2>2, <2>3 DEF b
<1>7. QED
    BY <1>5, <1>6

LEMMA ParentsAre ==
    ASSUME NEW h \in Seq(Rank), NEW i \in 2 .. Len(h)
    PROVE  /\ i \in Nat /\ i \in 1 .. Len(h) /\ i \div 2 \in 1 .. Len(h) /\ i \div 2 < i /\ i \div 2 # i
           /\ i \div 2 \in Nat
           /\ i \in DOMAIN h /\ i \div 2 \in DOMAIN h
           /\ h[i \div 2] \in Int /\ h[i] \in Int
<1>1. Len(h) \in Nat /\ DOMAIN h = 1 .. Len(h) /\ \A k \in 1 .. Len(h) : h[k] \in Int
    BY HeapItems
<1>2. i \in Nat /\ i >= 2 /\ i \in 1 .. Len(h)
    BY <1>1
<1> DEFINE half == i \div 2
<1>3. half \in Nat /\ half >= 1 /\ half < i
    BY <1>2, ParentIs
<1> HIDE DEF half
<1>4. half \in 1 .. Len(h)
    BY <1>1, <1>2, <1>3
<1>5. h[half] \in Int /\ h[i] \in Int /\ half # i
    BY <1>1, <1>2, <1>3, <1>4
<1>6. QED
    BY <1>1, <1>2, <1>3, <1>4, <1>5 DEF half

\* A round of sifting down, and its end.
LEMMA DownRound ==
    ASSUME NEW h \in Seq(Rank), NEW p, NEW q, DownInv(h, p, q),
           2 * p <= Len(h), h[BestChild(h, p)] < h[p]
    PROVE  /\ BestChild(h, p) \in DOMAIN h
           /\ DownInv(Swapped(h, p, BestChild(h, p)), BestChild(h, p), q)
<1> DEFINE n == Len(h)
           b == BestChild(h, p)
           g == Swapped(h, p, b)
<1>1. n \in Nat /\ DOMAIN h = 1 .. n /\ \A i \in 1 .. n : h[i] \in Int
    BY HeapItems
<1>2. p \in DOMAIN h /\ p \in 1 .. n /\ q \in 1 .. n /\ q <= p /\ p \in Nat /\ q \in Nat
    BY <1>1 DEF DownInv
<1>3. b \in 2 .. n /\ b \div 2 = p /\ (\A c \in 2 .. n : c \div 2 = p => h[b] <= h[c]) /\ h[b] < h[p]
    BY <1>2, BestChildIs
<1>4. b \in 1 .. n /\ b \in Nat /\ p < b /\ b # p
    BY <1>3, ParentsAre
<1>5. /\ DOMAIN g = 1 .. n /\ Len(g) = n
      /\ \A k \in 1 .. n : g[k] = IF k = b THEN h[p] ELSE IF k = p THEN h[b] ELSE h[k]
    <2> HIDE DEF b
    <2>1. p \in DOMAIN h /\ b \in DOMAIN h
        BY <1>1, <1>2, <1>4
    <2>2. /\ Len(g) = Len(h) /\ DOMAIN g = DOMAIN h
          /\ \A k \in DOMAIN h : g[k] = IF k = b THEN h[p] ELSE IF k = p THEN h[b] ELSE h[k]
        BY <2>1, SwappedIs
    <2> HIDE DEF g
    <2>3. QED
        BY <1>1, <2>2
<1>6. /\ \A i \in 2 .. n : i # p /\ i \div 2 # p => h[i \div 2] <= h[i]
      /\ p > 1 => \A c \in 2 .. n : c \div 2 = p => h[p \div 2] <= h[c]
    BY DEF DownInv, Spans, Follows
<1>7. \A i \in 2 .. n : i \in 1 .. n /\ i \div 2 \in 1 .. n /\ i \div 2 < i /\ i \div 2 # i
    BY ParentsAre
<1> HIDE DEF g, b, n
<1>8. ASSUME NEW i \in 2 .. n, i # b, i \div 2 # b PROVE g[i \div 2] <= g[i]
    <2> DEFINE half == i \div 2
    <2>1. i \in 1 .. n /\ half \in 1 .. n /\ half # i /\ half # b
        BY <1>7, <1>8
    <2>2. i # p /\ half # p => h[half] <= h[i]
        BY <1>6
    <2>3. i = p => h[half] <= h[b]
        <3>1. SUFFICES ASSUME i = p PROVE h[p \div 2] <= h[b]
            OBVIOUS
        <3>2. p > 1
            BY <1>1, <3>1
        <3>3. QED
            BY <1>3, <1>6, <3>2
    <2>4. half = p => h[b] <= h[i]
        BY <1>3
    <2> HIDE DEF half
    <2>5. g[half] = IF half = p THEN h[b] ELSE h[half]
        BY <1>5, <2>1
    <2>6. g[i] = IF i = p THEN h[b] ELSE h[i]
        BY <1>5, <1>8, <2>1
    <2>7. g[half] <= g[i]
        BY <2>1, <2>2, <2>3, <2>4, <2>5, <2>6
    <2>8. QED
        BY <2>7 DEF half
<1>9. ASSUME NEW c \in 2 .. n, c \div 2 = b PROVE g[b \div 2] <= g[c]
    <2>1. c \in 1 .. n /\ c # b /\ b < c /\ c \in Nat
        BY <1>1, <1>7, <1>9
    <2>2. c # p
        BY <1>4, <2>1
    <2>3. h[b] <= h[c]
        BY <1>4, <1>6, <1>9, <2>2
    <2>4. g[p] = h[b] /\ g[c] = h[c]
        BY <1>2, <1>4, <1>5, <2>1, <2>2
    <2>5. QED
        BY <1>3, <2>3, <2>4
<1>10. g[b \div 2] <= g[b]
    <2>1. g[p] = h[b] /\ g[b] = h[p] /\ h[b] \in Int /\ h[p] \in Int
        BY <1>1, <1>2, <1>4, <1>5
    <2>2. QED
        BY <1>3, <2>1
<1>11. q <= b
    BY <1>2, <1>4
<1>12. DownInv(g, b, q)
    BY <1>2, <1>4, <1>5, <1>8, <1>9, <1>10, <1>11 DEF DownInv, Spans, Follows
<1>13. QED
    BY <1>1, <1>4, <1>12 DEF g, b, n

LEMMA DownEnds ==
    ASSUME NEW h \in Seq(Rank), NEW p, NEW q, DownInv(h, p, q),
           ~(2 * p <= Len(h) /\ h[BestChild(h, p)] < h[p])
    PROVE  UpInv(h, q)
<1> DEFINE n == Len(h)
           b == BestChild(h, p)
<1>1. n \in Nat /\ DOMAIN h = 1 .. n /\ \A i \in 1 .. n : h[i] \in Int
    BY HeapItems
<1>2. p \in DOMAIN h /\ p \in 1 .. n /\ q \in 1 .. n /\ q <= p /\ p \in Nat /\ q \in Nat
    BY <1>1 DEF DownInv
\* No child of p is before the item at p.
<1>3. ASSUME NEW c \in 2 .. n, c \div 2 = p PROVE h[p] <= h[c]
    <2>1. c \in Nat /\ c >= 2 /\ c <= n
        BY <1>1
    <2>2. c = 2 * p \/ c = 2 * p + 1
        BY <1>2, <1>3, <2>1, ParentIs
    <2>3. 2 * p <= n
        BY <1>1, <1>2, <2>1, <2>2
    <2>4. b \in 2 .. n /\ h[b] <= h[c]
        BY <1>2, <1>3, <2>3, BestChildIs
    <2>5. ~(h[b] < h[p])
        BY <2>3
    <2>6. h[b] \in Int /\ h[p] \in Int /\ h[c] \in Int
        BY <1>1, <1>2, <2>4, ParentsAre
    <2> HIDE DEF b
    <2>7. QED
        BY <2>4, <2>5, <2>6
<1>4. ASSUME NEW i \in 2 .. n, i # q PROVE Follows(h, i)
    <2>1. CASE i # p /\ i \div 2 # p
        BY <2>1 DEF DownInv
    <2>2. CASE i \div 2 = p
        BY <1>3, <2>2 DEF Follows
    <2>3. CASE i = p
        BY <1>4, <2>3 DEF DownInv
    <2>4. QED
        BY <2>1, <2>2, <2>3
<1>5. Spans(h, q)
    <2>1. CASE p = q
        BY <2>1 DEF DownInv
    <2>2. CASE p # q
        <3> SUFFICES ASSUME q > 1, NEW c \in 2 .. n, c \div 2 = q PROVE h[q \div 2] <= h[c]
            BY DEF Spans
        <3>1. q \in 2 .. n /\ q < p
            BY <1>1, <1>2, <2>2
        <3>2. q \div 2 \in Nat /\ q \div 2 < q /\ h[q \div 2] \in Int /\ h[q] \in Int
            BY <3>1, ParentsAre
        <3>3. q \div 2 # p
            <4> DEFINE half == q \div 2
            <4> HIDE DEF half
            <4>1. half # p
                BY <1>2, <3>1, <3>2 DEF half
            <4>2. QED
                BY <4>1 DEF half
        <3>4. h[q \div 2] <= h[q]
            BY <2>2, <3>1, <3>3 DEF DownInv, Follows
        <3>5. c # q /\ h[c] \in Int
            BY ParentsAre
        <3>6. h[q] <= h[c]
            BY <1>4, <3>5 DEF Follows
        <3>7. QED
            BY <3>2, <3>4, <3>5, <3>6
    <2>3. QED
        BY <2>1, <2>2
<1>6. QED
    BY <1>1, <1>2, <1>4, <1>5 DEF UpInv

-----------------------------------------------------------------------------
LEMMA CountsAreFinite ==
    ASSUME NEW h \in Seq(Rank), NEW r
    PROVE  IsFiniteSet({k \in DOMAIN h : h[k] = r})
<1>1. Len(h) \in Nat /\ DOMAIN h = 1 .. Len(h)
    BY HeapItems
<1>2. IsFiniteSet(1 .. Len(h))
    BY <1>1, FirstNumbers
<1>3. {k \in DOMAIN h : h[k] = r} \in SUBSET (1 .. Len(h))
    BY <1>1
<1>4. QED
    BY <1>2, <1>3, FS_Subset

\* One more, or one less, at the end.
LEMMA LongerCounts ==
    ASSUME NEW h \in Seq(Rank), NEW r \in Rank, NEW x
    PROVE  CountOf(Append(h, r), x) = IF x = r THEN CountOf(h, x) + 1 ELSE CountOf(h, x)
<1> DEFINE n == Len(h)
           g == Append(h, r)
           A == {k \in DOMAIN h : h[k] = x}
           B == {k \in DOMAIN g : g[k] = x}
<1>1. n \in Nat /\ DOMAIN h = 1 .. n
    BY HeapItems
<1>2. DOMAIN g = 1 .. n + 1 /\ g[n + 1] = r /\ \A k \in 1 .. n : g[k] = h[k]
    <2>1. g \in Seq(Rank) /\ Len(g) = Len(h) + 1 /\ (\A k \in 1 .. Len(h) : g[k] = h[k]) /\ g[Len(h) + 1] = r
        BY AppendProperties
    <2> HIDE DEF g
    <2>2. QED
        BY <2>1, LenProperties
<1>3. IsFiniteSet(A) /\ n + 1 \notin A
    <2>1. n + 1 \notin A
        BY <1>1
    <2>2. QED
        BY <2>1, CountsAreFinite
<1> HIDE DEF g, n
<1>4. CASE x = r
    <2>1. B = A \cup {n + 1}
        BY <1>1, <1>2, <1>4
    <2> HIDE DEF A, B
    <2>2. Cardinality(B) = Cardinality(A) + 1
        BY <1>3, <2>1, FS_AddElement
    <2>3. QED
        BY <1>4, <2>2 DEF CountOf, A, B, g
<1>5. CASE x # r
    <2>1. B = A
        BY <1>1, <1>2, <1>5
    <2> HIDE DEF A, B
    <2>2. QED
        BY <1>5, <2>1 DEF CountOf, A, B, g
<1>6. QED
    BY <1>4, <1>5

LEMMA ShorterIs ==
    ASSUME NEW h \in Seq(Rank), h # <<>>
    PROVE  /\ SubSeq(h, 1, Len(h) - 1) \in Seq(Rank)
           /\ Len(SubSeq(h, 1, Len(h) - 1)) = Len(h) - 1
           /\ DOMAIN SubSeq(h, 1, Len(h) - 1) = 1 .. Len(h) - 1
           /\ \A k \in 1 .. Len(h) - 1 : SubSeq(h, 1, Len(h) - 1)[k] = h[k]
           /\ Len(h) >= 1 /\ Len(h) \in DOMAIN h
<1> DEFINE n == Len(h)
           g == SubSeq(h, 1, n - 1)
<1>1. n \in Nat /\ DOMAIN h = 1 .. n /\ n # 0 /\ \A k \in 1 .. n : h[k] \in Rank
    BY LenProperties, EmptySeq, ElementOfSeq
<1>2. n >= 1 /\ n \in DOMAIN h /\ n - 1 \in Nat
    BY <1>1
<1> HIDE DEF n
<1> DEFINE m == n - 1
<1>3. m \in Nat /\ 1 \in Int /\ \A k \in 1 .. m : h[k] \in Rank
    BY <1>1, <1>2
<1>4. SubSeq(h, 1, m) \in Seq(Rank) /\ Len(SubSeq(h, 1, m)) = m
    <2> HIDE DEF m
    <2>1. /\ SubSeq(h, 1, m) \in Seq(Rank)
          /\ Len(SubSeq(h, 1, m)) = IF 1 <= m THEN m - 1 + 1 ELSE 0
        BY <1>3, SubSeqProperties
    <2> DEFINE s == SubSeq(h, 1, m)
    <2> HIDE DEF s
    <2>2. Len(s) = m
        BY <1>3, <2>1 DEF s
    <2>3. QED
        BY <2>1, <2>2 DEF s
<1>5. \A k \in 1 .. m : SubSeq(h, 1, m)[k] = h[k]
    <2> HIDE DEF m
    <2>1. \A k \in 1 .. m - 1 + 1 : SubSeq(h, 1, m)[k] = h[1 + k - 1]
        BY <1>3, SubSeqProperties
    <2>2. TAKE k \in 1 .. m
    <2>3. k \in 1 .. m - 1 + 1 /\ 1 + k - 1 = k
        BY <1>3
    <2>4. QED
        BY <2>1, <2>3
<1>6. g \in Seq(Rank) /\ Len(g) = n - 1 /\ DOMAIN g = 1 .. n - 1
    BY <1>4, LenProperties
<1>7. \A k \in 1 .. n - 1 : g[k] = h[k]
    BY <1>5
<1> HIDE DEF g
<1>8. QED
    BY <1>2, <1>6, <1>7 DEF g, n

LEMMA ShorterCounts ==
    ASSUME NEW h \in Seq(Rank), h # <<>>, NEW x
    PROVE  CountOf(SubSeq(h, 1, Len(h) - 1), x) =
               IF x = h[Len(h)] THEN CountOf(h, x) - 1 ELSE CountOf(h, x)
<1> DEFINE n == Len(h)
           g == SubSeq(h, 1, n - 1)
           A == {k \in DOMAIN h : h[k] = x}
           B == {k \in DOMAIN g : g[k] = x}
<1>1. n \in Nat /\ DOMAIN h = 1 .. n /\ n \in DOMAIN h
    BY HeapItems, ShorterIs
<1>2. DOMAIN g = 1 .. n - 1 /\ \A k \in 1 .. n - 1 : g[k] = h[k]
    BY ShorterIs
<1>3. IsFiniteSet(A)
    BY CountsAreFinite
<1> HIDE DEF g, n
<1>4. CASE x = h[n]
    <2>1. B = A \ {n} /\ n \in A
        BY <1>1, <1>2, <1>4
    <2> HIDE DEF A, B
    <2>2. Cardinality(B) = Cardinality(A) - 1
        BY <1>3, <2>1, FS_RemoveElement
    <2>3. QED
        BY <1>4, <2>2 DEF CountOf, A, B, g, n
<1>5. CASE x # h[n]
    <2>1. B = A
        BY <1>1, <1>2, <1>5
    <2> HIDE DEF A, B
    <2>2. QED
        BY <1>5, <2>1 DEF CountOf, A, B, g, n
<1>6. QED
    BY <1>4, <1>5 DEF n

-----------------------------------------------------------------------------
\* The calls.
LEMMA PushItemKeeps ==
    ASSUME HeapInv, NEW r \in Rank, PushItem(r)
    PROVE  HeapInv'
<1> DEFINE n == Len(heap)
<1> USE DEF PushItem
<1>1. heap \in Seq(Rank) /\ kept \in [Rank -> Int]
    BY DEF HeapInv
<1>2. n \in Nat /\ DOMAIN heap = 1 .. n
    BY <1>1, HeapItems
<1>3. /\ heap' \in Seq(Rank) /\ Len(heap') = n + 1 /\ DOMAIN heap' = 1 .. n + 1
      /\ \A k \in 1 .. n : heap'[k] = heap[k]
    <2>1. /\ heap' \in Seq(Rank) /\ Len(heap') = Len(heap) + 1
          /\ \A k \in 1 .. Len(heap) : heap'[k] = heap[k]
        BY <1>1, AppendProperties
    <2>2. QED
        BY <2>1, LenProperties
<1>4. kept' \in [Rank -> Int] /\ \A x \in Rank : kept'[x] = CountOf(heap', x)
    <2>1. kept' \in [Rank -> Int]
        BY <1>1
    <2>2. ASSUME NEW x \in Rank PROVE kept'[x] = CountOf(heap', x)
        <3>1. kept[x] = CountOf(heap, x)
            BY DEF HeapInv
        <3>2. CountOf(heap', x) = IF x = r THEN CountOf(heap, x) + 1 ELSE CountOf(heap, x)
            BY <1>1, LongerCounts
        <3>3. kept'[x] = IF x = r THEN kept[x] + 1 ELSE kept[x]
            BY <1>1
        <3>4. QED
            BY <3>1, <3>2, <3>3
    <2>3. QED
        BY <2>1, <2>2
<1>5. \A i \in 2 .. n : Follows(heap, i)
    BY DEF HeapInv
<1>6. UpInv(heap', n + 1)
    <2>1. ASSUME NEW i \in 2 .. Len(heap'), i # n + 1 PROVE Follows(heap', i)
        <3>1. i \in 2 .. n
            BY <1>2, <1>3, <2>1
        <3>2. i \in 1 .. n /\ i \div 2 \in 1 .. n
            BY <1>1, <3>1, ParentsAre
        <3>3. heap[i \div 2] <= heap[i]
            BY <1>5, <3>1 DEF Follows
        <3>4. heap'[i \div 2] = heap[i \div 2] /\ heap'[i] = heap[i]
            BY <1>3, <3>2
        <3>5. QED
            BY <3>3, <3>4 DEF Follows
    <2>2. Spans(heap', n + 1)
        <3>1. ASSUME NEW c \in 2 .. Len(heap'), c \div 2 = n + 1 PROVE FALSE
            <4>1. c \div 2 < c
                BY <1>3, ParentsAre
            <4>2. QED
                BY <1>2, <1>3, <3>1, <4>1
        <3>2. QED
            BY <3>1 DEF Spans
    <2>3. n + 1 \in DOMAIN heap'
        BY <1>2, <1>3
    <2>4. QED
        BY <2>1, <2>2, <2>3 DEF UpInv
<1>7. sifting' = "up" /\ idx' = n + 1
    OBVIOUS
<1>8. QED
    BY <1>3, <1>4, <1>6, <1>7 DEF HeapInv

\* The last item of an ordered heap takes the place i.
LEMMA HoleIsFilled ==
    ASSUME NEW h \in Seq(Rank), NEW i \in DOMAIN h, NEW g \in Seq(Rank),
           \A k \in 2 .. Len(h) : Follows(h, k),
           Len(g) = Len(h) - 1, i < Len(h),
           \A k \in 1 .. Len(g) : k # i => g[k] = h[k]
    PROVE  DownInv(g, i, i)
<1> DEFINE n == Len(h)
           m == Len(g)
<1>1. n \in Nat /\ DOMAIN h = 1 .. n /\ m \in Nat /\ DOMAIN g = 1 .. m /\ m = n - 1
    BY HeapItems
<1>2. i \in Nat /\ i \in 1 .. m
    BY <1>1
<1>3. \A k \in 1 .. m : k # i => g[k] = h[k]
    OBVIOUS
<1>4. 2 .. m \subseteq 2 .. n
    BY <1>1
<1>5. ASSUME NEW k \in 2 .. m, k # i, k \div 2 # i PROVE Follows(g, k)
    <2>1. k \in 1 .. m /\ k \div 2 \in 1 .. m
        BY ParentsAre
    <2>2. g[k] = h[k] /\ g[k \div 2] = h[k \div 2]
        BY <1>3, <1>5, <2>1
    <2>3. h[k \div 2] <= h[k]
        BY <1>4 DEF Follows
    <2>4. QED
        BY <2>2, <2>3 DEF Follows
<1>6. ASSUME i > 1, NEW c \in 2 .. m, c \div 2 = i PROVE g[i \div 2] <= g[c]
    <2>1. i \in 2 .. m /\ i \in 2 .. n /\ c \in 2 .. n
        BY <1>1, <1>2, <1>6
    <2>2. /\ i \div 2 \in 1 .. m /\ i \div 2 # i
          /\ h[i \div 2] \in Int /\ h[i] \in Int
        <3>1. i \div 2 \in 1 .. m /\ i \div 2 # i
            BY <2>1, ParentsAre
        <3>2. h[i \div 2] \in Int /\ h[i] \in Int
            BY <2>1, ParentsAre
        <3>3. QED
            BY <3>1, <3>2
    <2>3. c \in 1 .. m /\ c # i /\ h[c] \in Int
        <3>1. c \in 1 .. m /\ c \div 2 # c
            BY ParentsAre
        <3>2. h[c] \in Int
            BY <2>1, ParentsAre
        <3>3. QED
            BY <1>6, <3>1, <3>2
    <2>4. h[i \div 2] <= h[i] /\ h[i] <= h[c]
        BY <1>6, <2>1 DEF Follows
    <2>5. g[i \div 2] = h[i \div 2] /\ g[c] = h[c]
        BY <1>3, <2>2, <2>3
    <2> DEFINE half == i \div 2
    <2> HIDE DEF half
    <2>6. h[half] <= h[c]
        BY <2>2, <2>3, <2>4 DEF half
    <2>7. QED
        BY <2>5, <2>6 DEF half
<1>7. QED
    BY <1>1, <1>2, <1>5, <1>6 DEF DownInv, Spans

LEMMA RemoveKeeps ==
    ASSUME HeapInv, NEW i \in DOMAIN heap, RemoveItemAt(i)
    PROVE  HeapInv'
<1> DEFINE n == Len(heap)
           s == Swapped(heap, i, n)
<1>1. heap \in Seq(Rank) /\ kept \in [Rank -> Int]
    BY DEF HeapInv
<1>2. n \in Nat /\ DOMAIN heap = 1 .. n /\ i \in 1 .. n /\ n \in DOMAIN heap
    <2>1. n \in Nat /\ DOMAIN heap = 1 .. n
        BY <1>1, HeapItems
    <2>2. n \in 1 .. n
        BY <2>1
    <2>3. QED
        BY <2>1, <2>2
<1>3. /\ s \in Seq(Rank) /\ Len(s) = n /\ DOMAIN s = DOMAIN heap
      /\ \A k \in DOMAIN heap : s[k] = IF k = n THEN heap[i] ELSE IF k = i THEN heap[n] ELSE heap[k]
    <2> HIDE DEF n
    <2>1. /\ s \in Seq(Rank) /\ Len(s) = Len(heap) /\ DOMAIN s = DOMAIN heap
          /\ \A k \in DOMAIN heap : s[k] = IF k = n THEN heap[i] ELSE IF k = i THEN heap[n] ELSE heap[k]
        BY <1>1, <1>2, SwappedIs, ZenonT(30)
    <2> HIDE DEF s
    <2>2. QED
        BY <2>1 DEF n
<1> USE DEF RemoveItemAt
<1>4. s # <<>>
    BY <1>2, <1>3, EmptySeq
<1>5. heap' = SubSeq(s, 1, Len(s) - 1)
    BY <1>3
<1>6. s[n] = heap[i] /\ heap[i] \in Rank
    BY <1>1, <1>2, <1>3, ElementOfSeq
<1>7. kept' \in [Rank -> Int] /\ \A x \in Rank : kept'[x] = CountOf(heap', x)
    <2>1. kept' \in [Rank -> Int]
        BY <1>1, <1>6
    <2>2. ASSUME NEW x \in Rank PROVE kept'[x] = CountOf(heap', x)
        <3>1. kept[x] = CountOf(heap, x)
            BY DEF HeapInv
        <3>2. CountOf(s, x) = CountOf(heap, x)
            BY <1>1, <1>2, SwappedCounts
        <3>3. kept'[x] = IF x = heap[i] THEN kept[x] - 1 ELSE kept[x]
            BY <1>1, <1>6
        <3> HIDE DEF s, n
        <3>4. CountOf(heap', x) = IF x = s[Len(s)] THEN CountOf(s, x) - 1 ELSE CountOf(s, x)
            BY <1>3, <1>4, <1>5, ShorterCounts
        <3>5. QED
            BY <1>3, <1>6, <3>1, <3>2, <3>3, <3>4
    <2>3. QED
        BY <2>1, <2>2
<1> HIDE DEF s
<1>8. /\ heap' \in Seq(Rank) /\ Len(heap') = n - 1 /\ DOMAIN heap' = 1 .. n - 1
      /\ \A k \in 1 .. n - 1 : heap'[k] = s[k]
    BY <1>3, <1>4, <1>5, ShorterIs
<1>9. \A k \in 1 .. n - 1 : k # i => heap'[k] = heap[k]
    BY <1>2, <1>3, <1>8
<1>10. \A k \in 2 .. n : Follows(heap, k)
    BY DEF HeapInv
<1>11. CASE i < n
    <2>1. DownInv(heap', i, i)
        BY <1>1, <1>8, <1>9, <1>10, <1>11, HoleIsFilled
    <2>2. sifting' = "down" /\ idx' = i /\ hole' = i
        BY <1>11
    <2>3. QED
        BY <1>7, <1>8, <2>1, <2>2 DEF HeapInv
<1>12. CASE ~(i < n)
    <2>1. \A k \in 1 .. n - 1 : heap'[k] = heap[k]
        BY <1>2, <1>9, <1>12
    <2>2. ASSUME NEW k \in 2 .. Len(heap') PROVE Follows(heap', k)
        <3>1. k \in 1 .. n - 1 /\ k \div 2 \in 1 .. n - 1
            BY <1>8, ParentsAre
        <3>2. k \in 2 .. n
            BY <1>2, <1>8
        <3>3. heap[k \div 2] <= heap[k]
            BY <1>10, <3>2 DEF Follows
        <3>4. heap'[k \div 2] = heap[k \div 2] /\ heap'[k] = heap[k]
            BY <2>1, <3>1
        <3>5. QED
            BY <3>3, <3>4 DEF Follows
    <2>3. sifting' = "none"
        BY <1>12
    <2>4. QED
        BY <1>7, <1>8, <2>2, <2>3 DEF HeapInv
<1>13. QED
    BY <1>11, <1>12

LEMMA EmptyHeapIs ==
    ASSUME NEW r
    PROVE  CountOf(<<>>, r) = 0
<1>1. {k \in DOMAIN <<>> : <<>>[k] = r} = {}
    OBVIOUS
<1>2. QED
    BY <1>1, FS_EmptySet DEF CountOf

LEMMA EmptyHeapKeeps ==
    ASSUME heap = <<>>, kept = [r \in Rank |-> 0], sifting = "none"
    PROVE  HeapInv
<1>1. heap \in Seq(Rank) /\ Len(heap) = 0
    BY EmptySeq
<1>2. kept \in [Rank -> Int] /\ \A r \in Rank : kept[r] = 0
    OBVIOUS
<1>3. \A r \in Rank : kept[r] = CountOf(heap, r)
    BY <1>2, EmptyHeapIs
<1>4. \A i \in 2 .. Len(heap) : Follows(heap, i)
    BY <1>1
<1>5. QED
    BY <1>1, <1>2, <1>3, <1>4 DEF HeapInv

LEMMA ClearKeeps ==
    ASSUME HeapInv, Clear
    PROVE  HeapInv'
<1> USE DEF Clear
<1>1. heap' \in Seq(Rank) /\ Len(heap') = 0
    BY EmptySeq
<1>2. kept' \in [Rank -> Int] /\ \A r \in Rank : kept'[r] = 0
    OBVIOUS
<1>3. \A r \in Rank : kept'[r] = CountOf(heap', r)
    BY <1>2, EmptyHeapIs
<1>4. \A i \in 2 .. Len(heap') : Follows(heap', i)
    BY <1>1
<1>5. sifting' = "none"
    OBVIOUS
<1>6. QED
    BY <1>1, <1>2, <1>3, <1>4, <1>5 DEF HeapInv

LEMMA SiftUpKeeps ==
    ASSUME HeapInv, SiftUp
    PROVE  HeapInv'
<1> USE DEF SiftUp
<1>1. heap \in Seq(Rank) /\ kept \in [Rank -> Int] /\ UpInv(heap, idx)
      /\ kept' = kept /\ \A r \in Rank : kept[r] = CountOf(heap, r)
    BY DEF HeapInv
<1>2. idx \in DOMAIN heap
    BY <1>1 DEF UpInv
<1>3. CASE idx > 1 /\ heap[idx] < heap[idx \div 2]
    <2> DEFINE q == idx \div 2
    <2>1. heap' = Swapped(heap, idx, q) /\ idx' = q /\ sifting' = "up"
        BY <1>3
    <2>2. q \in DOMAIN heap /\ UpInv(Swapped(heap, idx, q), q)
        BY <1>1, <1>3, UpRound
    <2> HIDE DEF q
    <2>3. Swapped(heap, idx, q) \in Seq(Rank)
        BY <1>1, <1>2, <2>2, SwappedIs
    <2>4. \A r \in Rank : CountOf(Swapped(heap, idx, q), r) = CountOf(heap, r)
        BY <1>1, <1>2, <2>2, SwappedCounts
    <2>5. QED
        BY <1>1, <2>1, <2>2, <2>3, <2>4 DEF HeapInv
<1>4. CASE ~(idx > 1 /\ heap[idx] < heap[idx \div 2])
    <2>1. heap' = heap /\ sifting' = "none"
        BY <1>4
    <2>2. \A i \in 2 .. Len(heap) : Follows(heap, i)
        BY <1>1, <1>4, UpEnds
    <2>3. QED
        BY <1>1, <2>1, <2>2 DEF HeapInv
<1>5. QED
    BY <1>3, <1>4

LEMMA SiftDownKeeps ==
    ASSUME HeapInv, SiftDown
    PROVE  HeapInv'
<1> DEFINE b == BestChild(heap, idx)
<1> USE DEF SiftDown
<1>1. heap \in Seq(Rank) /\ kept \in [Rank -> Int] /\ DownInv(heap, idx, hole)
      /\ kept' = kept /\ hole' = hole /\ \A r \in Rank : kept[r] = CountOf(heap, r)
    BY DEF HeapInv
<1>2. idx \in DOMAIN heap
    BY <1>1 DEF DownInv
<1>3. CASE 2 * idx <= Len(heap) /\ heap[b] < heap[idx]
    <2>1. heap' = Swapped(heap, idx, b) /\ idx' = b /\ sifting' = "down"
        BY <1>3
    <2>2. b \in DOMAIN heap /\ DownInv(Swapped(heap, idx, b), b, hole)
        BY <1>1, <1>3, DownRound
    <2> HIDE DEF b
    <2>3. Swapped(heap, idx, b) \in Seq(Rank)
        BY <1>1, <1>2, <2>2, SwappedIs
    <2>4. \A r \in Rank : CountOf(Swapped(heap, idx, b), r) = CountOf(heap, r)
        BY <1>1, <1>2, <2>2, SwappedCounts
    <2>5. QED
        BY <1>1, <2>1, <2>2, <2>3, <2>4 DEF HeapInv
<1>4. CASE ~(2 * idx <= Len(heap) /\ heap[b] < heap[idx])
    <2>1. heap' = heap /\ sifting' = "up" /\ idx' = hole
        BY <1>4
    <2>2. UpInv(heap, hole)
        BY <1>1, <1>4, DownEnds
    <2>3. QED
        BY <1>1, <2>1, <2>2 DEF HeapInv
<1>5. QED
    BY <1>3, <1>4

\* What the sifting loops keep.
LEMMA HeapInvAlways == HeapSpec => []HeapInv
<1>1. HeapInit => HeapInv
    BY EmptyHeapKeeps DEF HeapInit
<1>2. HeapInv /\ [HeapNext]_heapVars => HeapInv'
    <2> SUFFICES ASSUME HeapInv, [HeapNext]_heapVars PROVE HeapInv'
        OBVIOUS
    <2>1. CASE \E r \in Rank : PushItem(r)
        BY <2>1, PushItemKeeps
    <2>2. CASE PopTop
        <3>1. heap # <<>> /\ RemoveItemAt(1) /\ heap \in Seq(Rank)
            BY <2>2 DEF PopTop, HeapInv
        <3>2. Len(heap) \in Nat /\ Len(heap) # 0 /\ DOMAIN heap = 1 .. Len(heap)
            BY <3>1, LenProperties, EmptySeq
        <3>3. 1 \in DOMAIN heap
            BY <3>2
        <3>4. QED
            BY <3>1, <3>3, RemoveKeeps
    <2>3. CASE \E i \in DOMAIN heap : RemoveMatching(i)
        BY <2>3, RemoveKeeps DEF RemoveMatching
    <2>4. CASE Clear
        BY <2>4, ClearKeeps
    <2>5. CASE SiftUp
        BY <2>5, SiftUpKeeps
    <2>6. CASE SiftDown
        BY <2>6, SiftDownKeeps
    <2>7. CASE UNCHANGED heapVars
        <3>1. /\ heap' = heap /\ sifting' = sifting /\ idx' = idx
              /\ hole' = hole /\ kept' = kept
            BY <2>7 DEF heapVars
        <3>2. QED
            BY <3>1 DEF HeapInv
    <2>8. QED
        BY <2>1, <2>2, <2>3, <2>4, <2>5, <2>6, <2>7 DEF HeapNext
<1>3. QED
    BY <1>1, <1>2, PTL DEF HeapSpec

\* Of the items that are before the one at the top the first would follow its parent, and
\* that is not one of them.
LEMMA TopOfOrdered ==
    ASSUME NEW h \in Seq(Rank), h # <<>>, \A i \in 2 .. Len(h) : Follows(h, i),
           NEW j \in DOMAIN h
    PROVE  h[1] <= h[j]
<1> DEFINE n == Len(h)
           T == {i \in 1 .. n : ~(h[1] <= h[i])}
<1>1. n \in Nat /\ DOMAIN h = 1 .. n /\ \A i \in 1 .. n : h[i] \in Int
    BY HeapItems
<1>2. n # 0 /\ 1 \in 1 .. n
    BY <1>1, EmptySeq
<1>3. SUFFICES ASSUME T # {} PROVE FALSE
    BY <1>1
<1>4. T \in SUBSET Nat
    BY <1>1
<1> HIDE DEF T
<1>5. PICK i \in T : \A k \in T : i <= k
    BY <1>3, <1>4, LeastNatural
<1>6. i \in 1 .. n /\ ~(h[1] <= h[i])
    BY <1>5 DEF T
<1>7. i # 1
    BY <1>1, <1>2, <1>6
<1>8. i \in 2 .. n
    BY <1>1, <1>6, <1>7
<1> DEFINE half == i \div 2
<1>9. half \in 1 .. n /\ half < i /\ half \in Nat /\ i \in Nat /\ h[half] <= h[i]
    BY <1>8, ParentsAre DEF Follows
<1> HIDE DEF half, n
<1>10. half \notin T
    BY <1>5, <1>9
<1>11. h[1] <= h[half]
    BY <1>9, <1>10 DEF T
<1>12. QED
    BY <1>1, <1>2, <1>6, <1>9, <1>11

\* Nothing is lost or doubled by pushing, popping and removing from the middle, and between
\* calls the item at the top is the first.
THEOREM TheTopIsFirst == HeapSpec => []TopIsFirst
<1>1. HeapInv => TopIsFirst
    <2> SUFFICES ASSUME HeapInv PROVE TopIsFirst
        OBVIOUS
    <2>1. heap \in Seq(Rank) /\ \A r \in Rank : kept[r] = CountOf(heap, r)
        BY DEF HeapInv
    <2>2. \A r \in Rank : kept[r] = Cardinality({i \in DOMAIN heap : heap[i] = r})
        BY <2>1 DEF CountOf
    <2>3. ASSUME sifting = "none", heap # <<>>, NEW r \in Rank, kept[r] > 0
          PROVE  heap[1] <= r
        <3> DEFINE A == {i \in DOMAIN heap : heap[i] = r}
        <3>1. Cardinality(A) > 0
            BY <2>2, <2>3
        <3>2. A # {}
            <4> HIDE DEF A
            <4>1. QED
                BY <3>1, FS_EmptySet
        <3>3. PICK j \in DOMAIN heap : heap[j] = r
            BY <3>2
        <3>4. \A i \in 2 .. Len(heap) : Follows(heap, i)
            BY <2>3 DEF HeapInv
        <3>5. heap[1] <= heap[j]
            BY <2>1, <2>3, <3>4, TopOfOrdered
        <3>6. QED
            BY <3>3, <3>5
    <2>4. QED
        BY <2>2, <2>3 DEF TopIsFirst
<1>2. QED
    BY <1>1, HeapInvAlways, PTL

-----------------------------------------------------------------------------
(* The token buckets.                                                       *)

USE RateAssumption

\* What is refilled in two spans of time is what is refilled in their sum.
LEMMA RefillsAdd ==
    ASSUME NEW a \in Int, NEW b \in Int, NEW c \in Int
    PROVE  Rate * (b - a) + Rate * (c - b) = Rate * (c - a)
BY SMTT(30)

\* A longer span refills no less.
LEMMA RefillsGrow ==
    ASSUME NEW a \in Int, NEW b \in Int, a <= b
    PROVE  Rate * a <= Rate * b
BY SMTT(30)

LEMMA RefillIsInt ==
    ASSUME NEW a \in Int
    PROVE  Rate * a \in Int
BY SMTT(30)

-----------------------------------------------------------------------------
\* What holds of one client's bucket b and window w.  The tokens left and the
\* tokens granted add up to no more than the capacity and what was refilled.
Accounted(b, w) ==
    /\ w.granted <= Capacity + Rate * (w.latest - w.from)
    /\ w.open => /\ b.exists
                 /\ w.from <= w.latest /\ b.lastRefill <= w.latest
                 /\ b.tokens + w.granted <= Capacity + Rate * (b.lastRefill - w.from)

BucketType == [exists : BOOLEAN, tokens : Int, lastRefill : 0..MaxClock]
WindowType == [open : BOOLEAN, from : 0..MaxClock, latest : 0..MaxClock, granted : Nat]

RateInv ==
    /\ RateTypeOK
    /\ \A c \in Client : Accounted(bucket[c], window[c])

\* The bucket a call finds has the type, and no more than what it had and what
\* was refilled.
LEMMA RefilledBucket ==
    ASSUME RateTypeOK, NEW b \in BucketType
    PROVE  /\ Refilled(b) \in BucketType
           /\ Refilled(b).exists /\ Refilled(b).lastRefill = clock
           /\ Refilled(b).tokens <= Capacity
           /\ b.exists => Refilled(b).tokens <= b.tokens + Rate * (clock - b.lastRefill)
<1> DEFINE refill == Rate * (clock - b.lastRefill)
<1>1. refill \in Int /\ b.tokens \in Int /\ clock \in 0..MaxClock
  <2>1. clock - b.lastRefill \in Int
    BY DEF RateTypeOK, BucketType
  <2> QED
    BY <2>1, RefillIsInt DEF RateTypeOK, BucketType
<1> DEFINE tokens == IF b.exists THEN Smaller(Capacity, b.tokens + refill) ELSE Capacity
<1>2. /\ tokens \in Int /\ tokens <= Capacity
      /\ b.exists => tokens <= b.tokens + refill
  <2> HIDE DEF refill
  <2> QED
    BY <1>1 DEF Smaller
<1>3. Refilled(b) = [exists |-> TRUE, tokens |-> tokens, lastRefill |-> clock]
  BY DEF Refilled
<1> HIDE DEF refill, tokens
<1>4. Refilled(b) \in BucketType
  BY <1>1, <1>2, <1>3 DEF BucketType
<1> QED
  BY <1>2, <1>3, <1>4 DEF refill

\* A call that takes no more than it finds keeps the account, in the window it
\* is in and in one that begins with it.
LEMMA CallIsAccounted ==
    ASSUME RateTypeOK, NEW b \in BucketType, NEW w \in WindowType, Accounted(b, w),
           NEW taken \in Nat, taken > 0 => taken <= Refilled(b).tokens,
           NEW fresh \in BOOLEAN, ~w.open => fresh
    PROVE  LET left == [Refilled(b) EXCEPT !.tokens = @ - taken]
               counted == Counted(w, fresh, taken)
           IN  /\ left \in BucketType /\ counted \in WindowType
               /\ Accounted(left, counted)
<1> DEFINE found == Refilled(b)
           left == [found EXCEPT !.tokens = @ - taken]
           counted == Counted(w, fresh, taken)
<1>1. /\ found \in BucketType /\ found.exists /\ found.lastRefill = clock
      /\ found.tokens <= Capacity
      /\ b.exists => found.tokens <= b.tokens + Rate * (clock - b.lastRefill)
  BY RefilledBucket
<1>2. taken > 0 => taken <= found.tokens
  OBVIOUS
<1>3. clock \in 0..MaxClock
  BY DEF RateTypeOK
<1> HIDE DEF found
<1>4. /\ left \in BucketType /\ left.exists /\ left.lastRefill = clock
      /\ left.tokens = found.tokens - taken
  BY <1>1 DEF BucketType
<1> HIDE DEF left
<1>5. CASE fresh
  <2>1. counted = [open |-> TRUE, from |-> clock, latest |-> clock, granted |-> taken]
    BY <1>5 DEF Counted
  <2>2. Rate * (clock - clock) = 0
    BY <1>3
  <2>3. left.tokens + taken <= Capacity
    BY <1>1, <1>4 DEF BucketType
  <2>4. taken <= Capacity
    BY <1>1, <1>2 DEF BucketType
  <2>5. counted \in WindowType
    BY <1>3, <2>1 DEF WindowType
  <2> HIDE DEF counted
  <2>6. Accounted(left, counted)
    BY <1>3, <1>4, <2>1, <2>2, <2>3, <2>4 DEF Accounted
  <2> QED
    BY <1>4, <2>5, <2>6 DEF left, found, counted
<1>6. CASE ~fresh
  <2> DEFINE latest == Larger(w.latest, clock)
  <2>1. /\ counted = [w EXCEPT !.latest = latest, !.granted = w.granted + taken]
        /\ w.open
        /\ counted = [open |-> w.open, from |-> w.from, latest |-> latest,
                      granted |-> w.granted + taken]
    BY <1>6 DEF Counted, WindowType
  <2>2. latest \in 0..MaxClock /\ w.latest <= latest /\ clock <= latest
    BY <1>3 DEF Larger, WindowType
  <2> HIDE DEF latest, counted
  <2>3. /\ counted \in WindowType /\ counted.open /\ counted.from = w.from
        /\ counted.latest = latest /\ counted.granted = w.granted + taken
    <3>1. w.granted + taken \in Nat /\ w.from \in 0..MaxClock /\ w.open \in BOOLEAN
      BY DEF WindowType
    <3> QED
      BY <2>1, <2>2, <3>1 DEF WindowType
  <2> DEFINE before == Rate * (b.lastRefill - w.from)
             upToNow == Rate * (clock - w.from)
             refill == Rate * (clock - b.lastRefill)
             known == Rate * (w.latest - w.from)
             upToLatest == Rate * (latest - w.from)
  <2>4. /\ w.from \in Int /\ w.latest \in Int /\ b.lastRefill \in Int /\ clock \in Int
        /\ latest \in Int /\ w.granted \in Nat /\ b.tokens \in Int
        /\ found.tokens \in Int
    BY <1>1, <1>3, <2>2 DEF WindowType, BucketType
  <2>5. before + refill = upToNow
    BY <2>4, RefillsAdd
  <2>6. upToNow <= upToLatest /\ known <= upToLatest
    <3>1. clock - w.from \in Int /\ latest - w.from \in Int /\ w.latest - w.from \in Int
      BY <2>4
    <3>2. clock - w.from <= latest - w.from /\ w.latest - w.from <= latest - w.from
      BY <2>2, <2>4
    <3> QED
      BY <3>1, <3>2, RefillsGrow
  <2>7. /\ before \in Int /\ upToNow \in Int /\ refill \in Int
        /\ known \in Int /\ upToLatest \in Int
    BY <2>4, RefillIsInt
  <2>8. /\ w.granted <= Capacity + known
        /\ w.from <= w.latest
        /\ b.tokens + w.granted <= Capacity + before
        /\ found.tokens <= b.tokens + refill
    BY <1>1, <2>1 DEF Accounted
  <2> HIDE DEF before, upToNow, refill, known, upToLatest
  <2>9. left.tokens + (w.granted + taken) <= Capacity + upToNow
    BY <1>4, <2>4, <2>5, <2>7, <2>8
  <2>10. w.granted + taken <= Capacity + upToLatest
    <3>1. CASE taken = 0
      BY <2>4, <2>6, <2>7, <2>8, <3>1
    <3>2. CASE taken > 0
      <4>1. left.tokens >= 0
        BY <1>2, <1>4, <2>4, <3>2
      <4> QED
        BY <1>4, <2>4, <2>6, <2>7, <2>9, <4>1
    <3> QED
      BY <3>1, <3>2
  <2>11. w.from <= latest
    BY <2>2, <2>4, <2>8
  <2>12. Accounted(left, counted)
    BY <1>4, <2>2, <2>3, <2>9, <2>10, <2>11 DEF Accounted, upToNow, upToLatest
  <2> QED
    BY <1>4, <2>3, <2>12 DEF left, found, counted
<1> QED
  BY <1>5, <1>6

-----------------------------------------------------------------------------
LEMMA RateInductive ==
    ASSUME RateInv, [RateNext]_rateVars
    PROVE  RateInv'
<1> USE DEF RateInv
<1>1. ASSUME NEW c \in Client, NEW n \in Costs, TryConsume(c, n)
      PROVE  RateInv'
  <2> DEFINE taken == IF Allowed(c, n) THEN n ELSE 0
             left == [Refilled(bucket[c]) EXCEPT !.tokens = Refilled(bucket[c]).tokens - taken]
  <2>1. PICK fresh \in BOOLEAN :
            /\ ~window[c].open => fresh
            /\ bucket' = [bucket EXCEPT ![c] = left]
            /\ window' = [window EXCEPT ![c] = Counted(window[c], fresh, taken)]
            /\ clock' = clock
    BY <1>1 DEF TryConsume
  <2>2. bucket[c] \in BucketType /\ window[c] \in WindowType
    BY DEF RateTypeOK, BucketType, WindowType
  <2>3. taken \in Nat /\ (taken > 0 => taken <= Refilled(bucket[c]).tokens)
    <3>1. Refilled(bucket[c]).tokens \in Int
      BY <2>2, RefilledBucket DEF BucketType
    <3>2. n \in Nat
      BY RateAssumption
    <3> QED
      BY <3>1, <3>2 DEF Allowed
  <2> DEFINE counted == Counted(window[c], fresh, taken)
  <2>4. bucket' = [bucket EXCEPT ![c] = left] /\ window' = [window EXCEPT ![c] = counted]
    BY <2>1
  <2> HIDE DEF taken
  <2>5. left \in BucketType /\ counted \in WindowType /\ Accounted(left, counted)
    BY <2>1, <2>2, <2>3, CallIsAccounted
  <2> HIDE DEF left, counted
  <2>6. RateTypeOK'
    <3>1. clock' = clock
      BY <2>1
    <3> QED
      BY <3>1, <2>4, <2>5 DEF RateTypeOK, BucketType, WindowType
  <2>7. \A d \in Client : Accounted(bucket'[d], window'[d])
    BY <2>4, <2>5 DEF RateTypeOK
  <2> QED
    BY <2>6, <2>7
<1>2. ASSUME NEW c \in Client, ResetTenant(c)
      PROVE  RateInv'
  <2>1. RateTypeOK'
    BY <1>2 DEF ResetTenant, NoBucket, NoWindow, RateTypeOK
  <2>2. Accounted(NoBucket, NoWindow)
    BY DEF Accounted, NoBucket, NoWindow
  <2>3. \A d \in Client : Accounted(bucket'[d], window'[d])
    BY <1>2, <2>2 DEF ResetTenant, RateTypeOK
  <2> QED
    BY <2>1, <2>3
<1>3. CASE SetClock
  BY <1>3 DEF SetClock, RateTypeOK
<1>4. CASE UNCHANGED rateVars
  BY <1>4 DEF rateVars, RateTypeOK
<1> QED
  BY <1>1, <1>2, <1>3, <1>4 DEF RateNext

LEMMA RateInvHolds == RateSpec => []RateInv
<1>1. RateInit => RateInv
  <2>1. Accounted(NoBucket, NoWindow)
    BY DEF Accounted, NoBucket, NoWindow
  <2> QED
    BY <2>1 DEF RateInit, RateInv, RateTypeOK, NoBucket, NoWindow
<1> QED
  BY <1>1, RateInductive, PTL DEF RateSpec

\* Buckets and windows keep their types; a bucket may be in debt.
THEOREM RateTypes == RateSpec => []RateTypeOK
<1>1. RateInv => RateTypeOK
  BY DEF RateInv
<1> QED
  BY <1>1, RateInvHolds, PTL

\* Whichever call one starts to count with, a client is granted no more than the
\* capacity and the refill of the time since, though tryConsume computes with a
\* clock that may be set back and on again.
THEOREM RateIsKept == RateSpec => []GrantsWithinRate
<1>1. RateInv => GrantsWithinRate
  BY DEF RateInv, Accounted, GrantsWithinRate
<1> QED
  BY <1>1, RateInvHolds, PTL

-----------------------------------------------------------------------------
(* The leases: their types.                                                 *)

USE ManagerAssumption, TimeAssumption, NobodyAssumption, NoneAssumption

LastType == Lease \cup {NoGrant}

\* A new lease and a renewed one are leases.
LEMMA GrantedType ==
    ASSUME TypeOK, NEW n \in Node, NEW k \in Key, NEW ttl \in Ttls
    PROVE  LET m == ManagerOf[n]
           IN  /\ m \in Manager
               /\ NextEpoch(m, k) \in Nat \ {0}
               /\ NextToken(m) \in Nat /\ NextToken(m) > 1
               /\ now + ttl \in Nat /\ restarts[m] \in Nat
<1> DEFINE m == ManagerOf[n]
<1>1. m \in Manager
  OBVIOUS
<1>2. NextEpoch(m, k) \in Nat \ {0}
  BY <1>1 DEF TypeOK, NextEpoch, Lease
<1>3. NextToken(m) \in Nat /\ NextToken(m) > 1
  BY <1>1 DEF TypeOK, NextToken
<1>4. now + ttl \in Nat /\ restarts[m] \in Nat
  BY <1>1 DEF TypeOK
<1> QED
  BY <1>1, <1>2, <1>3, <1>4

\* The entry of an unexpired lease is a lease.
LEMMA HeldType ==
    ASSUME TypeOK, NEW m \in Manager, NEW k \in Key, ~Free(m, k)
    PROVE  leases[m][k] \in Lease /\ leases[m][k] # None /\ now < leases[m][k].expiresAt
BY DEF TypeOK, Free, Lease

LEMMA TypePreserved ==
    ASSUME TypeOK, [Next]_vars
    PROVE  TypeOK'
<1>1. ASSUME NEW n \in Node, NEW k \in Key, NEW ttl \in Ttls, GrantLease(n, k, ttl)
      PROVE  TypeOK'
  <2> DEFINE m == ManagerOf[n]
             lease == [holder |-> n, expiresAt |-> now + ttl,
                       epoch |-> NextEpoch(m, k), token |-> NextToken(m), process |-> restarts[m]]
  <2>1. /\ m \in Manager /\ lease \in Lease /\ lease \in LastType
        /\ lease.epoch > 0 /\ lease.token > 1 /\ NextToken(m) \in Nat \ {0}
    BY GrantedType DEF Lease, LastType
  <2>2. /\ counter' = [counter EXCEPT ![m] = NextToken(m)]
        /\ leases' = [leases EXCEPT ![m][k] = lease]
        /\ grant' = [grant EXCEPT ![n][k] = lease]
        /\ last' = [last EXCEPT ![m][k] = lease]
        /\ UNCHANGED <<now, restarts>>
    BY <1>1 DEF GrantLease
  <2> HIDE DEF m, lease
  <2> QED
    BY <2>1, <2>2 DEF TypeOK, LastType
<1>2. ASSUME NEW n \in Node, NEW k \in Key, NEW ttl \in Ttls, RenewLease(n, k, ttl)
      PROVE  TypeOK'
  <2> DEFINE m == ManagerOf[n]
             lease == [leases[m][k] EXCEPT !.expiresAt = now + ttl]
  <2>1. /\ m \in Manager /\ lease \in Lease /\ lease.epoch > 0 /\ lease.token > 1
    <3>1. m \in Manager /\ now + ttl \in Nat
      BY GrantedType
    <3>2. leases[m][k] \in Lease /\ leases[m][k] # None
      BY <1>2, <3>1, HeldType DEF RenewLease
    <3>3. leases[m][k].epoch > 0 /\ leases[m][k].token > 1
      BY <3>1, <3>2 DEF TypeOK
    <3> QED
      BY <3>1, <3>2, <3>3 DEF Lease
  <2>2. /\ leases' = [leases EXCEPT ![m][k] = lease]
        /\ grant' = [grant EXCEPT ![n][k] = lease]
        /\ UNCHANGED <<now, counter, last, restarts>>
    BY <1>2 DEF RenewLease
  <2> HIDE DEF m, lease
  <2> QED
    BY <2>1, <2>2 DEF TypeOK
<1>3. ASSUME NEW n \in Node, NEW k \in Key, RefuseLease(n, k)
      PROVE  TypeOK'
  BY <1>3 DEF RefuseLease, TypeOK
<1>4. ASSUME NEW n \in Node, NEW k \in Key, ReleaseLease(n, k)
      PROVE  TypeOK'
  <2>1. /\ leases' = leases \/ leases' = [leases EXCEPT ![ManagerOf[n]][k] = None]
        /\ grant' = [grant EXCEPT ![n][k] = None]
        /\ UNCHANGED <<now, counter, last, restarts>>
    BY <1>4 DEF ReleaseLease
  <2>2. CASE leases' = leases
    BY <2>1, <2>2 DEF TypeOK
  <2>3. CASE leases' = [leases EXCEPT ![ManagerOf[n]][k] = None]
    BY <2>1, <2>3 DEF TypeOK
  <2> QED
    BY <2>1, <2>2, <2>3
<1>5. CASE Tick
  BY <1>5 DEF Tick, TypeOK
<1>6. ASSUME NEW m \in Manager, Restart(m)
      PROVE  TypeOK'
  <2>1. /\ [k \in Key |-> NoGrant] \in [Key -> LastType]
        /\ [k \in Key |-> None] \in [Key -> Lease \cup {None}]
    BY DEF LastType
  <2>2. /\ leases' = [leases EXCEPT ![m] = [k \in Key |-> None]]
        /\ last' = [last EXCEPT ![m] = [k \in Key |-> NoGrant]]
        /\ counter' = [counter EXCEPT ![m] = 1]
        /\ restarts' = [restarts EXCEPT ![m] = restarts[m] + 1]
        /\ UNCHANGED <<now, grant>>
    BY <1>6 DEF Restart
  <2>3. last' \in [Manager -> [Key -> LastType]]
    BY <2>1, <2>2 DEF TypeOK, LastType
  <2>4. leases' \in [Manager -> [Key -> Lease \cup {None}]] /\ restarts' \in [Manager -> Nat]
    BY <2>1, <2>2 DEF TypeOK
  <2> QED
    BY <2>2, <2>3, <2>4 DEF TypeOK, LastType
<1>7. CASE UNCHANGED vars
  BY <1>7 DEF vars, TypeOK
<1> QED
  BY <1>1, <1>2, <1>3, <1>4, <1>5, <1>6, <1>7 DEF Next

\* Every state has the types, whatever the constants: managers that restart and
\* clocks that drift included.
THEOREM TypeCorrect == Spec => []TypeOK
<1>1. Init => TypeOK
  BY DEF Init, TypeOK
<1> QED
  BY <1>1, TypePreserved, PTL DEF Spec
-----------------------------------------------------------------------------
(* The leases: late holders.                                                *)

\* A token that a manager refuses now, having given it out, it refuses in the
\* next state: an expired lease is not renewed, a new one has a new token.
\* Constants are arbitrary; a manager that restarts forgets what it gave out.
THEOREM LateHoldersAreFenced == Spec => StaysFenced
<1> DEFINE Fence == \A m \in Manager, k \in Key : \A token \in 1..counter[m] :
              ~ValidateFencingToken(m, k, token) => ~ValidateFencingToken(m, k, token)'
<1>1. ASSUME TypeOK, [Next]_vars PROVE Fence
  <2> SUFFICES ASSUME NEW m \in Manager, NEW k \in Key, NEW token \in 1..counter[m],
                      ~ValidateFencingToken(m, k, token)
               PROVE  ~ValidateFencingToken(m, k, token)'
    OBVIOUS
  <2> USE <1>1
  <2>1. CASE UNCHANGED <<now, leases[m][k]>>
    BY <2>1 DEF ValidateFencingToken, Free
  <2>2. CASE leases'[m][k] = None
    BY <2>2 DEF ValidateFencingToken, Free
  <2>3. ASSUME NEW n \in Node, NEW j \in Key, NEW ttl \in Ttls, GrantLease(n, j, ttl)
        PROVE  ~ValidateFencingToken(m, k, token)'
    <3>1. CASE <<ManagerOf[n], j>> = <<m, k>>
      <4>1. leases'[m][k].token = counter[m] + 1
        BY <2>3, <3>1 DEF GrantLease, NextToken, TypeOK
      <4> QED
        BY <4>1 DEF ValidateFencingToken, TypeOK
    <3>2. CASE <<ManagerOf[n], j>> # <<m, k>>
      BY <2>1, <2>3, <3>2 DEF GrantLease, TypeOK
    <3> QED
      BY <3>1, <3>2
  <2>4. ASSUME NEW n \in Node, NEW j \in Key, NEW ttl \in Ttls, RenewLease(n, j, ttl)
        PROVE  ~ValidateFencingToken(m, k, token)'
    <3>1. CASE <<ManagerOf[n], j>> = <<m, k>>
      <4>1. ~Free(m, k) /\ leases'[m][k] = [leases[m][k] EXCEPT !.expiresAt = now + ttl]
        BY <2>4, <3>1 DEF RenewLease, TypeOK
      <4>2. leases[m][k].token # token
        BY <4>1 DEF ValidateFencingToken
      <4>3. leases'[m][k].token = leases[m][k].token
        BY <4>1, HeldType DEF Lease
      <4> QED
        BY <4>2, <4>3 DEF ValidateFencingToken
    <3>2. CASE <<ManagerOf[n], j>> # <<m, k>>
      BY <2>1, <2>4, <3>2 DEF RenewLease, TypeOK
    <3> QED
      BY <3>1, <3>2
  <2>5. ASSUME NEW n \in Node, NEW j \in Key, ReleaseLease(n, j)
        PROVE  ~ValidateFencingToken(m, k, token)'
    <3>1. /\ leases' = leases \/ leases' = [leases EXCEPT ![ManagerOf[n]][j] = None]
          /\ UNCHANGED now
      BY <2>5 DEF ReleaseLease
    <3>2. CASE leases' = leases
      BY <2>1, <3>1, <3>2
    <3>3. CASE leases' = [leases EXCEPT ![ManagerOf[n]][j] = None]
      <4>1. leases'[m][k] = None \/ leases'[m][k] = leases[m][k]
        BY <3>3 DEF TypeOK
      <4> QED
        BY <2>1, <2>2, <3>1, <4>1
    <3> QED
      BY <3>1, <3>2, <3>3
  <2>6. CASE Tick
    BY <2>6 DEF Tick, ValidateFencingToken, Free, TypeOK, Lease
  <2>7. ASSUME NEW r \in Manager, Restart(r)
        PROVE  ~ValidateFencingToken(m, k, token)'
    BY <2>1, <2>2, <2>7 DEF Restart, TypeOK
  <2>8. ASSUME NEW n \in Node, NEW j \in Key, RefuseLease(n, j)
        PROVE  ~ValidateFencingToken(m, k, token)'
    BY <2>1, <2>8 DEF RefuseLease
  <2> QED
    BY <2>1, <2>3, <2>4, <2>5, <2>6, <2>7, <2>8 DEF Next, vars
<1>2. QED
  <2>1. TypeOK /\ [Next]_vars => [Fence]_vars
    BY <1>1
  <2> QED
    BY <2>1, TypeCorrect, PTL DEF Spec, StaysFenced

-----------------------------------------------------------------------------
(* The leases: one holder.                                                  *)

\* What keeps the belief of a node true: the grant it relies on is the entry of
\* its manager.  Nobody but the node itself changes an entry that has not expired.
GrantIsEntry ==
    \A n \in Node, k \in Key :
        grant[n][k] # None /\ IsPresent(n, k) /\ now < grant[n][k].expiresAt =>
            /\ leases[ManagerOf[n]][k] = grant[n][k]
            /\ grant[n][k].holder = n

\* No entry and no grant is of a process to come: a restart makes all of the past.
NoneFromFuture ==
    /\ \A m \in Manager, k \in Key :
            leases[m][k] # None => leases[m][k].process <= restarts[m]
    /\ \A n \in Node, k \in Key :
            grant[n][k] # None => grant[n][k].process <= restarts[ManagerOf[n]]

HolderInv == TypeOK /\ GrantIsEntry /\ NoneFromFuture

LEMMA NoneFromFuturePreserved ==
    ASSUME TypeOK, NoneFromFuture, [Next]_vars
    PROVE  NoneFromFuture'
<1>1. ASSUME NEW n \in Node, NEW k \in Key, NEW ttl \in Ttls, GrantLease(n, k, ttl)
      PROVE  NoneFromFuture'
  <2> DEFINE m == ManagerOf[n]
             lease == [holder |-> n, expiresAt |-> now + ttl,
                       epoch |-> NextEpoch(m, k), token |-> NextToken(m),
                       process |-> restarts[m]]
  <2>1. m \in Manager /\ lease.process <= restarts[m]
    BY DEF TypeOK
  <2>2. /\ leases' = [leases EXCEPT ![m][k] = lease]
        /\ grant' = [grant EXCEPT ![n][k] = lease]
        /\ restarts' = restarts
    BY <1>1 DEF GrantLease
  <2> HIDE DEF lease
  <2> QED
    BY <2>1, <2>2 DEF TypeOK, NoneFromFuture
<1>2. ASSUME NEW n \in Node, NEW k \in Key, NEW ttl \in Ttls, RenewLease(n, k, ttl)
      PROVE  NoneFromFuture'
  <2> DEFINE m == ManagerOf[n]
             lease == [leases[m][k] EXCEPT !.expiresAt = now + ttl]
  <2>1. m \in Manager /\ lease.process <= restarts[m]
    <3>1. m \in Manager
      OBVIOUS
    <3>2. leases[m][k] \in Lease /\ leases[m][k] # None
      BY <1>2, <3>1, HeldType DEF RenewLease
    <3>3. lease.process = leases[m][k].process
      BY <3>2 DEF Lease
    <3> QED
      BY <3>1, <3>2, <3>3 DEF NoneFromFuture
  <2>2. /\ leases' = [leases EXCEPT ![m][k] = lease]
        /\ grant' = [grant EXCEPT ![n][k] = lease]
        /\ restarts' = restarts
    BY <1>2 DEF RenewLease
  <2> HIDE DEF lease
  <2> QED
    BY <2>1, <2>2 DEF TypeOK, NoneFromFuture
<1>3. ASSUME NEW n \in Node, NEW k \in Key, RefuseLease(n, k)
      PROVE  NoneFromFuture'
  BY <1>3 DEF RefuseLease, TypeOK, NoneFromFuture
<1>4. ASSUME NEW n \in Node, NEW k \in Key, ReleaseLease(n, k)
      PROVE  NoneFromFuture'
  <2>1. /\ leases' = leases \/ leases' = [leases EXCEPT ![ManagerOf[n]][k] = None]
        /\ grant' = [grant EXCEPT ![n][k] = None] /\ restarts' = restarts
    BY <1>4 DEF ReleaseLease
  <2>2. CASE leases' = leases
    BY <2>1, <2>2 DEF TypeOK, NoneFromFuture
  <2>3. CASE leases' = [leases EXCEPT ![ManagerOf[n]][k] = None]
    BY <2>1, <2>3 DEF TypeOK, NoneFromFuture
  <2> QED
    BY <2>1, <2>2, <2>3
<1>5. CASE Tick
  BY <1>5 DEF Tick, NoneFromFuture
<1>6. ASSUME NEW m \in Manager, Restart(m)
      PROVE  NoneFromFuture'
  <2>1. \A b \in Manager : restarts'[b] >= restarts[b] /\ restarts[b] \in Nat /\ restarts'[b] \in Nat
    BY <1>6 DEF Restart, TypeOK
  <2>2. \A b \in Manager, k \in Key : leases'[b][k] # None => leases'[b][k] = leases[b][k]
    BY <1>6 DEF Restart, TypeOK
  <2>3. \A b \in Manager, k \in Key :
            leases'[b][k] # None => leases'[b][k].process <= restarts'[b]
    BY <2>1, <2>2 DEF NoneFromFuture, TypeOK, Lease
  <2>4. \A n \in Node, k \in Key :
            grant'[n][k] # None => grant'[n][k].process <= restarts'[ManagerOf[n]]
    BY <1>6, <2>1 DEF Restart, NoneFromFuture, TypeOK, Lease
  <2> QED
    BY <2>3, <2>4 DEF NoneFromFuture
<1>7. CASE UNCHANGED vars
  BY <1>7 DEF vars, NoneFromFuture
<1> QED
  BY <1>1, <1>2, <1>3, <1>4, <1>5, <1>6, <1>7 DEF Next

LEMMA HolderInvHolds == Spec => []HolderInv
<1>1. Init => GrantIsEntry /\ NoneFromFuture
  BY DEF Init, GrantIsEntry, NoneFromFuture
<1>2. TypeOK /\ GrantIsEntry /\ NoneFromFuture /\ [Next]_vars => GrantIsEntry'
  <2> SUFFICES ASSUME TypeOK, GrantIsEntry, NoneFromFuture, [Next]_vars,
                      NEW n \in Node, NEW k \in Key, grant'[n][k] # None,
                      IsPresent(n, k)', now' < grant'[n][k].expiresAt
               PROVE  leases'[ManagerOf[n]][k] = grant'[n][k] /\ grant'[n][k].holder = n
    BY DEF GrantIsEntry
  <2> DEFINE Kept == UNCHANGED <<grant[n][k], leases[ManagerOf[n]][k], restarts[ManagerOf[n]]>>
  <2>1. ASSUME Kept, now' >= now
        PROVE  leases'[ManagerOf[n]][k] = grant'[n][k] /\ grant'[n][k].holder = n
    <3>1. now < grant[n][k].expiresAt
      <4>1. grant[n][k] \in Lease /\ now \in Nat /\ now' \in Nat
        BY <2>1, TypePreserved DEF TypeOK
      <4> QED
        BY <2>1, <4>1 DEF Lease
    <3>2. IsPresent(n, k)
      BY <2>1 DEF IsPresent
    <3> QED
      BY <2>1, <3>1, <3>2 DEF GrantIsEntry
  <2>2. ASSUME NEW p \in Node, NEW j \in Key, NEW ttl \in Ttls, GrantLease(p, j, ttl)
        PROVE  leases'[ManagerOf[n]][k] = grant'[n][k] /\ grant'[n][k].holder = n
    <3>1. CASE p = n /\ j = k
      BY <2>2, <3>1 DEF GrantLease, TypeOK
    <3>2. CASE ~(p = n /\ j = k)
      <4>1. grant'[n][k] = grant[n][k] /\ UNCHANGED <<now, restarts>>
        BY <2>2, <3>2 DEF GrantLease, TypeOK
      <4>2. leases[ManagerOf[n]][k] = grant[n][k]
        BY <4>1 DEF GrantIsEntry, IsPresent
      <4>3. ~Free(ManagerOf[n], k)
        BY <4>1, <4>2 DEF Free, TypeOK, Lease
      <4>4. <<ManagerOf[p], j>> # <<ManagerOf[n], k>>
        BY <2>2, <4>3 DEF GrantLease
      <4>5. leases'[ManagerOf[n]][k] = leases[ManagerOf[n]][k]
        BY <2>2, <4>4 DEF GrantLease, TypeOK
      <4> QED
        BY <2>1, <4>1, <4>5 DEF TypeOK
    <3> QED
      BY <3>1, <3>2
  <2>3. ASSUME NEW p \in Node, NEW j \in Key, NEW ttl \in Ttls, RenewLease(p, j, ttl)
        PROVE  leases'[ManagerOf[n]][k] = grant'[n][k] /\ grant'[n][k].holder = n
    <3>1. CASE p = n /\ j = k
      <4>1. leases[ManagerOf[n]][k] \in Lease /\ leases[ManagerOf[n]][k].holder = n
        BY <2>3, <3>1, HeldType DEF RenewLease
      <4>2. /\ leases'[ManagerOf[n]][k] = grant'[n][k]
            /\ grant'[n][k] = [leases[ManagerOf[n]][k] EXCEPT !.expiresAt = now + ttl]
        BY <2>3, <3>1 DEF RenewLease, TypeOK
      <4> QED
        BY <4>1, <4>2 DEF Lease
    <3>2. CASE ~(p = n /\ j = k)
      <4>1. grant'[n][k] = grant[n][k] /\ UNCHANGED <<now, restarts>>
        BY <2>3, <3>2 DEF RenewLease, TypeOK
      <4>2. leases[ManagerOf[n]][k] = grant[n][k] /\ grant[n][k].holder = n
        BY <4>1 DEF GrantIsEntry, IsPresent
      <4>3. <<ManagerOf[p], j>> # <<ManagerOf[n], k>>
        BY <2>3, <3>2, <4>2 DEF RenewLease
      <4>4. leases'[ManagerOf[n]][k] = leases[ManagerOf[n]][k]
        BY <2>3, <4>3 DEF RenewLease, TypeOK
      <4> QED
        BY <2>1, <4>1, <4>4 DEF TypeOK
    <3> QED
      BY <3>1, <3>2
  <2>4. ASSUME NEW p \in Node, NEW j \in Key, RefuseLease(p, j)
        PROVE  leases'[ManagerOf[n]][k] = grant'[n][k] /\ grant'[n][k].holder = n
    <3>1. grant'[n][k] = grant[n][k] /\ UNCHANGED <<now, leases, restarts>>
      BY <2>4 DEF RefuseLease, TypeOK
    <3> QED
      BY <2>1, <3>1 DEF TypeOK
  <2>5. ASSUME NEW p \in Node, NEW j \in Key, ReleaseLease(p, j)
        PROVE  leases'[ManagerOf[n]][k] = grant'[n][k] /\ grant'[n][k].holder = n
    <3>1. ~(p = n /\ j = k) /\ grant'[n][k] = grant[n][k] /\ UNCHANGED <<now, restarts>>
      BY <2>5 DEF ReleaseLease, TypeOK
    <3>2. leases[ManagerOf[n]][k] = grant[n][k] /\ grant[n][k].holder = n
      BY <3>1 DEF GrantIsEntry, IsPresent
    <3>3. \/ leases' = leases
          \/ /\ leases[ManagerOf[p]][j].holder = p
             /\ leases' = [leases EXCEPT ![ManagerOf[p]][j] = None]
      BY <2>5 DEF ReleaseLease
    <3>4. leases'[ManagerOf[n]][k] = leases[ManagerOf[n]][k]
      <4>1. CASE leases' = leases
        BY <4>1
      <4>2. CASE /\ leases[ManagerOf[p]][j].holder = p
                 /\ leases' = [leases EXCEPT ![ManagerOf[p]][j] = None]
        <5>1. <<ManagerOf[p], j>> # <<ManagerOf[n], k>>
          BY <3>1, <3>2, <4>2
        <5> QED
          BY <4>2, <5>1 DEF TypeOK
      <4> QED
        BY <3>3, <4>1, <4>2
    <3> QED
      BY <2>1, <3>1, <3>4 DEF TypeOK
  <2>6. CASE Tick
    BY <2>1, <2>6 DEF Tick, TypeOK
  <2>7. ASSUME NEW m \in Manager, Restart(m)
        PROVE  leases'[ManagerOf[n]][k] = grant'[n][k] /\ grant'[n][k].holder = n
    <3>1. CASE m = ManagerOf[n]
      <4>1. grant'[n][k] = grant[n][k] /\ restarts'[m] = restarts[m] + 1
        BY <2>7 DEF Restart, TypeOK
      <4>2. grant[n][k].process = restarts[m] + 1 /\ grant[n][k].process <= restarts[m]
        BY <3>1, <4>1 DEF IsPresent, NoneFromFuture
      <4> QED
        BY <4>2 DEF TypeOK
    <3>2. CASE m # ManagerOf[n]
      <4>1. Kept /\ now' = now
        BY <2>7, <3>2 DEF Restart, TypeOK
      <4> QED
        BY <2>1, <4>1 DEF TypeOK
    <3> QED
      BY <3>1, <3>2
  <2>8. CASE UNCHANGED vars
    BY <2>1, <2>8 DEF vars, TypeOK
  <2> QED
    BY <2>2, <2>3, <2>4, <2>5, <2>6, <2>7, <2>8 DEF Next
<1>3. QED
  BY <1>1, <1>2, NoneFromFuturePreserved, TypeCorrect, PTL DEF Spec, HolderInv

\* A node that takes itself for the holder has a token its manager accepts, when
\* clocks agree and the manager was not started again since.
THEOREM HoldersAreValid ==
    ASSUME Drift = 0
    PROVE  Spec => []HolderIsValid
<1>1. HolderInv => HolderIsValid
  BY Drift = 0 DEF HolderInv, TypeOK, Lease, GrantIsEntry, HolderIsValid, Holds,
                   ValidateFencingToken, Free
<1> QED
  BY <1>1, HolderInvHolds, PTL

\* Two nodes never take themselves for holders of one lease of one process of a
\* manager, when clocks agree.
THEOREM OneHolderOfALease ==
    ASSUME Drift = 0
    PROVE  Spec => []OneHolder
<1>1. HolderInv => OneHolder
  <2> SUFFICES ASSUME HolderInv, NEW k \in Key, NEW n1 \in Node, NEW n2 \in Node,
                      ManagerOf[n1] = ManagerOf[n2],
                      Holds(n1, k), IsPresent(n1, k), Holds(n2, k), IsPresent(n2, k)
               PROVE  n1 = n2
    BY DEF OneHolder
  <2>1. ASSUME NEW n \in Node, Holds(n, k), IsPresent(n, k)
        PROVE  leases[ManagerOf[n]][k].holder = n
    <3>1. grant[n][k] \in Lease /\ now < grant[n][k].expiresAt /\ grant[n][k] # None
      BY <2>1, Drift = 0 DEF HolderInv, TypeOK, Lease, Holds
    <3> QED
      BY <2>1, <3>1 DEF HolderInv, GrantIsEntry
  <2> QED
    BY <2>1
<1> QED
  BY <1>1, HolderInvHolds, PTL

-----------------------------------------------------------------------------
(* The leases are fenced mutexes.                                           *)

LeaseEntry == Manager \X Key

HolderOf(e) == IF Free(e[1], e[2]) THEN Nobody ELSE leases[e[1]][e[2]].holder

\* No grant had a token above the counter.
CounterIsAhead == \A m \in Manager, k \in Key : last[m][k].token <= counter[m]

LEMMA LastTokens ==
    ASSUME TypeOK, NEW m \in Manager, NEW k \in Key
    PROVE  last[m][k].token \in Nat
<1>1. last[m][k] \in Lease \/ last[m][k] = NoGrant
  BY DEF TypeOK
<1> QED
  BY <1>1 DEF Lease, NoGrant

\* What a step does to the holders and the last grants, seen from the contract.
LEMMA StepIsFenced ==
    ASSUME TypeOK, CounterIsAhead, [Next]_vars
    PROVE  CounterIsAhead' /\ [Fenced!VolatileNext]_(Fenced!vars)
<1> USE DEF HolderOf
<1>1. ASSUME UNCHANGED <<counter, last>>, now' >= now,
             \A e \in LeaseEntry : \/ leases'[e[1]][e[2]] = leases[e[1]][e[2]]
                             \/ leases'[e[1]][e[2]] = None
      PROVE  CounterIsAhead' /\ [Fenced!VolatileNext]_(Fenced!vars)
  <2> DEFINE lost == {e \in LeaseEntry : Free(e[1], e[2])'}
  <2>1. \A e \in LeaseEntry : HolderOf(e)' = IF e \in lost THEN Nobody ELSE HolderOf(e)
    <3> SUFFICES ASSUME NEW e \in LeaseEntry, e \notin lost
                 PROVE  HolderOf(e)' = HolderOf(e)
      OBVIOUS
    <3>1. leases'[e[1]][e[2]] # None /\ now' < leases'[e[1]][e[2]].expiresAt
      <4>1. ~Free(e[1], e[2])'
        OBVIOUS
      <4>2. leases'[e[1]][e[2]] # None /\ ~(now' >= leases'[e[1]][e[2]].expiresAt)
        BY <4>1 DEF Free
      <4>3. leases'[e[1]][e[2]] \in Lease /\ now' \in Nat
        BY <4>2, TypePreserved DEF TypeOK, LeaseEntry
      <4> QED
        BY <4>2, <4>3 DEF Lease
    <3>2. leases'[e[1]][e[2]] = leases[e[1]][e[2]]
      BY <1>1, <3>1
    <3>3. ~Free(e[1], e[2])
      <4>1. leases[e[1]][e[2]] \in Lease /\ now \in Nat /\ now' \in Nat
        BY <3>1, <3>2, TypePreserved DEF TypeOK, LeaseEntry
      <4> QED
        BY <1>1, <3>1, <3>2, <4>1 DEF Free, Lease
    <3> QED
      BY <3>2, <3>3
  <2>2. PICK ks \in SUBSET LeaseEntry : ks = lost
    OBVIOUS
  <2> HIDE DEF lost
  <2>3. Fenced!Lose(ks)
    BY <1>1, <2>1, <2>2 DEF Fenced!Lose, LeaseEntry
  <2>4. Fenced!VolatileNext
    BY <2>3 DEF Fenced!Next, Fenced!VolatileNext, LeaseEntry
  <2> QED
    BY <1>1, <2>4 DEF CounterIsAhead
<1>2. ASSUME NEW n \in Node, NEW k \in Key, NEW ttl \in Ttls, GrantLease(n, k, ttl)
      PROVE  CounterIsAhead' /\ [Fenced!VolatileNext]_(Fenced!vars)
  <2> DEFINE m == ManagerOf[n]
             lease == [holder |-> n, expiresAt |-> now + ttl,
                       epoch |-> NextEpoch(m, k), token |-> NextToken(m), process |-> restarts[m]]
             entry == <<m, k>>
  <2>1. /\ leases' = [leases EXCEPT ![m][k] = lease]
        /\ last' = [last EXCEPT ![m][k] = lease]
        /\ counter' = [counter EXCEPT ![m] = counter[m] + 1]
        /\ now' = now /\ Free(m, k)
    BY <1>2 DEF GrantLease, NextToken
  <2>2. /\ m \in Manager /\ lease.holder = n /\ lease.token = counter[m] + 1
        /\ lease # None /\ ~(now >= lease.expiresAt)
    BY GrantedType DEF NextToken, TypeOK, Lease
  <2>3. entry \in LeaseEntry /\ entry[1] = m /\ entry[2] = k
    BY <2>2 DEF LeaseEntry
  <2> HIDE DEF m, lease
  <2>4. \A e \in LeaseEntry : /\ HolderOf(e)' = IF e = entry THEN n ELSE HolderOf(e)
                        /\ last'[e[1]][e[2]] = IF e = entry THEN lease ELSE last[e[1]][e[2]]
    <3> TAKE e \in LeaseEntry
    <3>1. CASE e = entry
      BY <2>1, <2>2, <2>3, <3>1 DEF Free, TypeOK
    <3>2. CASE e # entry
      <4>1. e[1] \in Manager /\ e[2] \in Key /\ ~(e[1] = m /\ e[2] = k)
        BY <3>2 DEF LeaseEntry
      <4>2. /\ leases'[e[1]][e[2]] = leases[e[1]][e[2]]
            /\ last'[e[1]][e[2]] = last[e[1]][e[2]]
        BY <2>1, <2>2, <4>1 DEF TypeOK
      <4> QED
        BY <2>1, <3>2, <4>2 DEF Free
    <3> QED
      BY <3>1, <3>2
  <2>5. HolderOf(entry) = Nobody /\ lease.token > last[m][k].token
    BY <2>1, <2>2, <2>3, LastTokens DEF CounterIsAhead, TypeOK
  <2>6. CounterIsAhead'
    <3> SUFFICES ASSUME NEW b \in Manager, NEW j \in Key
                 PROVE  last'[b][j].token <= counter'[b]
      BY DEF CounterIsAhead
    <3>1. last[b][j].token \in Nat /\ last[b][j].token <= counter[b]
      BY LastTokens DEF CounterIsAhead
    <3>2. CASE b = m /\ j = k
      BY <2>1, <2>2, <3>2 DEF TypeOK
    <3>3. CASE ~(b = m /\ j = k)
      BY <2>1, <2>2, <3>1, <3>3 DEF TypeOK
    <3> QED
      BY <3>2, <3>3
  <2> HIDE DEF entry
  <2>7. Fenced!Grant(entry, n)
    BY <2>2, <2>3, <2>4, <2>5 DEF Fenced!Grant, LeaseEntry
  <2> QED
    BY <2>3, <2>6, <2>7 DEF Fenced!Next, Fenced!VolatileNext, LeaseEntry
<1>3. ASSUME NEW n \in Node, NEW k \in Key, NEW ttl \in Ttls, RenewLease(n, k, ttl)
      PROVE  CounterIsAhead' /\ [Fenced!VolatileNext]_(Fenced!vars)
  <2> DEFINE m == ManagerOf[n]
             lease == [leases[m][k] EXCEPT !.expiresAt = now + ttl]
  <2>1. /\ leases' = [leases EXCEPT ![m][k] = lease]
        /\ UNCHANGED <<now, counter, last>>
        /\ ~Free(m, k) /\ leases[m][k].holder = n
    BY <1>3 DEF RenewLease
  <2>2. /\ m \in Manager /\ lease \in Lease /\ lease # None
        /\ lease.holder = n /\ ~(now >= lease.expiresAt)
    <3>1. m \in Manager /\ now \in Nat /\ ttl \in Nat \ {0}
      BY DEF TypeOK
    <3>2. leases[m][k] \in Lease
      BY <2>1, <3>1, HeldType
    <3>3. lease \in Lease /\ lease.holder = n /\ lease.expiresAt = now + ttl
      BY <2>1, <3>1, <3>2 DEF Lease
    <3> HIDE DEF lease
    <3> QED
      BY <3>1, <3>3
  <2> HIDE DEF m, lease
  <2>3. \A e \in LeaseEntry : HolderOf(e)' = HolderOf(e)
    <3> TAKE e \in LeaseEntry
    <3>1. CASE e[1] = m /\ e[2] = k
      BY <2>1, <2>2, <3>1 DEF Free, TypeOK
    <3>2. CASE ~(e[1] = m /\ e[2] = k)
      <4>1. leases'[e[1]][e[2]] = leases[e[1]][e[2]]
        BY <2>1, <2>2, <3>2 DEF TypeOK, LeaseEntry
      <4> QED
        BY <2>1, <4>1 DEF Free
    <3> QED
      BY <3>1, <3>2
  <2>4. UNCHANGED Fenced!vars
    BY <2>1, <2>3 DEF Fenced!vars, LeaseEntry
  <2> QED
    BY <2>1, <2>4 DEF CounterIsAhead
<1>4. ASSUME NEW n \in Node, NEW k \in Key, RefuseLease(n, k)
      PROVE  CounterIsAhead' /\ [Fenced!VolatileNext]_(Fenced!vars)
  BY <1>1, <1>4 DEF RefuseLease, TypeOK
<1>5. ASSUME NEW n \in Node, NEW k \in Key, ReleaseLease(n, k)
      PROVE  CounterIsAhead' /\ [Fenced!VolatileNext]_(Fenced!vars)
  <2>1. /\ leases' = leases \/ leases' = [leases EXCEPT ![ManagerOf[n]][k] = None]
        /\ UNCHANGED <<now, counter, last>>
    BY <1>5 DEF ReleaseLease
  <2>2. CASE leases' = leases
    BY <1>1, <2>1, <2>2 DEF TypeOK
  <2>3. CASE leases' = [leases EXCEPT ![ManagerOf[n]][k] = None]
    <3>1. \A e \in LeaseEntry : \/ leases'[e[1]][e[2]] = leases[e[1]][e[2]]
                          \/ leases'[e[1]][e[2]] = None
      BY <2>3 DEF TypeOK, LeaseEntry
    <3> QED
      BY <1>1, <2>1, <3>1 DEF TypeOK
  <2> QED
    BY <2>1, <2>2, <2>3
<1>6. CASE Tick
  BY <1>1, <1>6 DEF Tick, TypeOK
<1>7. ASSUME NEW m \in Manager, Restart(m)
      PROVE  CounterIsAhead' /\ [Fenced!VolatileNext]_(Fenced!vars)
  <2> DEFINE own == {e \in LeaseEntry : e[1] = m}
  <2>1. /\ leases' = [leases EXCEPT ![m] = [k \in Key |-> None]]
        /\ last' = [last EXCEPT ![m] = [k \in Key |-> NoGrant]]
        /\ counter' = [counter EXCEPT ![m] = 1] /\ now' = now
    BY <1>7 DEF Restart
  <2>2. \A e \in LeaseEntry :
            /\ e \in own => /\ HolderOf(e)' = Nobody
                           /\ last'[e[1]][e[2]].holder = Nobody
                           /\ last'[e[1]][e[2]].token = 0
            /\ e \notin own => /\ HolderOf(e)' = HolderOf(e)
                              /\ last'[e[1]][e[2]] = last[e[1]][e[2]]
    <3> TAKE e \in LeaseEntry
    <3>1. CASE e[1] = m
      BY <2>1, <3>1 DEF LeaseEntry, Free, NoGrant, TypeOK
    <3>2. CASE e[1] # m
      BY <2>1, <3>2 DEF LeaseEntry, Free, TypeOK
    <3> QED
      BY <3>1, <3>2
  <2>3. PICK ks \in SUBSET LeaseEntry : ks = own
    OBVIOUS
  <2> HIDE DEF own
  <2>4. Fenced!Forget(ks)
    BY <2>2, <2>3 DEF Fenced!Forget, LeaseEntry
  <2>5. CounterIsAhead'
    <3> SUFFICES ASSUME NEW b \in Manager, NEW k \in Key
                 PROVE  last'[b][k].token <= counter'[b]
      BY DEF CounterIsAhead
    <3>1. CASE b = m
      BY <2>1, <3>1 DEF NoGrant, TypeOK
    <3>2. CASE b # m
      BY <2>1, <3>2 DEF CounterIsAhead, TypeOK
    <3> QED
      BY <3>1, <3>2
  <2> QED
    BY <2>4, <2>5 DEF Fenced!VolatileNext, LeaseEntry
<1>8. CASE UNCHANGED vars
  BY <1>1, <1>8 DEF vars, TypeOK
<1> QED
  BY <1>2, <1>3, <1>4, <1>5, <1>6, <1>7, <1>8 DEF Next

\* Each lease of each manager is a fenced mutex: one holder at a time, and every
\* grant of a process with a larger token than those before.
THEOREM LeasesAreFenced == Spec => KeepsFencing
<1>1. Init => CounterIsAhead /\ Fenced!Init
  <2> SUFFICES ASSUME Init PROVE CounterIsAhead /\ Fenced!Init
    OBVIOUS
  <2>1. \A m \in Manager, k \in Key :
            /\ Free(m, k) /\ last[m][k].token = 0 /\ last[m][k].holder = Nobody
            /\ counter[m] = 1
    BY DEF Init, Free, NoGrant
  <2> QED
    BY <2>1 DEF CounterIsAhead, Fenced!Init
<1>2. TypeOK /\ CounterIsAhead /\ [Next]_vars
          => CounterIsAhead' /\ [Fenced!VolatileNext]_(Fenced!vars)
  BY StepIsFenced
<1> QED
  BY <1>1, <1>2, TypeCorrect, PTL DEF Spec, KeepsFencing, Fenced!VolatileSpec

-----------------------------------------------------------------------------
(* The locks: their types.                                                  *)

USE OwnerAssumption, LockTimeAssumption, NoLockAssumption

LEMMA LockTypePreserved ==
    ASSUME LockTypeOK, [LockNext]_lockVars
    PROVE  LockTypeOK'
<1>1. ASSUME NEW s \in Session, NEW r \in Resource, NEW ttl \in LockTtls, NewLock(s, r, ttl)
      PROVE  LockTypeOK'
  <2> DEFINE lock == [owner |-> OwnerOf[s], validUntil |-> time + ttl, token |-> NextNumber]
             handle == [token |-> lock.token, validUntil |-> time + ttl]
             latest == [owner |-> OwnerOf[s], token |-> lock.token]
  <2>1. /\ lock \in Lock /\ handle \in Handle /\ latest \in [owner : Owner, token : Nat]
        /\ lock.token = fencingSequence + 1 /\ handle.token = fencingSequence + 1
        /\ latest.token = fencingSequence + 1
    BY DEF Lock, Handle, NextNumber, LockTypeOK
  <2>2. /\ fencingSequence' = fencingSequence + 1
        /\ locks' = [locks EXCEPT ![r] = lock]
        /\ got' = [got EXCEPT ![s][r] = handle]
        /\ lastLock' = [lastLock EXCEPT ![r] = latest]
        /\ time' = time
    BY <1>1 DEF NewLock, NextNumber
  <2> HIDE DEF lock, handle, latest
  <2>3. /\ locks' \in [Resource -> Lock \cup {NoLock}]
        /\ got' \in [Session -> [Resource -> Handle \cup {NoLock}]]
        /\ lastLock' \in [Resource -> [owner : Owner \cup {NoOwner}, token : Nat]]
        /\ time' \in Nat /\ fencingSequence' \in Nat
    BY <2>1, <2>2 DEF LockTypeOK
  <2>4. ASSUME NEW q \in Resource
        PROVE  /\ locks'[q] # NoLock => locks'[q].token = lastLock'[q].token
               /\ lastLock'[q].token <= fencingSequence'
               /\ \A u \in Session : got'[u][q] # NoLock => got'[u][q].token <= lastLock'[q].token
    <3>1. \A u \in Session : got[u][q] # NoLock => got[u][q].token \in Nat
      BY DEF LockTypeOK, Handle
    <3>2. CASE q = r
      BY <2>1, <2>2, <3>1, <3>2 DEF LockTypeOK
    <3>3. CASE q # r
      BY <2>1, <2>2, <3>1, <3>3 DEF LockTypeOK
    <3> QED
      BY <3>2, <3>3
  <2> QED
    BY <2>3, <2>4 DEF LockTypeOK
<1>2. ASSUME NEW s \in Session, NEW r \in Resource, NEW until \in Nat,
             locks[r] # NoLock, NEW number, number = locks[r].token,
             locks' = [locks EXCEPT ![r].validUntil = until],
             got' = [got EXCEPT ![s][r] = [token |-> number, validUntil |-> until]],
             UNCHANGED <<time, fencingSequence, lastLock>>
      PROVE  LockTypeOK'
  <2>1. locks[r] \in Lock
    BY <1>2 DEF LockTypeOK
  <2> DEFINE lock == [locks[r] EXCEPT !.validUntil = until]
             handle == [token |-> number, validUntil |-> until]
  <2>2. lock \in Lock /\ lock.token = number /\ handle \in Handle /\ handle.token = number
    BY <1>2, <2>1 DEF Lock, Handle
  <2>3. locks' = [locks EXCEPT ![r] = lock] /\ got' = [got EXCEPT ![s][r] = handle]
    BY <1>2
  <2> HIDE DEF lock, handle
  <2>4. number = lastLock[r].token /\ lastLock[r].token \in Nat
    BY <1>2 DEF LockTypeOK
  <2>5. /\ locks' \in [Resource -> Lock \cup {NoLock}]
        /\ got' \in [Session -> [Resource -> Handle \cup {NoLock}]]
    BY <2>2, <2>3 DEF LockTypeOK
  <2>6. ASSUME NEW q \in Resource
        PROVE  /\ locks'[q] # NoLock => locks'[q].token = lastLock[q].token
               /\ \A u \in Session : got'[u][q] # NoLock => got'[u][q].token <= lastLock[q].token
    <3>1. CASE q = r
      BY <2>2, <2>3, <2>4, <3>1 DEF LockTypeOK
    <3>2. CASE q # r
      BY <2>2, <2>3, <3>2 DEF LockTypeOK
    <3> QED
      BY <3>1, <3>2
  <2> QED
    BY <1>2, <2>5, <2>6 DEF LockTypeOK
<1>3. ASSUME NEW s \in Session, NEW r \in Resource, NEW ttl \in LockTtls, EnterAgain(s, r, ttl)
      PROVE  LockTypeOK'
  <2>1. time + ttl \in Nat
    BY DEF LockTypeOK
  <2> QED
    BY <1>2, <1>3, <2>1 DEF EnterAgain, Valid
<1>4. ASSUME NEW s \in Session, NEW r \in Resource, Refuse(s, r)
      PROVE  LockTypeOK'
  BY <1>4 DEF Refuse, LockTypeOK
<1>5. ASSUME NEW s \in Session, NEW r \in Resource, Release(s, r)
      PROVE  LockTypeOK'
  <2>1. /\ locks' = locks \/ locks' = [locks EXCEPT ![r] = NoLock]
        /\ got' = [got EXCEPT ![s][r] = NoLock]
        /\ UNCHANGED <<time, fencingSequence, lastLock>>
    BY <1>5 DEF Release
  <2>2. CASE locks' = locks
    BY <2>1, <2>2 DEF LockTypeOK
  <2>3. CASE locks' = [locks EXCEPT ![r] = NoLock]
    BY <2>1, <2>3 DEF LockTypeOK
  <2> QED
    BY <2>1, <2>2, <2>3
<1>6. ASSUME NEW s \in Session, NEW r \in Resource, NEW extension \in Extensions,
             Renew(s, r, extension)
      PROVE  LockTypeOK'
  <2>1. time + extension \in Nat
    BY DEF LockTypeOK
  <2>2. CASE Opens(s, r)
    <3>1. got[s][r] \in Handle
      BY <1>6 DEF Renew, LockTypeOK
    <3>2. [got[s][r] EXCEPT !.validUntil = time + extension]
              = [token |-> got[s][r].token, validUntil |-> time + extension]
      BY <3>1 DEF Handle
    <3> QED
      BY <1>2, <1>6, <2>1, <2>2, <3>2 DEF Renew, Opens
  <2>3. CASE ~Opens(s, r)
    <3>1. /\ got' = [got EXCEPT ![s][r] = NoLock]
          /\ UNCHANGED <<time, locks, fencingSequence, lastLock>>
      BY <1>6, <2>3 DEF Renew
    <3> QED
      BY <3>1 DEF LockTypeOK
  <2> QED
    BY <2>2, <2>3
<1>7. CASE LockTick
  BY <1>7 DEF LockTick, LockTypeOK
<1>8. CASE UNCHANGED lockVars
  BY <1>8 DEF lockVars, LockTypeOK
<1> QED
  BY <1>1, <1>3, <1>4, <1>5, <1>6, <1>7, <1>8 DEF LockNext

\* The entries, the handles and the numbers have their types, and no number is
\* used that was not given out.
THEOREM LockTypes == LockSpec => []LockTypeOK
<1>1. LockInit => LockTypeOK
  BY DEF LockInit, LockTypeOK
<1> QED
  BY <1>1, LockTypePreserved, PTL DEF LockSpec
-----------------------------------------------------------------------------
(* The locks: one owner.                                                    *)

\* An entry belongs to the last who locked the resource, and so does every handle
\* with the number of that lock.
NumbersAreOwned ==
    /\ \A r \in Resource : locks[r] # NoLock => locks[r].owner = lastLock[r].owner
    /\ \A s \in Session, r \in Resource :
           got[s][r] # NoLock /\ got[s][r].token = lastLock[r].token
               => OwnerOf[s] = lastLock[r].owner

\* A session that takes itself for a holder is the owner of the entry, which does
\* not expire before the session thinks.
HoldersAreEntered ==
    \A s \in Session, r \in Resource :
        Owns(s, r) => /\ locks[r] # NoLock /\ locks[r].owner = OwnerOf[s]
                      /\ got[s][r].validUntil <= locks[r].validUntil

LEMMA NumbersOwnedPreserved ==
    ASSUME LockTypeOK, NumbersAreOwned, [LockNext]_lockVars
    PROVE  NumbersAreOwned'
<1>1. ASSUME NEW s \in Session, NEW r \in Resource, NEW ttl \in LockTtls, NewLock(s, r, ttl)
      PROVE  NumbersAreOwned'
  <2> DEFINE lock == [owner |-> OwnerOf[s], validUntil |-> time + ttl, token |-> NextNumber]
             handle == [token |-> lock.token, validUntil |-> time + ttl]
             latest == [owner |-> OwnerOf[s], token |-> lock.token]
  <2>1. /\ lock.owner = OwnerOf[s] /\ latest.owner = OwnerOf[s]
        /\ latest.token = fencingSequence + 1
    BY DEF NextNumber
  <2>2. /\ locks' = [locks EXCEPT ![r] = lock]
        /\ got' = [got EXCEPT ![s][r] = handle]
        /\ lastLock' = [lastLock EXCEPT ![r] = latest]
    BY <1>1 DEF NewLock
  <2> HIDE DEF lock, handle, latest
  <2>3. ASSUME NEW u \in Session, got[u][r] # NoLock
        PROVE  got[u][r].token # fencingSequence + 1
    <3>1. got[u][r].token \in Nat /\ lastLock[r].token \in Nat /\ fencingSequence \in Nat
      BY <2>3 DEF LockTypeOK, Handle
    <3>2. got[u][r].token <= lastLock[r].token /\ lastLock[r].token <= fencingSequence
      BY <2>3 DEF LockTypeOK
    <3> QED
      BY <3>1, <3>2
  <2>4. ASSUME NEW q \in Resource, locks'[q] # NoLock
        PROVE  locks'[q].owner = lastLock'[q].owner
    BY <2>1, <2>2, <2>4 DEF LockTypeOK, NumbersAreOwned
  <2>5. ASSUME NEW u \in Session, NEW q \in Resource,
               got'[u][q] # NoLock, got'[u][q].token = lastLock'[q].token
        PROVE  OwnerOf[u] = lastLock'[q].owner
    <3>1. CASE q # r
      BY <2>2, <2>5, <3>1 DEF LockTypeOK, NumbersAreOwned
    <3>2. CASE q = r /\ u # s
      <4>1. got'[u][q] = got[u][r]
        BY <2>2, <3>2 DEF LockTypeOK
      <4>2. lastLock'[q] = latest
        BY <2>2, <3>2 DEF LockTypeOK
      <4> QED
        BY <2>1, <2>3, <2>5, <4>1, <4>2
    <3>3. CASE q = r /\ u = s
      BY <2>1, <2>2, <3>3 DEF LockTypeOK
    <3> QED
      BY <3>1, <3>2, <3>3
  <2> QED
    BY <2>4, <2>5 DEF NumbersAreOwned
<1>2. ASSUME NEW s \in Session, NEW r \in Resource, NEW handle,
             \/ locks' = locks
             \/ locks' = [locks EXCEPT ![r] = NoLock]
             \/ \E until \in Nat : locks[r] # NoLock /\ locks' = [locks EXCEPT ![r].validUntil = until],
             handle = NoLock \/ handle.token # lastLock[r].token \/ OwnerOf[s] = lastLock[r].owner,
             got' = [got EXCEPT ![s][r] = handle], lastLock' = lastLock
      PROVE  NumbersAreOwned'
  <2>1. ASSUME NEW q \in Resource, locks'[q] # NoLock
        PROVE  locks'[q].owner = lastLock[q].owner
    <3>1. CASE locks' = locks
      BY <2>1, <3>1 DEF NumbersAreOwned
    <3>2. CASE locks' = [locks EXCEPT ![r] = NoLock]
      BY <2>1, <3>2 DEF NumbersAreOwned, LockTypeOK
    <3>3. ASSUME NEW until \in Nat, locks[r] # NoLock,
                 locks' = [locks EXCEPT ![r].validUntil = until]
          PROVE  locks'[q].owner = lastLock[q].owner
      <4>1. locks[r] \in Lock
        BY <3>3 DEF LockTypeOK
      <4>2. CASE q = r
        <5>1. locks'[q] = [locks[r] EXCEPT !.validUntil = until]
          BY <3>3, <4>2 DEF LockTypeOK
        <5>2. locks'[q].owner = locks[r].owner
          BY <4>1, <5>1 DEF Lock
        <5> QED
          BY <3>3, <4>2, <5>2 DEF NumbersAreOwned
      <4>3. CASE q # r
        BY <2>1, <3>3, <4>3 DEF NumbersAreOwned, LockTypeOK
      <4> QED
        BY <4>2, <4>3
    <3> QED
      BY <1>2, <3>1, <3>2, <3>3
  <2>2. ASSUME NEW u \in Session, NEW q \in Resource,
               got'[u][q] # NoLock, got'[u][q].token = lastLock[q].token
        PROVE  OwnerOf[u] = lastLock[q].owner
    <3>1. CASE u = s /\ q = r
      BY <1>2, <2>2, <3>1 DEF LockTypeOK
    <3>2. CASE ~(u = s /\ q = r)
      BY <1>2, <2>2, <3>2 DEF LockTypeOK, NumbersAreOwned
    <3> QED
      BY <3>1, <3>2
  <2> QED
    BY <1>2, <2>1, <2>2 DEF NumbersAreOwned
<1>3. ASSUME NEW s \in Session, NEW r \in Resource, NEW ttl \in LockTtls, EnterAgain(s, r, ttl)
      PROVE  NumbersAreOwned'
  <2>1. time + ttl \in Nat
    BY DEF LockTypeOK
  <2>2. OwnerOf[s] = lastLock[r].owner /\ locks[r] # NoLock
    BY <1>3 DEF EnterAgain, Valid, NumbersAreOwned
  <2> DEFINE handle == [token |-> locks[r].token, validUntil |-> time + ttl]
  <2>3. /\ locks' = [locks EXCEPT ![r].validUntil = time + ttl]
        /\ got' = [got EXCEPT ![s][r] = handle] /\ lastLock' = lastLock
    BY <1>3 DEF EnterAgain
  <2> HIDE DEF handle
  <2> QED
    BY <1>2, <2>1, <2>2, <2>3
<1>4. ASSUME NEW s \in Session, NEW r \in Resource, Refuse(s, r)
      PROVE  NumbersAreOwned'
  BY <1>2, <1>4 DEF Refuse
<1>5. ASSUME NEW s \in Session, NEW r \in Resource, Release(s, r)
      PROVE  NumbersAreOwned'
  <2>1. /\ locks' = locks \/ locks' = [locks EXCEPT ![r] = NoLock]
        /\ got' = [got EXCEPT ![s][r] = NoLock] /\ lastLock' = lastLock
    BY <1>5 DEF Release
  <2> QED
    BY <1>2, <2>1
<1>6. ASSUME NEW s \in Session, NEW r \in Resource, NEW extension \in Extensions,
             Renew(s, r, extension)
      PROVE  NumbersAreOwned'
  <2>1. time + extension \in Nat
    BY DEF LockTypeOK
  <2>2. CASE Opens(s, r)
    <3> DEFINE handle == [got[s][r] EXCEPT !.validUntil = time + extension]
    <3>1. /\ locks[r] # NoLock /\ locks' = [locks EXCEPT ![r].validUntil = time + extension]
          /\ got' = [got EXCEPT ![s][r] = handle] /\ lastLock' = lastLock
      BY <1>6, <2>2 DEF Renew, Opens
    <3>2. got[s][r].token = lastLock[r].token
      BY <2>2 DEF Opens, LockTypeOK
    <3>3. OwnerOf[s] = lastLock[r].owner
      BY <2>2, <3>2 DEF Opens, NumbersAreOwned
    <3> HIDE DEF handle
    <3> QED
      BY <1>2, <2>1, <3>1, <3>3
  <2>3. CASE ~Opens(s, r)
    <3>1. /\ got' = [got EXCEPT ![s][r] = NoLock]
          /\ locks' = locks /\ lastLock' = lastLock
      BY <1>6, <2>3 DEF Renew
    <3> QED
      BY <1>2, <3>1
  <2> QED
    BY <2>2, <2>3
<1>7. CASE LockTick
  BY <1>7 DEF LockTick, NumbersAreOwned
<1>8. CASE UNCHANGED lockVars
  BY <1>8 DEF lockVars, NumbersAreOwned
<1> QED
  BY <1>1, <1>3, <1>4, <1>5, <1>6, <1>7, <1>8 DEF LockNext

LEMMA NumbersOwnedHolds == LockSpec => []NumbersAreOwned
<1>1. LockInit => NumbersAreOwned
  BY DEF LockInit, NumbersAreOwned
<1> QED
  BY <1>1, NumbersOwnedPreserved, LockTypes, PTL DEF LockSpec

\* Each owner acts through one session only.
OneSessionPerOwner == \A s1, s2 \in Session : OwnerOf[s1] = OwnerOf[s2] => s1 = s2

LEMMA EnteredPreserved ==
    ASSUME LockTypeOK, NumbersAreOwned, HoldersAreEntered, OneSessionPerOwner,
           [LockNext]_lockVars
    PROVE  HoldersAreEntered'
<1>1. ASSUME NEW s \in Session, NEW r \in Resource, NEW until \in Nat, NEW lock, NEW handle,
             locks' = [locks EXCEPT ![r] = lock], got' = [got EXCEPT ![s][r] = handle],
             lock # NoLock, lock.owner = OwnerOf[s],
             lock.validUntil = until, handle.validUntil = until, time' = time,
             ~Valid(r) \/ locks[r].owner = OwnerOf[s]
      PROVE  HoldersAreEntered'
  <2> SUFFICES ASSUME NEW u \in Session, NEW q \in Resource, Owns(u, q)'
               PROVE  /\ locks'[q] # NoLock /\ locks'[q].owner = OwnerOf[u]
                      /\ got'[u][q].validUntil <= locks'[q].validUntil
    BY DEF HoldersAreEntered
  <2>1. CASE q # r
    <3>1. got'[u][q] = got[u][q] /\ locks'[q] = locks[q]
      BY <1>1, <2>1 DEF LockTypeOK
    <3>2. Owns(u, q)
      BY <1>1, <3>1 DEF Owns
    <3> QED
      BY <3>1, <3>2 DEF HoldersAreEntered
  <2>2. CASE q = r /\ u = s
    <3>1. got'[u][q] = handle /\ locks'[q] = lock
      BY <1>1, <2>2 DEF LockTypeOK
    <3> QED
      BY <1>1, <2>2, <3>1
  <2>3. CASE q = r /\ u # s
    <3>1. got'[u][q] = got[u][q]
      BY <1>1, <2>3 DEF LockTypeOK
    <3>2. Owns(u, q)
      BY <1>1, <3>1 DEF Owns
    <3>3. /\ locks[q] # NoLock /\ locks[q].owner = OwnerOf[u]
          /\ got[u][q].validUntil <= locks[q].validUntil
      BY <3>2 DEF HoldersAreEntered
    <3>4. Valid(q)
      <4>1. got[u][q].validUntil > time
        BY <3>2 DEF Owns
      <4>2. got[u][q] \in Handle /\ locks[q] \in Lock /\ time \in Nat
        BY <3>2, <3>3 DEF Owns, LockTypeOK
      <4> QED
        BY <3>3, <4>1, <4>2 DEF Valid, Handle, Lock
    <3> QED
      BY <1>1, <2>3, <3>3, <3>4 DEF OneSessionPerOwner
  <2> QED
    BY <2>1, <2>2, <2>3
<1>2. ASSUME NEW s \in Session, NEW r \in Resource,
             got' = [got EXCEPT ![s][r] = NoLock], time' = time,
             \/ locks' = locks
             \/ /\ locks' = [locks EXCEPT ![r] = NoLock]
                /\ got[s][r] # NoLock /\ got[s][r].token = lastLock[r].token
      PROVE  HoldersAreEntered'
  <2> SUFFICES ASSUME NEW u \in Session, NEW q \in Resource, Owns(u, q)'
               PROVE  /\ locks'[q] # NoLock /\ locks'[q].owner = OwnerOf[u]
                      /\ got'[u][q].validUntil <= locks'[q].validUntil
    BY DEF HoldersAreEntered
  <2>1. ~(u = s /\ q = r)
    BY <1>2 DEF Owns, LockTypeOK
  <2>2. got'[u][q] = got[u][q]
    BY <1>2, <2>1 DEF LockTypeOK
  <2>3. Owns(u, q)
    BY <1>2, <2>2 DEF Owns
  <2>4. locks'[q] = locks[q]
    <3>1. CASE locks' = locks \/ q # r
      BY <1>2, <3>1 DEF LockTypeOK
    <3>2. CASE /\ q = r /\ got[s][r] # NoLock /\ got[s][r].token = lastLock[r].token
      <4>1. OwnerOf[s] = lastLock[r].owner
        BY <3>2 DEF NumbersAreOwned
      <4>2. OwnerOf[u] = lastLock[r].owner
        BY <2>3, <3>2 DEF HoldersAreEntered, NumbersAreOwned
      <4> QED
        BY <2>1, <3>2, <4>1, <4>2 DEF OneSessionPerOwner
    <3> QED
      BY <1>2, <3>1, <3>2
  <2> QED
    BY <2>2, <2>3, <2>4 DEF HoldersAreEntered
<1>3. ASSUME NEW s \in Session, NEW r \in Resource, NEW ttl \in LockTtls, NewLock(s, r, ttl)
      PROVE  HoldersAreEntered'
  <2> DEFINE lock == [owner |-> OwnerOf[s], validUntil |-> time + ttl, token |-> NextNumber]
             handle == [token |-> lock.token, validUntil |-> time + ttl]
  <2>1. /\ lock \in Lock /\ lock # NoLock /\ lock.owner = OwnerOf[s]
        /\ lock.validUntil = time + ttl /\ handle.validUntil = time + ttl /\ time + ttl \in Nat
    BY DEF Lock, NextNumber, LockTypeOK
  <2>2. /\ locks' = [locks EXCEPT ![r] = lock] /\ got' = [got EXCEPT ![s][r] = handle]
        /\ time' = time /\ ~Valid(r)
    BY <1>3 DEF NewLock
  <2> HIDE DEF lock, handle
  <2> QED
    BY <1>1, <2>1, <2>2
<1>4. ASSUME NEW s \in Session, NEW r \in Resource, NEW until \in Nat, NEW handle,
             locks[r] # NoLock, locks[r].owner = OwnerOf[s],
             locks' = [locks EXCEPT ![r].validUntil = until],
             got' = [got EXCEPT ![s][r] = handle], handle.validUntil = until, time' = time
      PROVE  HoldersAreEntered'
  <2> DEFINE lock == [locks[r] EXCEPT !.validUntil = until]
  <2>1. /\ lock \in Lock /\ lock # NoLock /\ lock.owner = OwnerOf[s] /\ lock.validUntil = until
    <3>1. locks[r] \in Lock
      BY <1>4 DEF LockTypeOK
    <3> QED
      BY <1>4, <3>1 DEF Lock
  <2>2. locks' = [locks EXCEPT ![r] = lock]
    BY <1>4
  <2> HIDE DEF lock
  <2>3. ~Valid(r) \/ locks[r].owner = OwnerOf[s]
    BY <1>4
  <2>4. locks' = [locks EXCEPT ![r] = lock] /\ got' = [got EXCEPT ![s][r] = handle]
    BY <1>4, <2>2
  <2>5. handle.validUntil = until /\ time' = time
    BY <1>4
  <2> QED
    BY <1>1, <2>1, <2>3, <2>4, <2>5
<1>5. ASSUME NEW s \in Session, NEW r \in Resource, NEW ttl \in LockTtls, EnterAgain(s, r, ttl)
      PROVE  HoldersAreEntered'
  <2> DEFINE handle == [token |-> locks[r].token, validUntil |-> time + ttl]
  <2>1. /\ locks' = [locks EXCEPT ![r].validUntil = time + ttl]
        /\ got' = [got EXCEPT ![s][r] = handle] /\ time' = time
        /\ locks[r] # NoLock /\ locks[r].owner = OwnerOf[s]
        /\ handle.validUntil = time + ttl /\ time + ttl \in Nat
    BY <1>5 DEF EnterAgain, Valid, LockTypeOK
  <2> HIDE DEF handle
  <2> QED
    BY <1>4, <2>1
<1>6. ASSUME NEW s \in Session, NEW r \in Resource, Refuse(s, r)
      PROVE  HoldersAreEntered'
  BY <1>2, <1>6 DEF Refuse
<1>7. ASSUME NEW s \in Session, NEW r \in Resource, Release(s, r)
      PROVE  HoldersAreEntered'
  <2>1. /\ got' = [got EXCEPT ![s][r] = NoLock] /\ time' = time
        /\ \/ locks' = locks
           \/ Opens(s, r) /\ locks' = [locks EXCEPT ![r] = NoLock]
    <3>1. CASE Opens(s, r)
      BY <1>7, <3>1 DEF Release
    <3>2. CASE ~Opens(s, r)
      BY <1>7, <3>2 DEF Release
    <3> QED
      BY <3>1, <3>2
  <2>2. Opens(s, r) => got[s][r] # NoLock /\ got[s][r].token = lastLock[r].token
    BY DEF Opens, LockTypeOK
  <2> QED
    BY <1>2, <2>1, <2>2
<1>8. ASSUME NEW s \in Session, NEW r \in Resource, NEW extension \in Extensions,
             Renew(s, r, extension)
      PROVE  HoldersAreEntered'
  <2>1. CASE Opens(s, r)
    <3> DEFINE handle == [got[s][r] EXCEPT !.validUntil = time + extension]
    <3>1. /\ locks[r] # NoLock /\ locks' = [locks EXCEPT ![r].validUntil = time + extension]
          /\ got' = [got EXCEPT ![s][r] = handle] /\ time' = time
      BY <1>8, <2>1 DEF Renew, Opens
    <3>2. got[s][r] \in Handle /\ time + extension \in Nat
      BY <2>1 DEF Opens, LockTypeOK
    <3>3. handle.validUntil = time + extension
      BY <3>2 DEF Handle
    <3>4. locks[r].owner = OwnerOf[s]
      BY <2>1 DEF Opens, LockTypeOK, NumbersAreOwned
    <3> HIDE DEF handle
    <3> QED
      BY <1>4, <3>1, <3>2, <3>3, <3>4
  <2>2. CASE ~Opens(s, r)
    BY <1>2, <1>8, <2>2 DEF Renew
  <2> QED
    BY <2>1, <2>2
<1>9. CASE LockTick
  <2>1. /\ time' = time + 1 /\ UNCHANGED <<locks, got>> /\ time \in Nat
    BY <1>9 DEF LockTick, LockTypeOK
  <2>2. ASSUME NEW u \in Session, NEW q \in Resource, Owns(u, q)'
        PROVE  Owns(u, q)
    <3>1. got[u][q] \in Handle /\ got[u][q].validUntil > time + 1 /\ got[u][q] # NoLock
      BY <2>1, <2>2 DEF Owns, LockTypeOK
    <3> QED
      BY <2>1, <3>1 DEF Owns, Handle
  <2> QED
    BY <2>1, <2>2 DEF HoldersAreEntered
<1>10. CASE UNCHANGED lockVars
  BY <1>10 DEF lockVars, HoldersAreEntered, Owns
<1> QED
  BY <1>3, <1>5, <1>6, <1>7, <1>8, <1>9, <1>10 DEF LockNext

\* If each owner acts through one session, sessions that take themselves for
\* holders of one resource have one owner, though renew does not look whether
\* the lock has expired.
THEOREM OwnersAreOne ==
    ASSUME OneSessionPerOwner
    PROVE  LockSpec => []OneOwner
<1>1. LockInit => HoldersAreEntered
  BY DEF LockInit, HoldersAreEntered, Owns
<1>2. LockTypeOK /\ NumbersAreOwned /\ HoldersAreEntered /\ [LockNext]_lockVars
          => HoldersAreEntered'
  BY EnteredPreserved
<1>3. HoldersAreEntered => OneOwner
  BY DEF HoldersAreEntered, OneOwner
<1> QED
  BY <1>1, <1>2, <1>3, LockTypes, NumbersOwnedHolds, PTL DEF LockSpec

-----------------------------------------------------------------------------
(* The locks are a fenced mutex.                                            *)

\* Who has the lock of r, as the entry says.
OwnerAt(r) == IF Valid(r) THEN locks[r].owner ELSE NoOwner

LEMMA LockStepIsFenced ==
    ASSUME LockTypeOK, NumbersAreOwned, [LockNext]_lockVars
    PROVE  [LocksFenced!RenewableNext]_(LocksFenced!vars)
<1>1. ASSUME lastLock' = lastLock, \A q \in Resource : OwnerAt(q)' = OwnerAt(q)
      PROVE  UNCHANGED LocksFenced!vars
  BY <1>1 DEF LocksFenced!vars, OwnerAt
<1>2. ASSUME NEW s \in Session, NEW r \in Resource, NEW ttl \in LockTtls, NewLock(s, r, ttl)
      PROVE  [LocksFenced!RenewableNext]_(LocksFenced!vars)
  <2> DEFINE lock == [owner |-> OwnerOf[s], validUntil |-> time + ttl, token |-> NextNumber]
             latest == [owner |-> OwnerOf[s], token |-> lock.token]
  <2>1. /\ lock \in Lock /\ lock # NoLock /\ lock.owner = OwnerOf[s] /\ lock.validUntil > time
        /\ latest.owner = OwnerOf[s] /\ latest.token = fencingSequence + 1
    BY DEF Lock, NextNumber, LockTypeOK
  <2>2. /\ locks' = [locks EXCEPT ![r] = lock] /\ lastLock' = [lastLock EXCEPT ![r] = latest]
        /\ time' = time /\ ~Valid(r)
    BY <1>2 DEF NewLock
  <2> HIDE DEF lock, latest
  <2>3. OwnerAt(r) = NoOwner /\ OwnerAt(r)' = OwnerOf[s]
    BY <2>1, <2>2 DEF OwnerAt, Valid, LockTypeOK
  <2>4. \A q \in Resource \ {r} : OwnerAt(q)' = OwnerAt(q)
    BY <2>2 DEF OwnerAt, Valid, LockTypeOK
  <2>5. lastLock'[r].token > lastLock[r].token
    <3>1. lastLock[r].token \in Nat /\ lastLock[r].token <= fencingSequence /\ fencingSequence \in Nat
      BY DEF LockTypeOK
    <3>2. lastLock'[r] = latest
      BY <2>2 DEF LockTypeOK
    <3> QED
      BY <2>1, <3>1, <3>2
  <2>6. \A q \in Resource : lastLock'[q] = IF q = r THEN latest ELSE lastLock[q]
    BY <2>2 DEF LockTypeOK
  <2>7. LocksFenced!Grant(r, OwnerOf[s])
    BY <2>1, <2>3, <2>4, <2>5, <2>6 DEF LocksFenced!Grant, OwnerAt
  <2> QED
    BY <2>7 DEF LocksFenced!RenewableNext, LocksFenced!Next
<1>3. ASSUME NEW s \in Session, NEW r \in Resource, NEW until \in Nat, until > time,
             locks[r] # NoLock, locks' = [locks EXCEPT ![r].validUntil = until],
             time' = time, lastLock' = lastLock
      PROVE  [LocksFenced!RenewableNext]_(LocksFenced!vars)
  <2> DEFINE lock == [locks[r] EXCEPT !.validUntil = until]
  <2>1. /\ lock # NoLock /\ lock.owner = locks[r].owner /\ lock.validUntil = until
        /\ locks' = [locks EXCEPT ![r] = lock]
    <3>1. locks[r] \in Lock
      BY <1>3 DEF LockTypeOK
    <3>2. lock \in Lock
      BY <3>1 DEF Lock
    <3> QED
      BY <1>3, <3>1, <3>2 DEF Lock
  <2> HIDE DEF lock
  <2>2. OwnerAt(r)' = locks[r].owner /\ locks[r].owner = lastLock[r].owner
    BY <1>3, <2>1 DEF OwnerAt, Valid, NumbersAreOwned, LockTypeOK
  <2>3. \A q \in Resource \ {r} : OwnerAt(q)' = OwnerAt(q)
    BY <1>3, <2>1 DEF OwnerAt, Valid, LockTypeOK
  <2>4. CASE Valid(r)
    <3>1. OwnerAt(r)' = OwnerAt(r)
      BY <2>2, <2>4 DEF OwnerAt
    <3> QED
      BY <1>1, <1>3, <2>3, <3>1
  <2>5. CASE ~Valid(r)
    <3>1. OwnerAt(r) = NoOwner
      BY <2>5 DEF OwnerAt
    <3>2. LocksFenced!Regain(r)
      BY <1>3, <2>2, <2>3, <3>1 DEF LocksFenced!Regain, OwnerAt
    <3> QED
      BY <3>2 DEF LocksFenced!RenewableNext
  <2> QED
    BY <2>4, <2>5
<1>4. ASSUME lastLock' = lastLock,
             \A q \in Resource : OwnerAt(q)' = OwnerAt(q) \/ OwnerAt(q)' = NoOwner
      PROVE  [LocksFenced!RenewableNext]_(LocksFenced!vars)
  <2> DEFINE lost == {q \in Resource : OwnerAt(q)' = NoOwner}
  <2>1. PICK qs \in SUBSET Resource : qs = lost
    OBVIOUS
  <2>2. \A q \in Resource : OwnerAt(q)' = IF q \in qs THEN NoOwner ELSE OwnerAt(q)
    BY <1>4, <2>1
  <2> HIDE DEF lost
  <2>3. LocksFenced!Lose(qs)
    BY <1>4, <2>2 DEF LocksFenced!Lose, OwnerAt
  <2> QED
    BY <2>3 DEF LocksFenced!RenewableNext, LocksFenced!Next
<1>5. ASSUME NEW s \in Session, NEW r \in Resource, NEW ttl \in LockTtls, EnterAgain(s, r, ttl)
      PROVE  [LocksFenced!RenewableNext]_(LocksFenced!vars)
  <2>1. time + ttl \in Nat /\ time + ttl > time
    BY DEF LockTypeOK
  <2> QED
    BY <1>3, <1>5, <2>1 DEF EnterAgain, Valid
<1>6. ASSUME NEW s \in Session, NEW r \in Resource, Refuse(s, r)
      PROVE  [LocksFenced!RenewableNext]_(LocksFenced!vars)
  BY <1>4, <1>6 DEF Refuse, OwnerAt, Valid
<1>7. ASSUME NEW s \in Session, NEW r \in Resource, Release(s, r)
      PROVE  [LocksFenced!RenewableNext]_(LocksFenced!vars)
  <2>1. /\ locks' = locks \/ locks' = [locks EXCEPT ![r] = NoLock]
        /\ time' = time /\ lastLock' = lastLock
    BY <1>7 DEF Release
  <2>2. \A q \in Resource : OwnerAt(q)' = OwnerAt(q) \/ OwnerAt(q)' = NoOwner
    <3>1. CASE locks' = locks
      BY <2>1, <3>1 DEF OwnerAt, Valid
    <3>2. CASE locks' = [locks EXCEPT ![r] = NoLock]
      BY <2>1, <3>2 DEF OwnerAt, Valid, LockTypeOK
    <3> QED
      BY <2>1, <3>1, <3>2
  <2> QED
    BY <1>4, <2>1, <2>2
<1>8. ASSUME NEW s \in Session, NEW r \in Resource, NEW extension \in Extensions,
             Renew(s, r, extension)
      PROVE  [LocksFenced!RenewableNext]_(LocksFenced!vars)
  <2>1. time + extension \in Nat /\ time + extension > time
    BY DEF LockTypeOK
  <2>2. CASE Opens(s, r)
    BY <1>3, <1>8, <2>1, <2>2 DEF Renew, Opens
  <2>3. CASE ~Opens(s, r)
    <3>1. locks' = locks /\ time' = time /\ lastLock' = lastLock
      BY <1>8, <2>3 DEF Renew
    <3> QED
      BY <1>4, <3>1 DEF OwnerAt, Valid
  <2> QED
    BY <2>2, <2>3
<1>9. CASE LockTick
  <2>1. time' = time + 1 /\ locks' = locks /\ lastLock' = lastLock /\ time \in Nat
    BY <1>9 DEF LockTick, LockTypeOK
  <2>2. ASSUME NEW q \in Resource, Valid(q)'
        PROVE  Valid(q)
    <3>1. locks[q] \in Lock /\ locks[q].validUntil > time + 1 /\ locks[q] # NoLock
      BY <2>1, <2>2 DEF Valid, LockTypeOK
    <3> QED
      BY <2>1, <3>1 DEF Valid, Lock
  <2>3. \A q \in Resource : OwnerAt(q)' = OwnerAt(q) \/ OwnerAt(q)' = NoOwner
    BY <2>1, <2>2 DEF OwnerAt
  <2> QED
    BY <1>4, <2>1, <2>3
<1>10. CASE UNCHANGED lockVars
  BY <1>4, <1>10 DEF lockVars, OwnerAt, Valid
<1> QED
  BY <1>2, <1>5, <1>6, <1>7, <1>8, <1>9, <1>10 DEF LockNext

\* Each lock is a fenced mutex whose last owner may have it back: new locks have
\* growing numbers, and what expired is revived for nobody else.
THEOREM LocksAreFenced == LockSpec => LocksKeepFencing
<1>1. LockInit => LocksFenced!Init
  BY DEF LockInit, LocksFenced!Init, Valid
<1>2. LockTypeOK /\ NumbersAreOwned /\ [LockNext]_lockVars
          => [LocksFenced!RenewableNext]_(LocksFenced!vars)
  BY LockStepIsFenced
<1> QED
  BY <1>1, <1>2, LockTypes, NumbersOwnedHolds, PTL
     DEF LockSpec, LocksKeepFencing, LocksFenced!RenewableSpec

-----------------------------------------------------------------------------
(* The failure detector and the ring.                                      *)

\* A ring is sorted by hash.
Token == [hash : Nat, nodeId : Host]
SortedByHash(r) == \A i, j \in DOMAIN r : i < j => r[i].hash <= r[j].hash
IsRing(r) == r \in Seq(Token) /\ SortedByHash(r)

LEMMA ByHashIsOrder ==
    ASSUME NEW list \in Seq(Token)
    PROVE  StrictOrder(ByHash(list), DOMAIN list)
<1>1. DOMAIN list \subseteq Nat /\ \A i \in DOMAIN list : list[i] \in Token
    BY LenProperties, ElementOfSeq
<1> DEFINE h(i) == list[i].hash
<1>2. \A i \in DOMAIN list : h(i) \in Nat /\ i \in Nat
    BY <1>1 DEF Token
<1>3. \A i, j \in DOMAIN list :
        <<i, j>> \in ByHash(list) <=> h(i) < h(j) \/ (h(i) = h(j) /\ i < j)
    BY DEF ByHash
<1> HIDE DEF h
<1>4. QED
    <2>1. \A i \in DOMAIN list : <<i, i>> \notin ByHash(list)
        BY <1>2, <1>3
    <2>2. \A i, j, k \in DOMAIN list :
            <<i, j>> \in ByHash(list) /\ <<j, k>> \in ByHash(list) => <<i, k>> \in ByHash(list)
        <3> TAKE i, j, k \in DOMAIN list
        <3>1. h(i) \in Nat /\ h(j) \in Nat /\ h(k) \in Nat /\ i \in Nat /\ j \in Nat /\ k \in Nat
            BY <1>2
        <3>2. QED
            BY <1>3, <3>1
    <2>3. \A i, j \in DOMAIN list : i # j => <<i, j>> \in ByHash(list) \/ <<j, i>> \in ByHash(list)
        <3> TAKE i, j \in DOMAIN list
        <3>1. h(i) \in Nat /\ h(j) \in Nat /\ i \in Nat /\ j \in Nat
            BY <1>2
        <3>2. QED
            BY <1>3, <3>1
    <2>4. QED
        BY Zenon, <2>1, <2>2, <2>3 DEF StrictOrder

\* What is at some positions of a list, each once.
LEMMA EntriesAreThose ==
    ASSUME NEW T, NEW list \in Seq(T), NEW S \in SUBSET DOMAIN list, NEW R, StrictOrder(R, S)
    PROVE  /\ EntriesAt(list, S, R) \in Seq(T)
           /\ IsFiniteSet(S)
           /\ DOMAIN EntriesAt(list, S, R) = DOMAIN Listed(S, R)
           /\ \A k \in DOMAIN Listed(S, R) : Listed(S, R)[k] \in S
<1>1. IsFiniteSet(S)
    <2>1. Len(list) \in Nat /\ DOMAIN list = 1 .. Len(list)
        BY LenProperties
    <2>2. IsFiniteSet(1 .. Len(list))
        BY <2>1, FS_Interval
    <2>3. QED
        BY <2>1, <2>2, FS_Subset
<1> DEFINE order == Listed(S, R)
<1>2. order \in Seq(S)
    BY <1>1, ListedIsInOrder
<1>3. EntriesAt(list, S, R) = [k \in DOMAIN order |-> list[order[k]]]
    BY DEF EntriesAt
<1> HIDE DEF order
<1>4. DOMAIN order = 1 .. Len(order) /\ Len(order) \in Nat /\ \A k \in DOMAIN order : order[k] \in S
    BY <1>2, LenProperties, ElementOfSeq
<1>5. \A i \in S : list[i] \in T
    BY ElementOfSeq
<1>6. [k \in DOMAIN order |-> list[order[k]]] \in [1 .. Len(order) -> T]
    BY <1>4, <1>5
<1>7. EntriesAt(list, S, R) \in Seq(T)
    BY <1>3, <1>4, <1>6, SeqDef
<1>8. QED
    BY <1>1, <1>3, <1>4, <1>7 DEF order
-----------------------------------------------------------------------------
\* Ring b is ring a with the tokens of n put between, where g says where those of a are.
Spread(a, b, n, g) ==
    /\ n \notin NodesOf(a)
    /\ g \in [DOMAIN a -> DOMAIN b]
    /\ \A i, j \in DOMAIN a : i < j => g[i] < g[j]
    /\ \A i \in DOMAIN a : b[g[i]] = a[i]
    /\ \A j \in DOMAIN b : b[j].nodeId # n => \E i \in DOMAIN a : g[i] = j

\* What addNode does to a ring that lacks the node.
LEMMA AddNodeSpreads ==
    ASSUME NEW r, IsRing(r), NEW n \in Host, n \notin NodesOf(r)
    PROVE  /\ IsRing(AddNode(r, n))
           /\ n \in NodesOf(AddNode(r, n))
           /\ \E g : Spread(r, AddNode(r, n), n, g)
<1> DEFINE own == [i \in DOMAIN Tokens[n] |-> [hash |-> Tokens[n][i], nodeId |-> n]]
           pushed == r \o own
           D == DOMAIN pushed
           R == ByHash(pushed)
           order == Listed(D, R)
           b == AddNode(r, n)
<1>1. Tokens[n] \in Seq(Nat) /\ Len(Tokens[n]) \in Nat /\ Len(Tokens[n]) # 0
    BY TokensAssumption, EmptySeq, LenProperties
<1>2. own \in Seq(Token) /\ Len(own) = Len(Tokens[n]) /\ \A i \in DOMAIN own : own[i].nodeId = n
    <2>1. DOMAIN Tokens[n] = 1 .. Len(Tokens[n]) /\ \A i \in DOMAIN Tokens[n] : Tokens[n][i] \in Nat
        BY <1>1, LenProperties, ElementOfSeq
    <2>2. own \in [1 .. Len(Tokens[n]) -> Token]
        BY <2>1 DEF Token
    <2>3. own \in Seq(Token)
        <3> DEFINE m == Len(Tokens[n])
        <3>1. m \in Nat /\ own \in [1 .. m -> Token]
            BY <1>1, <2>2
        <3> HIDE DEF own, m
        <3>2. QED
            BY <3>1, SeqDef
    <2>4. QED
        BY <1>1, <2>1, <2>2, <2>3, LenProperties
<1>3. r \in Seq(Token) /\ Len(r) \in Nat /\ DOMAIN r = 1 .. Len(r)
    BY LenProperties DEF IsRing
<1> HIDE DEF own
<1>4. /\ pushed \in Seq(Token) /\ Len(pushed) = Len(r) + Len(own)
      /\ \A i \in 1 .. Len(r) : pushed[i] = r[i]
      /\ \A i \in Len(r) + 1 .. Len(pushed) : pushed[i].nodeId = n
    <2> r \in Seq(Token) /\ own \in Seq(Token)
        BY <1>2, <1>3
    <2>1. pushed \in Seq(Token) /\ Len(pushed) = Len(r) + Len(own)
        BY ConcatProperties
    <2>2. \A i \in 1 .. Len(pushed) : pushed[i] = IF i <= Len(r) THEN r[i] ELSE own[i - Len(r)]
        <3>1. \A i \in 1 .. Len(r) + Len(own) : pushed[i] = IF i <= Len(r) THEN r[i] ELSE own[i - Len(r)]
            BY ConcatProperties
        <3> HIDE DEF pushed
        <3>2. QED
            BY <2>1, <3>1
    <2>3. DOMAIN own = 1 .. Len(own) /\ Len(own) \in Nat
        BY <1>2, LenProperties
    <2>4. QED
        <3>1. \A i \in 1 .. Len(r) : pushed[i] = r[i]
            BY <1>3, <2>2, <2>3
        <3>2. ASSUME NEW i \in Len(r) + 1 .. Len(pushed) PROVE pushed[i].nodeId = n
            <4>1. i \in 1 .. Len(pushed) /\ ~(i <= Len(r)) /\ i - Len(r) \in 1 .. Len(own)
                BY <1>3, <2>1, <2>3
            <4>2. pushed[i] = own[i - Len(r)]
                BY <2>2, <4>1
            <4>3. QED
                BY <1>2, <2>3, <4>1, <4>2
        <3>3. QED
            BY <2>1, <3>1, <3>2
<1>5. b = EntriesAt(pushed, D, R)
    BY DEF AddNode, own
<1> HIDE DEF pushed, b
<1>6. D = 1 .. Len(pushed) /\ Len(pushed) \in Nat
    BY <1>4, LenProperties
<1>7. StrictOrder(R, D)
    BY <1>4, ByHashIsOrder
<1> HIDE DEF D, R
<1>8. /\ b \in Seq(Token) /\ IsFiniteSet(D) /\ DOMAIN b = DOMAIN order
      /\ \A k \in DOMAIN order : order[k] \in D /\ b[k] = pushed[order[k]]
    <2>1. pushed \in Seq(Token) /\ D \in SUBSET DOMAIN pushed /\ StrictOrder(R, D)
        BY <1>4, <1>7 DEF D
    <2>2. /\ EntriesAt(pushed, D, R) \in Seq(Token) /\ IsFiniteSet(D)
          /\ DOMAIN EntriesAt(pushed, D, R) = DOMAIN Listed(D, R)
          /\ \A k \in DOMAIN Listed(D, R) : Listed(D, R)[k] \in D
        BY <2>1, EntriesAreThose
    <2>3. EntriesAt(pushed, D, R) = [k \in DOMAIN Listed(D, R) |-> pushed[Listed(D, R)[k]]]
        BY Zenon DEF EntriesAt
    <2>4. QED
        BY <1>5, <2>2, <2>3
<1>9. /\ order \in Seq(D)
      /\ \A x \in D : \E k \in DOMAIN order : order[k] = x
      /\ \A j, k \in DOMAIN order : j < k <=> <<order[j], order[k]>> \in R
    BY <1>7, <1>8, ListedIsInOrder
<1> HIDE DEF order
<1>10. \A x, y \in D : <<x, y>> \in R <=>
            \/ pushed[x].hash < pushed[y].hash
            \/ pushed[x].hash = pushed[y].hash /\ x < y
    BY DEF R, D, ByHash
<1>11. SortedByHash(b)
    <2> SUFFICES ASSUME NEW i \in DOMAIN b, NEW j \in DOMAIN b, i < j
                 PROVE  b[i].hash <= b[j].hash
        BY DEF SortedByHash
    <2>1. order[i] \in D /\ order[j] \in D /\ <<order[i], order[j]>> \in R
        BY <1>8, <1>9
    <2>2. b[i] \in Token /\ b[j] \in Token
        BY <1>8, ElementOfSeq
    <2>3. b[i].hash \in Nat /\ b[j].hash \in Nat
        BY <2>2 DEF Token
    <2>4. b[i].hash < b[j].hash \/ b[i].hash = b[j].hash
        BY <1>8, <1>10, <2>1
    <2>5. QED
        BY <2>3, <2>4
<1>12. n \in NodesOf(b)
    <2>1. Len(pushed) \in Len(r) + 1 .. Len(pushed) /\ Len(pushed) \in D
        BY <1>1, <1>2, <1>3, <1>4, <1>6
    <2>2. PICK k \in DOMAIN order : order[k] = Len(pushed)
        BY <1>9, <2>1
    <2>3. b[k].nodeId = n
        BY <1>4, <1>8, <2>1, <2>2
    <2>4. QED
        BY <1>8, <2>2, <2>3 DEF NodesOf
<1>13. \E g : Spread(r, b, n, g)
    <2> DEFINE g == [i \in DOMAIN r |-> CHOOSE k \in DOMAIN b : order[k] = i]
    <2>1. \A i \in DOMAIN r : i \in D /\ pushed[i] = r[i]
        BY <1>2, <1>3, <1>4, <1>6, LenProperties
    <2>2. \A i \in DOMAIN r : g[i] \in DOMAIN b /\ order[g[i]] = i
        BY <1>8, <1>9, <2>1
    <2>3. g \in [DOMAIN r -> DOMAIN b]
        BY <2>2
    <2> HIDE DEF g
    <2>4. \A i, j \in DOMAIN r : i < j => g[i] < g[j]
        <3> SUFFICES ASSUME NEW i \in DOMAIN r, NEW j \in DOMAIN r, i < j PROVE g[i] < g[j]
            OBVIOUS
        <3>1. r[i].hash <= r[j].hash
            BY DEF IsRing, SortedByHash
        <3>2. r[i].hash \in Nat /\ r[j].hash \in Nat
            <4>1. r[i] \in Token /\ r[j] \in Token
                BY <1>3, ElementOfSeq
            <4>2. QED
                BY <4>1 DEF Token
        <3>3. r[i].hash < r[j].hash \/ r[i].hash = r[j].hash
            BY <3>1, <3>2
        <3>4. <<i, j>> \in R
            BY <1>10, <2>1, <3>3
        <3>5. QED
            BY <1>8, <1>9, <2>2, <3>4
    <2>5. \A i \in DOMAIN r : b[g[i]] = r[i]
        BY <1>8, <2>1, <2>2
    <2>6. \A j \in DOMAIN b : b[j].nodeId # n => \E i \in DOMAIN r : g[i] = j
        <3> SUFFICES ASSUME NEW j \in DOMAIN b, b[j].nodeId # n PROVE \E i \in DOMAIN r : g[i] = j
            OBVIOUS
        <3> DEFINE i == order[j]
        <3>1. i \in D /\ b[j] = pushed[i]
            BY <1>8
        <3> HIDE DEF i
        <3>2. i \in DOMAIN r
            BY <1>3, <1>4, <1>6, <3>1
        <3>3. g[i] \in DOMAIN order /\ j \in DOMAIN order /\ order[g[i]] = order[j]
            BY <1>8, <2>2, <3>2 DEF i
        <3>4. g[i] = j
            <4>1. <<order[j], order[j]>> \notin R
                BY <1>7, <1>8, <3>3 DEF StrictOrder
            <4>2. ~(g[i] < j) /\ ~(j < g[i])
                BY <1>9, <3>3, <4>1
            <4>3. g[i] \in Nat /\ j \in Nat
                BY <1>9, <3>3, LenProperties
            <4>4. QED
                BY <4>2, <4>3
        <3>5. QED
            BY <3>2, <3>4
    <2>7. QED
        BY <2>3, <2>4, <2>5, <2>6 DEF Spread
<1>14. QED
    BY <1>8, <1>11, <1>12, <1>13 DEF IsRing, b

\* What removeNode does to a ring that has the node.
LEMMA RemoveNodeSpreads ==
    ASSUME NEW r, IsRing(r), NEW n \in Host, n \in NodesOf(r)
    PROVE  /\ IsRing(RemoveNode(r, n))
           /\ \E g : Spread(RemoveNode(r, n), r, n, g)
<1> DEFINE stay == {i \in DOMAIN r : r[i].nodeId # n}
           R == Upwards(stay)
           order == Listed(stay, R)
           a == RemoveNode(r, n)
<1>1. r \in Seq(Token) /\ SortedByHash(r) /\ DOMAIN r \subseteq Nat
    BY LenProperties DEF IsRing
<1>2. stay \in SUBSET Nat /\ stay \in SUBSET DOMAIN r /\ \A i \in DOMAIN r : i \in stay <=> r[i].nodeId # n
    BY <1>1
<1>3. a = EntriesAt(r, stay, R)
    BY DEF RemoveNode
<1> HIDE DEF a, stay
<1>4. StrictOrder(R, stay)
    BY <1>2, UpwardsIsOrder
<1>5. \A i, j \in stay : <<i, j>> \in R <=> i < j
    BY DEF Upwards
<1> HIDE DEF R
<1>6. /\ a \in Seq(Token) /\ IsFiniteSet(stay) /\ DOMAIN a = DOMAIN order
      /\ \A k \in DOMAIN order : order[k] \in stay /\ a[k] = r[order[k]]
    <2>1. r \in Seq(Token) /\ stay \in SUBSET DOMAIN r /\ StrictOrder(R, stay)
        BY <1>1, <1>2, <1>4
    <2>2. /\ EntriesAt(r, stay, R) \in Seq(Token) /\ IsFiniteSet(stay)
          /\ DOMAIN EntriesAt(r, stay, R) = DOMAIN Listed(stay, R)
          /\ \A k \in DOMAIN Listed(stay, R) : Listed(stay, R)[k] \in stay
        BY <2>1, EntriesAreThose, SMTT(30)
    <2>3. EntriesAt(r, stay, R) = [k \in DOMAIN Listed(stay, R) |-> r[Listed(stay, R)[k]]]
        BY Zenon DEF EntriesAt
    <2>4. QED
        BY <1>3, <2>2, <2>3
<1>7. /\ order \in Seq(stay)
      /\ \A x \in stay : \E k \in DOMAIN order : order[k] = x
      /\ \A j, k \in DOMAIN order : j < k <=> <<order[j], order[k]>> \in R
    BY <1>4, <1>6, ListedIsInOrder
<1> HIDE DEF order
<1>8. \A i, j \in DOMAIN a : i < j => order[i] < order[j]
    BY <1>5, <1>6, <1>7
<1>9. SortedByHash(a)
    <2> SUFFICES ASSUME NEW i \in DOMAIN a, NEW j \in DOMAIN a, i < j
                 PROVE  a[i].hash <= a[j].hash
        BY DEF SortedByHash
    <2>1. /\ order[i] \in DOMAIN r /\ order[j] \in DOMAIN r /\ order[i] < order[j]
          /\ a[i] = r[order[i]] /\ a[j] = r[order[j]]
        BY <1>2, <1>6, <1>8
    <2>2. QED
        BY <1>1, <2>1 DEF SortedByHash
<1>10. order \in [DOMAIN a -> DOMAIN r]
    <2>1. order \in [1 .. Len(order) -> stay] /\ DOMAIN order = 1 .. Len(order)
        BY <1>7, LenProperties
    <2>2. QED
        BY <1>2, <1>6, <2>1
<1>11. n \notin NodesOf(a)
    <2>1. \A i \in DOMAIN a : a[i].nodeId # n
        BY <1>2, <1>6
    <2>2. QED
        BY <2>1 DEF NodesOf
<1>12. \A j \in DOMAIN r : r[j].nodeId # n => \E i \in DOMAIN a : order[i] = j
    BY <1>2, <1>6, <1>7
<1>13. Spread(a, r, n, order)
    BY <1>6, <1>8, <1>10, <1>11, <1>12 DEF Spread
<1>14. QED
    BY <1>6, <1>9, <1>13 DEF IsRing, a
-----------------------------------------------------------------------------
\* Steps round the ring from where a hash is found to a token.
StepsTo(r, hash, i) ==
    LET start == StartIndex(r, hash)
    IN  IF i >= start THEN i - start ELSE i + Len(r) - start

\* Token i comes before token j on the way round from a hash.
Ahead(r, hash, i, j) ==
    \/ r[i].hash >= hash /\ ~(r[j].hash >= hash)
    \/ (r[i].hash >= hash <=> r[j].hash >= hash) /\ i < j

LEMMA StepsFollowTheRing ==
    ASSUME NEW r, IsRing(r), NEW hash \in Nat
    PROVE  \A i, j \in DOMAIN r : /\ StepsTo(r, hash, i) \in Nat
                                  /\ StepsTo(r, hash, i) < StepsTo(r, hash, j) <=> Ahead(r, hash, i, j)
<1> DEFINE h(i) == r[i].hash >= hash
           after == {i \in DOMAIN r : h(i)}
           start == StartIndex(r, hash)
           n == Len(r)
           s(i) == StepsTo(r, hash, i)
<1>1. r \in Seq(Token) /\ n \in Nat /\ DOMAIN r = 1 .. n
    BY LenProperties DEF IsRing
<1>2. \A i, j \in 1 .. n : i < j /\ h(i) => h(j)
    <2> SUFFICES ASSUME NEW i \in 1 .. n, NEW j \in 1 .. n, i < j, h(i) PROVE h(j)
        OBVIOUS
    <2>1. r[i].hash \in Nat /\ r[j].hash \in Nat
        <3>1. r[i] \in Token /\ r[j] \in Token
            BY <1>1, ElementOfSeq
        <3>2. QED
            BY <3>1 DEF Token
    <2>2. r[i].hash <= r[j].hash
        BY <1>1 DEF IsRing, SortedByHash
    <2>3. QED
        BY <2>1, <2>2
<1>3. start = IF after = {} THEN 1 ELSE Min(after)
    BY Zenon DEF StartIndex
<1>4. \A i \in 1 .. n : s(i) = IF i >= start THEN i - start ELSE i + n - start
    BY DEF StepsTo
<1>5. \A i, j \in 1 .. n : Ahead(r, hash, i, j) <=> (h(i) /\ ~h(j)) \/ ((h(i) <=> h(j)) /\ i < j)
    BY DEF Ahead
<1> HIDE DEF h, start, n, s
<1>6. CASE after = {}
    <2>1. start = 1 /\ \A i \in 1 .. n : ~h(i)
        BY <1>1, <1>3, <1>6
    <2>2. \A i \in 1 .. n : s(i) = i - 1
        BY <1>1, <1>4, <2>1
    <2>3. QED
        BY <1>1, <1>5, <2>1, <2>2 DEF s
<1>7. CASE after # {}
    <2>1. start \in after /\ \A i \in after : start <= i
        <3>1. after \in SUBSET Nat
            BY <1>1
        <3> HIDE DEF after
        <3>2. QED
            BY <1>3, <1>7, <3>1, MinIsLeast
    <2>2. start \in 1 .. n /\ \A i \in 1 .. n : i >= start <=> h(i)
        BY <1>1, <1>2, <2>1
    <2>3. \A i \in 1 .. n : s(i) \in Nat
        BY <1>1, <1>4, <2>2
    <2>4. \A i, j \in 1 .. n : s(i) < s(j) <=> (h(i) /\ ~h(j)) \/ ((h(i) <=> h(j)) /\ i < j)
        <3> SUFFICES ASSUME NEW i \in 1 .. n, NEW j \in 1 .. n
                     PROVE  s(i) < s(j) <=> (h(i) /\ ~h(j)) \/ ((h(i) <=> h(j)) /\ i < j)
            OBVIOUS
        <3>1. /\ s(i) = IF i >= start THEN i - start ELSE i + n - start
              /\ s(j) = IF j >= start THEN j - start ELSE j + n - start
              /\ i >= start <=> h(i)
              /\ j >= start <=> h(j)
            BY <1>4, <2>2
        <3>2. QED
            BY <1>1, <2>2, <3>1
    <2>5. QED
        BY <1>1, <1>5, <2>3, <2>4 DEF s
<1>8. QED
    BY <1>6, <1>7

\* The turned ring has every token at the place to which it is that many steps.
LEMMA TurnedHasThemInOrder ==
    ASSUME NEW r, IsRing(r), NEW hash \in Nat
    PROVE  /\ Turned(r, hash) \in Seq(Token)
           /\ Len(Turned(r, hash)) = Len(r)
           /\ \A i \in DOMAIN r : /\ StepsTo(r, hash, i) + 1 \in DOMAIN r
                                  /\ Turned(r, hash)[StepsTo(r, hash, i) + 1] = r[i]
           /\ \A p \in DOMAIN r : \E i \in DOMAIN r : StepsTo(r, hash, i) + 1 = p
<1> DEFINE n == Len(r)
           after == {i \in DOMAIN r : r[i].hash >= hash}
           start == StartIndex(r, hash)
           t1 == SubSeq(r, start, n)
           t2 == SubSeq(r, 1, start - 1)
           t == Turned(r, hash)
           s(i) == StepsTo(r, hash, i)
<1>1. r \in Seq(Token) /\ n \in Nat /\ DOMAIN r = 1 .. n /\ \A i \in 1 .. n : r[i] \in Token
    BY LenProperties, ElementOfSeq DEF IsRing
<1>2. start \in Nat /\ start >= 1 /\ start <= n + 1
    <2>1. start = IF after = {} THEN 1 ELSE Min(after)
        BY Zenon DEF StartIndex
    <2>2. after \in SUBSET Nat /\ after \subseteq 1 .. n
        BY <1>1
    <2> HIDE DEF after, start, n
    <2>3. after # {} => Min(after) \in after
        BY <2>2, MinIsLeast
    <2>4. QED
        BY <1>1, <2>1, <2>2, <2>3
<1>3. t = t1 \o t2
    BY Zenon DEF Turned
<1>4. \A i \in 1 .. n : s(i) = IF i >= start THEN i - start ELSE i + n - start
    BY DEF StepsTo
<1> HIDE DEF start, n, s
<1>5. t1 \in Seq(Token) /\ Len(t1) = n - start + 1 /\ \A i \in 1 .. n - start + 1 : t1[i] = r[start + i - 1]
    <2>1. \A i \in start .. n : r[i] \in Token
        BY <1>1, <1>2
    <2>2. /\ t1 \in Seq(Token)
          /\ Len(t1) = IF start <= n THEN n - start + 1 ELSE 0
          /\ \A i \in 1 .. n - start + 1 : t1[i] = r[start + i - 1]
        BY <1>1, <1>2, <2>1, SubSeqProperties
    <2> HIDE DEF t1
    <2>3. QED
        BY <1>1, <1>2, <2>2
<1>6. t2 \in Seq(Token) /\ Len(t2) = start - 1 /\ \A i \in 1 .. start - 1 : t2[i] = r[i]
    <2>1. \A i \in 1 .. start - 1 : r[i] \in Token
        BY <1>1, <1>2
    <2>2. /\ t2 \in Seq(Token)
          /\ Len(t2) = IF 1 <= start - 1 THEN start - 1 - 1 + 1 ELSE 0
          /\ \A i \in 1 .. start - 1 - 1 + 1 : t2[i] = r[1 + i - 1]
        BY <1>1, <1>2, <2>1, SubSeqProperties
    <2> HIDE DEF t2
    <2>3. QED
        BY <1>1, <1>2, <2>2
<1> HIDE DEF t1, t2, t
<1>7. /\ t \in Seq(Token) /\ Len(t) = n
      /\ \A i \in 1 .. n : t[i] = IF i <= n - start + 1 THEN t1[i] ELSE t2[i - (n - start + 1)]
    <2>1. /\ t \in Seq(Token) /\ Len(t) = Len(t1) + Len(t2)
          /\ \A i \in 1 .. Len(t1) + Len(t2) : t[i] = IF i <= Len(t1) THEN t1[i] ELSE t2[i - Len(t1)]
        BY <1>3, <1>5, <1>6, ConcatProperties
    <2>2. Len(t1) + Len(t2) = n
        BY <1>1, <1>2, <1>5, <1>6
    <2>3. QED
        BY <1>5, <2>1, <2>2
<1>8. \A i \in 1 .. n : s(i) + 1 \in 1 .. n /\ t[s(i) + 1] = r[i]
    <2> TAKE i \in 1 .. n
    <2>1. CASE i >= start
        <3> DEFINE k == s(i) + 1
        <3>1. k \in 1 .. n /\ k \in 1 .. n - start + 1 /\ k <= n - start + 1 /\ start + k - 1 = i
            BY <1>1, <1>2, <1>4, <2>1
        <3> HIDE DEF k
        <3>2. t[k] = t1[k]
            BY <1>7, <3>1
        <3>3. t1[k] = r[i]
            BY <1>5, <3>1
        <3>4. QED
            BY <3>1, <3>2, <3>3 DEF k
    <2>2. CASE ~(i >= start)
        <3> DEFINE k == s(i) + 1
        <3>1. k \in 1 .. n /\ ~(k <= n - start + 1) /\ k - (n - start + 1) = i
            BY <1>1, <1>2, <1>4, <2>2
        <3> HIDE DEF k
        <3>2. t[k] = t2[i]
            BY <1>7, <3>1
        <3>3. i \in 1 .. start - 1
            BY <1>1, <1>2, <2>2
        <3>4. QED
            BY <1>6, <3>1, <3>2, <3>3 DEF k
    <2>3. QED
        BY <2>1, <2>2
<1>9. \A p \in 1 .. n : \E i \in 1 .. n : s(i) + 1 = p
    <2> TAKE p \in 1 .. n
    <2>1. CASE p <= n - start + 1
        <3> DEFINE i == p + start - 1
        <3>1. i \in 1 .. n /\ i >= start /\ i - start + 1 = p
            BY <1>1, <1>2, <2>1
        <3> HIDE DEF i
        <3>2. s(i) + 1 = p
            BY <1>4, <3>1
        <3>3. QED
            BY <3>1, <3>2
    <2>2. CASE ~(p <= n - start + 1)
        <3> DEFINE i == p - (n - start + 1)
        <3>1. i \in 1 .. n /\ ~(i >= start) /\ i + n - start + 1 = p
            BY <1>1, <1>2, <2>2
        <3> HIDE DEF i
        <3>2. s(i) + 1 = p
            BY <1>4, <3>1
        <3>3. QED
            BY <3>1, <3>2
    <2>3. QED
        BY <2>1, <2>2
<1>10. QED
    BY <1>1, <1>7, <1>8, <1>9 DEF t, s, n

-----------------------------------------------------------------------------
TokensOf(r, x) == {i \in DOMAIN r : r[i].nodeId = x}

\* A node is met before another one if some token of it is ahead of all those of the other.
MetBefore(r, hash, x, y) ==
    \E i \in TokensOf(r, x) : \A j \in TokensOf(r, y) : Ahead(r, hash, i, j)

\* The list of preference has the nodes in the order in which they are met.
LEMMA PreferenceIsTheOrder ==
    ASSUME NEW r, IsRing(r), NEW hash \in Nat
    PROVE  /\ \A k \in DOMAIN PreferenceList(r, hash, Len(r)) :
                PreferenceList(r, hash, Len(r))[k] \in NodesOf(r)
           /\ \A x, y \in NodesOf(r) :
                Precedes(PreferenceList(r, hash, Len(r)), x, y) <=> MetBefore(r, hash, x, y)
<1> DEFINE n == Len(r)
           t == Turned(r, hash)
           s(i) == StepsTo(r, hash, i)
           name == [i \in DOMAIN t |-> t[i].nodeId]
           first == {i \in DOMAIN t : \A j \in 1 .. i - 1 : t[j].nodeId # t[i].nodeId}
           order == Listed(first, Upwards(first))
           met == EntriesAt(name, first, Upwards(first))
<1>1. /\ n \in Nat /\ DOMAIN r = 1 .. n
      /\ t \in Seq(Token) /\ DOMAIN t = 1 .. n
      /\ \A i \in 1 .. n : s(i) + 1 \in 1 .. n /\ t[s(i) + 1] = r[i]
      /\ \A p \in 1 .. n : \E i \in 1 .. n : s(i) + 1 = p
      /\ \A i, j \in 1 .. n : s(i) \in Nat /\ (s(i) < s(j) <=> Ahead(r, hash, i, j))
    <2>1. n \in Nat /\ DOMAIN r = 1 .. n
        BY LenProperties DEF IsRing
    <2>2. /\ t \in Seq(Token) /\ Len(t) = n
          /\ \A i \in DOMAIN r : s(i) + 1 \in DOMAIN r /\ t[s(i) + 1] = r[i]
          /\ \A p \in DOMAIN r : \E i \in DOMAIN r : s(i) + 1 = p
        BY TurnedHasThemInOrder
    <2>3. DOMAIN t = 1 .. Len(t)
        BY <2>2, LenProperties
    <2>4. \A i, j \in DOMAIN r : s(i) \in Nat /\ (s(i) < s(j) <=> Ahead(r, hash, i, j))
        BY StepsFollowTheRing
    <2>5. QED
        BY <2>1, <2>2, <2>3, <2>4
<1>2. PreferenceList(r, hash, n) = SubSeq(met, 1, Min({n, Len(met)}))
    BY Zenon DEF PreferenceList
<1> HIDE DEF t, s, n
<1>3. name \in Seq(Host)
    <2>1. \A i \in 1 .. n : t[i] \in Token
        BY <1>1, ElementOfSeq
    <2>2. name \in [1 .. n -> Host]
        BY <1>1, <2>1 DEF Token
    <2> HIDE DEF name
    <2>3. QED
        BY <1>1, <2>2, SeqDef
<1>4. \A i \in 1 .. n : name[i] = t[i].nodeId
    BY <1>1
<1>5. /\ first \in SUBSET Nat /\ first \subseteq 1 .. n /\ first \in SUBSET DOMAIN name
      /\ \A i \in first : \A j \in 1 .. i - 1 : t[j].nodeId # t[i].nodeId
    BY <1>1
<1>6. \A p \in 1 .. n : \E q \in first : q <= p /\ t[q].nodeId = t[p].nodeId
    <2> TAKE p \in 1 .. n
    <2> DEFINE P == {q \in 1 .. n : t[q].nodeId = t[p].nodeId}
    <2>1. P \in SUBSET Nat /\ P # {}
        <3>1. P \subseteq 1 .. n /\ p \in P
            OBVIOUS
        <3>2. n \in Nat
            BY <1>1
        <3>3. 1 .. n \subseteq Nat
            BY <3>2
        <3> HIDE DEF P
        <3>4. QED
            BY Zenon, <3>1, <3>3
    <2>2. PICK q \in P : \A l \in P : q <= l
        <3> HIDE DEF P
        <3>1. QED
            BY <2>1, LeastNatural
    <2>3. q \in 1 .. n /\ t[q].nodeId = t[p].nodeId /\ q <= p
        BY <1>1, <2>2
    <2>4. \A l \in 1 .. q - 1 : t[l].nodeId # t[q].nodeId
        <3> SUFFICES ASSUME NEW l \in 1 .. q - 1, t[l].nodeId = t[q].nodeId PROVE FALSE
            OBVIOUS
        <3>1. l \in P
            BY <1>1, <2>3
        <3>2. QED
            BY <1>1, <2>2, <2>3, <3>1
    <2>5. q \in first
        BY <1>1, <2>3, <2>4
    <2>6. QED
        BY <2>3, <2>5
<1> HIDE DEF first, name
<1>7. StrictOrder(Upwards(first), first)
    BY <1>5, UpwardsIsOrder
<1>8. met \in Seq(Host) /\ IsFiniteSet(first) /\ DOMAIN met = DOMAIN order
    <2> HIDE DEF met, order
    <2>1. name \in Seq(Host) /\ first \in SUBSET DOMAIN name
        BY <1>3, <1>5
    <2>2. /\ EntriesAt(name, first, Upwards(first)) \in Seq(Host) /\ IsFiniteSet(first)
          /\ DOMAIN EntriesAt(name, first, Upwards(first)) = DOMAIN Listed(first, Upwards(first))
        <3> DEFINE R == Upwards(first)
        <3>1. StrictOrder(R, first)
            BY <1>7
        <3> HIDE DEF R
        <3>2. /\ EntriesAt(name, first, R) \in Seq(Host) /\ IsFiniteSet(first)
              /\ DOMAIN EntriesAt(name, first, R) = DOMAIN Listed(first, R)
            BY <2>1, <3>1, EntriesAreThose
        <3>3. QED
            BY <3>2 DEF R
    <2>3. QED
        BY <2>2 DEF met, order
<1>9. /\ order \in Seq(first)
      /\ \A p \in first : \E k \in DOMAIN order : order[k] = p
      /\ \A j, k \in DOMAIN order : j < k <=> <<order[j], order[k]>> \in Upwards(first)
    BY <1>7, <1>8, ListedIsInOrder
<1>10. met = [k \in DOMAIN order |-> name[order[k]]]
    BY Zenon DEF EntriesAt
<1> HIDE DEF met, order
<1>11. \A k \in DOMAIN order : order[k] \in first
    BY <1>9, ElementOfSeq
<1>12. \A k \in DOMAIN order : met[k] = t[order[k]].nodeId
    BY <1>4, <1>5, <1>10, <1>11
<1>13. \A j, k \in DOMAIN order : j < k <=> order[j] < order[k]
    BY <1>9, <1>11 DEF Upwards
<1>14. PreferenceList(r, hash, n) = met
    <2>1. Len(met) \in Nat /\ DOMAIN met = 1 .. Len(met) /\ DOMAIN order = 1 .. Len(met)
        BY <1>8, LenProperties
    <2>2. Len(met) <= n
        <3>1. order \in [1 .. Len(met) -> 1 .. n]
            <4>1. order \in [DOMAIN order -> first]
                BY <1>9, LenProperties
            <4>2. QED
                BY <1>5, <2>1, <4>1
        <3>2. \A j, k \in 1 .. Len(met) : order[j] = order[k] => j = k
            <4> SUFFICES ASSUME NEW j \in 1 .. Len(met), NEW k \in 1 .. Len(met),
                                order[j] = order[k]
                         PROVE  j = k
                OBVIOUS
            <4>1. order[j] \in Nat
                BY <1>5, <1>11, <2>1
            <4>2. ~(j < k) /\ ~(k < j)
                BY <1>13, <2>1, <4>1
            <4>3. QED
                BY <4>2
        <3>3. order \in Injection(1 .. Len(met), 1 .. n)
            BY <3>1, <3>2 DEF Injection, IsInjective
        <3>4. IsFiniteSet(1 .. Len(met)) /\ Cardinality(1 .. Len(met)) = Len(met)
              /\ IsFiniteSet(1 .. n) /\ Cardinality(1 .. n) = n
            BY <1>1, <2>1, FirstNumbers
        <3>5. QED
            BY <3>3, <3>4, FS_Injection
    <2>3. Min({n, Len(met)}) = Len(met)
        <3>1. {n, Len(met)} \in SUBSET Nat /\ {n, Len(met)} # {}
            BY <1>1, <2>1
        <3>2. Min({n, Len(met)}) \in {n, Len(met)} /\ Min({n, Len(met)}) <= Len(met)
            BY <3>1, MinIsLeast
        <3>3. QED
            BY <1>1, <2>1, <2>2, <3>2
    <2>4. QED
        BY <1>2, <1>8, <2>3, SubSeqFull
<1>15. ASSUME NEW x \in NodesOf(r), NEW y \in NodesOf(r), Precedes(met, x, y)
       PROVE  MetBefore(r, hash, x, y)
    <2>1. PICK k, l \in DOMAIN order : k < l /\ met[k] = x /\ met[l] = y
        BY <1>8, <1>15 DEF Precedes
    <2> DEFINE p == order[k]
               q == order[l]
    <2>2. p \in first /\ q \in first /\ p < q /\ t[p].nodeId = x /\ t[q].nodeId = y
        BY <1>11, <1>12, <1>13, <2>1
    <2> HIDE DEF p, q
    <2>3. p \in 1 .. n /\ q \in 1 .. n
        BY <1>5, <2>2
    <2>4. PICK i \in 1 .. n : s(i) + 1 = p
        BY <1>1, <2>3
    <2>5. i \in TokensOf(r, x)
        <3>1. t[p] = r[i]
            BY <1>1, <2>4
        <3>2. QED
            BY <1>1, <2>2, <3>1 DEF TokensOf
    <2>6. ASSUME NEW j \in TokensOf(r, y) PROVE Ahead(r, hash, i, j)
        <3>1. j \in 1 .. n /\ r[j].nodeId = y
            BY <1>1 DEF TokensOf
        <3>2. s(j) + 1 \in 1 .. n /\ t[s(j) + 1].nodeId = y /\ s(j) \in Nat /\ s(i) \in Nat
            BY <1>1, <3>1
        <3>3. q <= s(j) + 1
            <4>1. s(j) + 1 \notin 1 .. q - 1
                BY <1>5, <2>2, <3>2
            <4>2. QED
                BY <1>1, <2>3, <3>2, <4>1
        <3>4. s(i) < s(j)
            BY <2>2, <2>3, <2>4, <3>2, <3>3
        <3>5. QED
            BY <1>1, <3>1, <3>4
    <2>7. QED
        BY <2>5, <2>6 DEF MetBefore
<1>16. ASSUME NEW x \in NodesOf(r), NEW y \in NodesOf(r), MetBefore(r, hash, x, y)
       PROVE  Precedes(met, x, y)
    <2>1. PICK i \in TokensOf(r, x) : \A j \in TokensOf(r, y) : Ahead(r, hash, i, j)
        BY <1>16 DEF MetBefore
    <2>2. i \in 1 .. n /\ r[i].nodeId = x
        BY <1>1 DEF TokensOf
    <2>3. s(i) + 1 \in 1 .. n /\ t[s(i) + 1].nodeId = x /\ s(i) \in Nat
        BY <1>1, <2>2
    <2>4. PICK p \in first : p <= s(i) + 1 /\ t[p].nodeId = x
        BY <1>6, <2>3
    <2>5. PICK j \in 1 .. n : r[j].nodeId = y
        BY <1>1 DEF NodesOf
    <2>6. s(j) + 1 \in 1 .. n /\ t[s(j) + 1].nodeId = y
        BY <1>1, <2>5
    <2>7. PICK q \in first : t[q].nodeId = y
        BY <1>6, <2>6
    <2>8. PICK m \in 1 .. n : s(m) + 1 = q
        BY <1>1, <1>5, <2>7
    <2>9. m \in TokensOf(r, y) /\ s(m) \in Nat
        <3>1. t[q] = r[m] /\ s(m) \in Nat
            BY <1>1, <2>8
        <3>2. QED
            BY <1>1, <2>7, <3>1 DEF TokensOf
    <2>10. s(i) < s(m)
        BY <1>1, <2>1, <2>2, <2>9
    <2>11. p < q
        <3>1. p \in Nat /\ q \in Nat
            BY <1>5
        <3>2. QED
            BY <2>3, <2>4, <2>8, <2>9, <2>10, <3>1
    <2>12. PICK k \in DOMAIN order : order[k] = p
        BY <1>9
    <2>13. PICK l \in DOMAIN order : order[l] = q
        BY <1>9
    <2>14. k < l /\ met[k] = x /\ met[l] = y
        BY <1>12, <1>13, <2>4, <2>7, <2>11, <2>12, <2>13
    <2>15. QED
        BY <1>8, <2>14 DEF Precedes
<1>17. \A k \in DOMAIN met : met[k] \in NodesOf(r)
    <2> TAKE k \in DOMAIN met
    <2>1. order[k] \in 1 .. n /\ met[k] = t[order[k]].nodeId
        BY <1>5, <1>8, <1>11, <1>12
    <2>2. PICK i \in 1 .. n : s(i) + 1 = order[k]
        BY <1>1, <2>1
    <2>3. t[order[k]] = r[i]
        BY <1>1, <2>2
    <2>4. QED
        BY <1>1, <2>1, <2>3 DEF NodesOf
<1>18. QED
    BY <1>14, <1>15, <1>16, <1>17 DEF n

\* Tokens that are put between or taken away leave the order of the others.
LEMMA SpreadKeepsOrder ==
    ASSUME NEW a, IsRing(a), NEW b, IsRing(b), NEW n, NEW g, Spread(a, b, n, g),
           NEW hash \in Nat, NEW x \in NodesOf(a), NEW y \in NodesOf(a)
    PROVE  /\ x \in NodesOf(b) /\ y \in NodesOf(b)
           /\ MetBefore(a, hash, x, y) <=> MetBefore(b, hash, x, y)
<1>1. /\ g \in [DOMAIN a -> DOMAIN b]
      /\ \A i, j \in DOMAIN a : i < j => g[i] < g[j]
      /\ \A i \in DOMAIN a : b[g[i]] = a[i]
      /\ \A j \in DOMAIN b : b[j].nodeId # n => \E i \in DOMAIN a : g[i] = j
      /\ x # n /\ y # n
    BY DEF Spread
<1>2. DOMAIN a \subseteq Nat /\ DOMAIN b \subseteq Nat
    BY LenProperties DEF IsRing
<1>3. ASSUME NEW z \in NodesOf(a), z # n
      PROVE  /\ z \in NodesOf(b)
             /\ \A i \in TokensOf(a, z) : i \in DOMAIN a /\ g[i] \in TokensOf(b, z)
             /\ \A j \in TokensOf(b, z) : \E i \in TokensOf(a, z) : g[i] = j
    <2>1. \A i \in TokensOf(a, z) : i \in DOMAIN a /\ g[i] \in TokensOf(b, z)
        BY <1>1 DEF TokensOf
    <2>2. \A j \in TokensOf(b, z) : \E i \in TokensOf(a, z) : g[i] = j
        BY <1>1, <1>3 DEF TokensOf
    <2>3. z \in NodesOf(b)
        BY <1>1 DEF NodesOf
    <2>4. QED
        BY <2>1, <2>2, <2>3
<1>4. \A i, j \in DOMAIN a : Ahead(a, hash, i, j) <=> Ahead(b, hash, g[i], g[j])
    <2> TAKE i, j \in DOMAIN a
    <2>1. i < j <=> g[i] < g[j]
        <3>1. g[i] \in Nat /\ g[j] \in Nat /\ i \in Nat /\ j \in Nat
            BY <1>1, <1>2
        <3>2. j < i => g[j] < g[i]
            BY <1>1
        <3>3. i = j \/ i < j \/ j < i
            BY <3>1
        <3>4. QED
            BY <1>1, <3>1, <3>2, <3>3
    <2>2. b[g[i]] = a[i] /\ b[g[j]] = a[j]
        BY <1>1
    <2>3. QED
        BY <2>1, <2>2 DEF Ahead
<1>5. x \in NodesOf(b) /\ y \in NodesOf(b)
    BY <1>1, <1>3
<1>6. (\E i \in TokensOf(a, x) : \A j \in TokensOf(a, y) : Ahead(a, hash, i, j))
      <=> (\E i \in TokensOf(b, x) : \A j \in TokensOf(b, y) : Ahead(b, hash, i, j))
    <2>1. /\ \A i \in TokensOf(a, x) : i \in DOMAIN a /\ g[i] \in TokensOf(b, x)
          /\ \A j \in TokensOf(b, x) : \E i \in TokensOf(a, x) : g[i] = j
          /\ \A i \in TokensOf(a, y) : i \in DOMAIN a /\ g[i] \in TokensOf(b, y)
          /\ \A j \in TokensOf(b, y) : \E i \in TokensOf(a, y) : g[i] = j
        BY <1>1, <1>3
    <2>2. ASSUME NEW i \in TokensOf(a, x), \A j \in TokensOf(a, y) : Ahead(a, hash, i, j)
          PROVE  \A j \in TokensOf(b, y) : Ahead(b, hash, g[i], j)
        BY <1>4, <2>1, <2>2
    <2>3. ASSUME NEW k \in TokensOf(b, x), \A j \in TokensOf(b, y) : Ahead(b, hash, k, j)
          PROVE  \E i \in TokensOf(a, x) : \A j \in TokensOf(a, y) : Ahead(a, hash, i, j)
        BY <1>4, <2>1, <2>3
    <2>4. QED
        BY <2>1, <2>2, <2>3
<1>7. QED
    BY <1>5, <1>6 DEF MetBefore
-----------------------------------------------------------------------------
LEMMA AddNodeAdds ==
    ASSUME NEW r, IsRing(r), NEW n \in Host
    PROVE  IsRing(AddNode(r, n)) /\ NodesOf(AddNode(r, n)) = NodesOf(r) \cup {n}
<1> DEFINE b == AddNode(r, n)
<1>1. CASE n \in NodesOf(r)
    <2>1. b = r
        BY <1>1 DEF AddNode
    <2>2. QED
        BY <1>1, <2>1
<1>2. CASE n \notin NodesOf(r)
    <2>1. IsRing(b) /\ n \in NodesOf(b)
        BY <1>2, AddNodeSpreads
    <2>2. PICK g : Spread(r, b, n, g)
        BY <1>2, AddNodeSpreads
    <2> HIDE DEF b
    <2>3. NodesOf(b) = NodesOf(r) \cup {n}
        BY <2>1, <2>2 DEF Spread, NodesOf
    <2>4. QED
        BY <2>1, <2>3 DEF b
<1>3. QED
    BY <1>1, <1>2

LEMMA RemoveNodeRemoves ==
    ASSUME NEW r, IsRing(r), NEW n \in Host
    PROVE  IsRing(RemoveNode(r, n)) /\ NodesOf(RemoveNode(r, n)) = NodesOf(r) \ {n}
<1> DEFINE a == RemoveNode(r, n)
<1>1. CASE n \notin NodesOf(r)
    <2>1. a = r
        BY <1>1 DEF RemoveNode
    <2>2. QED
        BY <1>1, <2>1
<1>2. CASE n \in NodesOf(r)
    <2>1. IsRing(a)
        BY <1>2, RemoveNodeSpreads
    <2>2. PICK g : Spread(a, r, n, g)
        BY <1>2, RemoveNodeSpreads
    <2> HIDE DEF a
    <2>3. NodesOf(a) = NodesOf(r) \ {n}
        BY <2>1, <2>2 DEF Spread, NodesOf
    <2>4. QED
        BY <2>1, <2>3 DEF a
<1>3. QED
    BY <1>1, <1>2
-----------------------------------------------------------------------------
Status == {"ALIVE", "SUSPECT", "DEAD"}
ProbeType == [target : Host \cup {NoHost}, among : SUBSET Host,
              waits : {"none", "direct", "indirect"}, answered : BOOLEAN]

\* The table and the ring: the timers are those of suspects, and the ring is one.
TableInv ==
    /\ members \in Seq(Other)
    /\ status \in [Other -> Status]
    /\ incarnation \in [Other -> Nat]
    /\ timer \in [Other -> BOOLEAN]
    /\ \A m \in Other : timer[m] => Known(m) /\ status[m] = "SUSPECT"
    /\ IsRing(ring)
    /\ RingHoldsTheLiving

\* A probe that waits has a member as its target.
ProbeInv ==
    /\ probe \in [Probe -> ProbeType]
    /\ \A p \in Probe : probe[p].waits # "none" => Known(probe[p].target)

SwimInv ==
    /\ TableInv /\ ProbeInv
    /\ localIncarnation \in Nat /\ isRunning \in BOOLEAN /\ probeIndex \in Nat

LEMMA InvImpliesTypes == SwimInv => SwimTypeOK /\ RingHoldsTheLiving
<1> SUFFICES ASSUME SwimInv PROVE SwimTypeOK /\ RingHoldsTheLiving
    OBVIOUS
<1>1. members \in Seq(Other)
    BY DEF SwimInv, TableInv
<1>2. Range(members) \subseteq Other
    BY <1>1, LenProperties, ElementOfSeq DEF Range
<1>3. QED
    BY Zenon, <1>2 DEF SwimInv, TableInv, ProbeInv, SwimTypeOK, Status

LEMMA KnownIsMember ==
    ASSUME members \in Seq(Other), NEW m, Known(m)
    PROVE  m \in Other
BY ElementOfSeq, LenProperties DEF Known, Contains

LEMMA StillKnown ==
    ASSUME members' = members
    PROVE  \A m : Known(m)' <=> Known(m)
BY DEF Known

\* Each of the three marks keeps the table.
LEMMA MarkAliveKeeps ==
    ASSUME TableInv, NEW m \in Other, Known(m), NEW inc \in Nat, MarkAlive(m, inc), members' = members
    PROVE  TableInv'
<1>1. \A k : Known(k)' <=> Known(k)
    BY StillKnown
<1>2. m \in Host /\ m # Self /\ Self \in Host
    BY SelfAssumption DEF Other
<1>3. timer' = [timer EXCEPT ![m] = FALSE]
    BY DEF MarkAlive
<1>4. CASE status[m] # "ALIVE" \/ inc > incarnation[m]
    <2>1. /\ status' = [status EXCEPT ![m] = "ALIVE"]
          /\ incarnation' = [incarnation EXCEPT ![m] = IF inc > @ THEN inc ELSE @]
          /\ ring' = AddNode(ring, m)
        BY <1>4 DEF MarkAlive
    <2>2. IsRing(ring') /\ NodesOf(ring') = NodesOf(ring) \cup {m}
        BY <1>2, <2>1, AddNodeAdds DEF TableInv
    <2>3. /\ members' \in Seq(Other) /\ status' \in [Other -> Status]
          /\ incarnation' \in [Other -> Nat]
        BY <2>1 DEF TableInv, Status
    <2>4. timer' \in [Other -> BOOLEAN]
          /\ \A k \in Other : timer'[k] => k # m /\ timer[k]
        BY Zenon, <1>3 DEF TableInv
    <2>5. \A k \in Other : timer'[k] => Known(k)' /\ status'[k] = "SUSPECT"
        BY <1>1, <2>1, <2>4 DEF TableInv
    <2>6. RingHoldsTheLiving'
        BY <1>1, <2>1, <2>2 DEF TableInv, RingHoldsTheLiving
    <2>7. QED
        BY <2>2, <2>3, <2>4, <2>5, <2>6 DEF TableInv
<1>5. CASE ~(status[m] # "ALIVE" \/ inc > incarnation[m])
    <2>1. UNCHANGED <<status, incarnation, ring>>
        BY <1>5 DEF MarkAlive
    <2>2. timer' \in [Other -> BOOLEAN]
          /\ \A k \in Other : timer'[k] => k # m /\ timer[k]
        BY Zenon, <1>3 DEF TableInv
    <2>3. \A k \in Other : timer'[k] => Known(k)' /\ status'[k] = "SUSPECT"
        BY <1>1, <2>1, <2>2 DEF TableInv
    <2>4. RingHoldsTheLiving'
        BY <1>1, <2>1 DEF TableInv, RingHoldsTheLiving
    <2>5. QED
        BY <2>1, <2>2, <2>3, <2>4 DEF TableInv
<1>6. QED
    BY <1>4, <1>5

LEMMA MarkSuspectKeeps ==
    ASSUME TableInv, NEW m \in Other, Known(m), NEW inc \in Nat, MarkSuspect(m, inc), members' = members
    PROVE  TableInv'
<1>1. \A k : Known(k)' <=> Known(k)
    BY StillKnown
<1>2. UNCHANGED <<incarnation, ring>>
    BY DEF MarkSuspect
<1>3. CASE status[m] = "ALIVE" /\ inc >= incarnation[m]
    <2>1. /\ status' = [status EXCEPT ![m] = "SUSPECT"]
          /\ timer' = [timer EXCEPT ![m] = TRUE]
        BY <1>3 DEF MarkSuspect
    <2>2. /\ status' \in [Other -> Status] /\ status'[m] = "SUSPECT"
          /\ \A k \in Other : k # m => status'[k] = status[k]
        BY <2>1 DEF TableInv, Status
    <2>3. timer' \in [Other -> BOOLEAN]
          /\ \A k \in Other : timer'[k] => k = m \/ timer[k]
        BY Zenon, <2>1 DEF TableInv
    <2>4. \A k \in Other : timer'[k] => Known(k)' /\ status'[k] = "SUSPECT"
        BY <1>1, <2>2, <2>3 DEF TableInv
    <2>5. RingHoldsTheLiving'
        BY <1>1, <1>2, <2>2 DEF TableInv, RingHoldsTheLiving
    <2>6. QED
        BY <1>2, <2>2, <2>3, <2>4, <2>5 DEF TableInv
<1>4. CASE ~(status[m] = "ALIVE" /\ inc >= incarnation[m])
    <2>1. UNCHANGED <<status, timer>>
        BY <1>4 DEF MarkSuspect
    <2>2. RingHoldsTheLiving' /\ \A k \in Other : timer'[k] => Known(k)' /\ status'[k] = "SUSPECT"
        BY <1>1, <1>2, <2>1 DEF TableInv, RingHoldsTheLiving
    <2>3. QED
        BY <1>2, <2>1, <2>2 DEF TableInv
<1>5. QED
    BY <1>3, <1>4

LEMMA MarkDeadKeeps ==
    ASSUME TableInv, NEW m \in Other, Known(m), MarkDead(m), members' = members
    PROVE  TableInv'
<1>1. \A k : Known(k)' <=> Known(k)
    BY StillKnown
<1>2. m \in Host /\ m # Self /\ Self \in Host
    BY SelfAssumption DEF Other
<1>3. timer' = [timer EXCEPT ![m] = FALSE] /\ incarnation' = incarnation
    BY DEF MarkDead
<1>4. timer' \in [Other -> BOOLEAN] /\ \A k \in Other : timer'[k] => k # m /\ timer[k]
    BY Zenon, <1>3 DEF TableInv
<1>5. CASE status[m] # "DEAD"
    <2>1. status' = [status EXCEPT ![m] = "DEAD"] /\ ring' = RemoveNode(ring, m)
        BY <1>5 DEF MarkDead
    <2>2. IsRing(ring') /\ NodesOf(ring') = NodesOf(ring) \ {m}
        BY <1>2, <2>1, RemoveNodeRemoves DEF TableInv
    <2>3. /\ status' \in [Other -> Status] /\ status'[m] = "DEAD"
          /\ \A k \in Other : k # m => status'[k] = status[k]
        BY <2>1 DEF TableInv, Status
    <2>4. \A k \in Other : timer'[k] => Known(k)' /\ status'[k] = "SUSPECT"
        BY <1>1, <1>4, <2>3 DEF TableInv
    <2>5. RingHoldsTheLiving'
        BY <1>1, <1>2, <2>2, <2>3 DEF TableInv, RingHoldsTheLiving
    <2>6. QED
        BY <1>3, <1>4, <2>2, <2>3, <2>4, <2>5 DEF TableInv
<1>6. CASE status[m] = "DEAD"
    <2>1. UNCHANGED <<status, ring>>
        BY <1>6 DEF MarkDead
    <2>2. RingHoldsTheLiving' /\ \A k \in Other : timer'[k] => Known(k)' /\ status'[k] = "SUSPECT"
        BY <1>1, <1>4, <2>1 DEF TableInv, RingHoldsTheLiving
    <2>3. QED
        BY <1>3, <1>4, <2>1, <2>2 DEF TableInv
<1>7. QED
    BY <1>5, <1>6

\* So does a member that is new.
LEMMA InsertKeeps ==
    ASSUME TableInv, NEW m \in Other, ~Known(m), NEW st \in {"ALIVE", "SUSPECT"}, NEW inc \in Nat,
           Insert(m, st, inc)
    PROVE  TableInv' /\ \A k : Known(k) => Known(k)'
<1>1. m \in Host /\ m # Self /\ Self \in Host
    BY SelfAssumption DEF Other
<1>2. /\ members' = Append(members, m)
      /\ status' = [status EXCEPT ![m] = st]
      /\ incarnation' = [incarnation EXCEPT ![m] = inc]
      /\ ring' = IF st = "ALIVE" THEN AddNode(ring, m) ELSE ring
      /\ timer' = timer
    BY DEF Insert
<1>3. members' \in Seq(Other) /\ \A k : Known(k)' <=> Known(k) \/ k = m
    <2>1. members \in Seq(Other) /\ Len(members) \in Nat
        BY LenProperties DEF TableInv
    <2>2. /\ members' \in Seq(Other) /\ Len(members') = Len(members) + 1
          /\ \A i \in 1 .. Len(members) + 1 :
                members'[i] = IF i <= Len(members) THEN members[i] ELSE m
        BY <1>2, <2>1, AppendProperties
    <2>3. ASSUME NEW k PROVE Known(k)' <=> Known(k) \/ k = m
        <3>1. Known(k)' <=> \E i \in 1 .. Len(members) + 1 : members'[i] = k
            BY <2>2 DEF Known, Contains
        <3>2. Known(k) <=> \E i \in 1 .. Len(members) : members[i] = k
            BY DEF Known, Contains
        <3>3. QED
            BY <2>1, <2>2, <3>1, <3>2
    <2>4. QED
        BY <2>2, <2>3
<1>4. /\ IsRing(ring')
      /\ NodesOf(ring') = IF st = "ALIVE" THEN NodesOf(ring) \cup {m} ELSE NodesOf(ring)
    BY <1>1, <1>2, AddNodeAdds DEF TableInv
<1>5. /\ status' \in [Other -> Status] /\ status'[m] = st
      /\ \A k \in Other : k # m => status'[k] = status[k]
      /\ incarnation' \in [Other -> Nat]
    BY <1>2 DEF TableInv, Status
<1>6. \A k \in Other : timer'[k] => Known(k)' /\ status'[k] = "SUSPECT"
    BY <1>2, <1>3, <1>5 DEF TableInv
<1>7. RingHoldsTheLiving'
    BY <1>1, <1>3, <1>4, <1>5 DEF TableInv, RingHoldsTheLiving
<1>8. QED
    BY <1>2, <1>3, <1>4, <1>5, <1>6, <1>7 DEF TableInv
\* A probe is over or not, of the same members.
LEMMA ProbeEnds ==
    ASSUME ProbeInv, NEW p \in Probe, probe' = [probe EXCEPT ![p] = NoProbe], members' = members
    PROVE  ProbeInv'
<1>1. NoProbe \in ProbeType /\ NoProbe.waits = "none"
    BY DEF NoProbe, ProbeType
<1>2. \A k : Known(k)' <=> Known(k)
    BY StillKnown
<1> HIDE DEF NoProbe
<1>3. probe' \in [Probe -> ProbeType] /\ probe'[p] = NoProbe
      /\ \A q \in Probe : q # p => probe'[q] = probe[q]
    BY Zenon, <1>1 DEF ProbeInv
<1>4. QED
    BY <1>1, <1>2, <1>3 DEF ProbeInv

LEMMA ProbesStay ==
    ASSUME ProbeInv, probe' = probe, \A k : Known(k) => Known(k)'
    PROVE  ProbeInv'
BY DEF ProbeInv

LEMMA TargetIsMember ==
    ASSUME TableInv, ProbeInv, NEW p \in Probe, probe[p].waits # "none"
    PROVE  /\ Known(probe[p].target) /\ probe[p].target \in Other
           /\ incarnation[probe[p].target] \in Nat
<1>1. Known(probe[p].target)
    BY DEF ProbeInv
<1>2. probe[p].target \in Other
    BY <1>1, KnownIsMember DEF TableInv
<1>3. QED
    BY <1>1, <1>2 DEF TableInv

LEMMA EntriesAreSome ==
    ASSUME NEW T, NEW list \in Seq(T), NEW S \in SUBSET DOMAIN list, S # {}
    PROVE  /\ Cardinality(S) \in Nat \ {0}
           /\ \A k \in 1 .. Cardinality(S) : \E i \in S : EntriesAt(list, S, Upwards(S))[k] = list[i]
<1> DEFINE order == Listed(S, Upwards(S))
<1>1. S \in SUBSET Nat
    BY LenProperties
<1>2. StrictOrder(Upwards(S), S)
    BY <1>1, UpwardsIsOrder
<1>3. IsFiniteSet(S)
    BY <1>2, EntriesAreThose
<1>4. Cardinality(S) \in Nat \ {0}
    BY <1>3, FS_CardinalityType, FS_EmptySet
<1>5. EntriesAt(list, S, Upwards(S)) = [k \in DOMAIN order |-> list[order[k]]]
    BY Zenon DEF EntriesAt
<1>6. DOMAIN order = 1 .. Cardinality(S)
    BY Zenon DEF Listed
<1>7. order \in Seq(S)
    BY <1>2, <1>3, ListedIsInOrder
<1> HIDE DEF order
<1>8. \A k \in DOMAIN order : order[k] \in S
    BY <1>7, ElementOfSeq
<1>9. QED
    BY <1>4, <1>5, <1>6, <1>8

LEMMA ProbeNextMemberKeeps ==
    ASSUME SwimInv, NEW p \in Probe, ProbeNextMember(p)
    PROVE  SwimInv'
<1> DEFINE living == {i \in DOMAIN members : status[members[i]] # "DEAD"}
           candidates == EntriesAt(members, living, Upwards(living))
           n == Cardinality(living)
           next == (probeIndex + 1) % n
           target == CandidateAt(candidates, next)
           new == [target |-> target, among |-> {members[i] : i \in living},
                   waits |-> "direct", answered |-> FALSE]
<1>1. /\ living # {} /\ probeIndex' = next
      /\ probe' = [probe EXCEPT ![p] = new]
      /\ UNCHANGED <<memberTable, isRunning, ring, up, events>>
    BY Zenon DEF ProbeNextMember
<1>2. target = candidates[next + 1]
    BY DEF CandidateAt
<1> HIDE DEF target, next
<1>3. /\ members \in Seq(Other) /\ Len(members) \in Nat /\ DOMAIN members = 1 .. Len(members)
      /\ \A i \in DOMAIN members : members[i] \in Other
    BY LenProperties, ElementOfSeq DEF SwimInv, TableInv
<1>4. living \in SUBSET Nat /\ living \in SUBSET DOMAIN members
    BY <1>3
<1> HIDE DEF living
<1>5. /\ Cardinality(living) \in Nat \ {0}
      /\ \A k \in 1 .. Cardinality(living) : \E i \in living :
            EntriesAt(members, living, Upwards(living))[k] = members[i]
    <2> HIDE DEF candidates, n
    <2>1. members \in Seq(Other) /\ living \in SUBSET DOMAIN members /\ living # {}
        BY <1>1, <1>3, <1>4
    <2>2. QED
        BY <2>1, EntriesAreSome
<1>6. n \in Nat /\ n # 0 /\ \A k \in 1 .. n : \E i \in living : candidates[k] = members[i]
    BY <1>5
<1> HIDE DEF candidates
<1> HIDE DEF n
<1>7. next \in Nat /\ next + 1 \in 1 .. n
    <2>1. probeIndex + 1 \in Nat
        BY DEF SwimInv
    <2>2. next \in 0 .. n - 1
        BY <1>6, <2>1 DEF next
    <2>3. QED
        BY <1>6, <2>2
<1>8. \E i \in living : target = members[i]
    BY <1>2, <1>6, <1>7
<1>9. target \in Other /\ Known(target)
    BY <1>3, <1>4, <1>8 DEF Known, Contains
<1>10. new \in ProbeType
    <2>1. {members[i] : i \in living} \in SUBSET Host /\ target \in Host
        BY <1>3, <1>4, <1>9 DEF Other
    <2>2. QED
        BY <2>1 DEF ProbeType
<1>11. new.target = target
    OBVIOUS
<1> HIDE DEF new
<1>12. TableInv' /\ \A k : Known(k)' <=> Known(k)
    BY Zenon, <1>1 DEF memberTable, SwimInv, TableInv, RingHoldsTheLiving, Known
<1>13. probe' \in [Probe -> ProbeType] /\ probe'[p] = new
       /\ \A q \in Probe : q # p => probe'[q] = probe[q]
    BY Zenon, <1>1, <1>10 DEF SwimInv, ProbeInv
<1>14. ProbeInv'
    BY <1>9, <1>11, <1>12, <1>13 DEF SwimInv, ProbeInv
<1>15. QED
    BY <1>1, <1>7, <1>12, <1>14 DEF SwimInv, memberTable

LEMMA PingFailsKeeps ==
    ASSUME SwimInv, NEW p \in Probe, PingFails(p)
    PROVE  SwimInv'
<1> DEFINE m == probe[p].target
           helpers == {h \in probe[p].among \ {m} : status[h] = "ALIVE"}
<1>1. /\ probe[p].waits = "direct"
      /\ UNCHANGED <<members, localIncarnation, isRunning, probeIndex, up, events>>
    BY DEF PingFails
<1>2. m \in Other /\ Known(m) /\ incarnation[m] \in Nat
    BY <1>1, TargetIsMember DEF SwimInv
<1>3. CASE helpers = {}
    <2>1. MarkSuspect(m, incarnation[m]) /\ probe' = [probe EXCEPT ![p] = NoProbe]
        BY <1>3 DEF PingFails
    <2>2. TableInv'
        BY <1>1, <1>2, <2>1, MarkSuspectKeeps DEF SwimInv
    <2>3. ProbeInv'
        BY <1>1, <2>1, ProbeEnds DEF SwimInv
    <2>4. QED
        BY <1>1, <2>2, <2>3 DEF SwimInv
<1>4. CASE helpers # {}
    <2> DEFINE new == [probe[p] EXCEPT !.waits = "indirect", !.answered = FALSE]
    <2>1. /\ probe' = [probe EXCEPT ![p] = new]
          /\ UNCHANGED <<status, incarnation, timer, ring>>
        BY <1>4 DEF PingFails
    <2>2. probe[p] \in ProbeType
        BY DEF SwimInv, ProbeInv
    <2>3. new \in ProbeType /\ new.target = m
        BY <2>2 DEF ProbeType
    <2> HIDE DEF new, m
    <2>4. probe' \in [Probe -> ProbeType] /\ probe'[p] = new
          /\ \A q \in Probe : q # p => probe'[q] = probe[q]
        BY Zenon, <2>1, <2>3 DEF SwimInv, ProbeInv
    <2>5. TableInv' /\ \A k : Known(k)' <=> Known(k)
        BY Zenon, <1>1, <2>1 DEF SwimInv, TableInv, RingHoldsTheLiving, Known
    <2>6. ProbeInv'
        BY <1>2, <2>3, <2>4, <2>5 DEF SwimInv, ProbeInv
    <2>7. QED
        BY <1>1, <2>5, <2>6 DEF SwimInv
<1>5. QED
    BY <1>3, <1>4

LEMMA HelpersReportKeeps ==
    ASSUME SwimInv, NEW p \in Probe, NEW acked \in BOOLEAN, HelpersReport(p, acked)
    PROVE  SwimInv'
<1> DEFINE m == probe[p].target
<1>1. /\ probe[p].waits = "indirect"
      /\ MarkAlive(m, incarnation[m]) \/ MarkSuspect(m, incarnation[m])
      /\ probe' = [probe EXCEPT ![p] = NoProbe]
      /\ UNCHANGED <<members, localIncarnation, isRunning, probeIndex, up, events>>
    BY DEF HelpersReport
<1>2. m \in Other /\ Known(m) /\ incarnation[m] \in Nat
    BY <1>1, TargetIsMember DEF SwimInv
<1> HIDE DEF m
<1>3. TableInv'
    BY <1>1, <1>2, MarkAliveKeeps, MarkSuspectKeeps DEF SwimInv
<1>4. ProbeInv'
    BY <1>1, ProbeEnds DEF SwimInv
<1>5. QED
    BY <1>1, <1>3, <1>4 DEF SwimInv

LEMMA AckArrivesKeeps ==
    ASSUME SwimInv, NEW p \in Probe, AckArrives(p)
    PROVE  SwimInv'
<1> DEFINE m == probe[p].target
<1>1. /\ probe[p].waits = "direct" /\ MarkAlive(m, incarnation[m])
      /\ probe' = [probe EXCEPT ![p] = NoProbe]
      /\ UNCHANGED <<members, localIncarnation, isRunning, probeIndex, up, events>>
    BY DEF AckArrives
<1>2. m \in Other /\ Known(m) /\ incarnation[m] \in Nat
    BY <1>1, TargetIsMember DEF SwimInv
<1> HIDE DEF m
<1>3. TableInv'
    BY <1>1, <1>2, MarkAliveKeeps DEF SwimInv
<1>4. ProbeInv'
    BY <1>1, ProbeEnds DEF SwimInv
<1>5. QED
    BY <1>1, <1>3, <1>4 DEF SwimInv

LEMMA AnswerKeeps ==
    ASSUME SwimInv, NEW p \in Probe, Answer(p)
    PROVE  SwimInv'
<1> DEFINE new == [probe[p] EXCEPT !.answered = TRUE]
<1>1. /\ probe' = [probe EXCEPT ![p] = new]
      /\ UNCHANGED <<memberTable, isRunning, probeIndex, ring, up, events>>
    BY DEF Answer
<1>2. probe[p] \in ProbeType
    BY DEF SwimInv, ProbeInv
<1>3. new \in ProbeType /\ new.target = probe[p].target /\ new.waits = probe[p].waits
    BY <1>2 DEF ProbeType
<1> HIDE DEF new
<1>4. probe' \in [Probe -> ProbeType] /\ probe'[p] = new
      /\ \A q \in Probe : q # p => probe'[q] = probe[q]
    BY Zenon, <1>1, <1>3 DEF SwimInv, ProbeInv
<1>5. TableInv' /\ \A k : Known(k)' <=> Known(k)
    BY Zenon, <1>1 DEF memberTable, SwimInv, TableInv, RingHoldsTheLiving, Known
<1>6. ProbeInv'
    BY <1>3, <1>4, <1>5 DEF SwimInv, ProbeInv
<1>7. QED
    BY <1>1, <1>5, <1>6 DEF SwimInv, memberTable
LEMMA SuspicionEndsKeeps ==
    ASSUME SwimInv, NEW m \in Other, SuspicionEnds(m)
    PROVE  SwimInv'
<1>1. /\ timer[m]
      /\ UNCHANGED <<members, localIncarnation, isRunning, probeIndex, probe, up, events>>
    BY DEF SuspicionEnds
<1>2. Known(m) /\ status[m] = "SUSPECT"
    BY <1>1 DEF SwimInv, TableInv
<1>3. MarkDead(m)
    BY <1>2 DEF SuspicionEnds
<1>4. TableInv'
    BY <1>1, <1>2, <1>3, MarkDeadKeeps DEF SwimInv
<1>5. ProbeInv'
    BY <1>1, StillKnown, ProbesStay DEF SwimInv
<1>6. QED
    BY <1>1, <1>4, <1>5 DEF SwimInv

LEMMA StopKeeps ==
    ASSUME SwimInv, Stop
    PROVE  SwimInv'
<1>1. /\ isRunning' = FALSE /\ timer' = [m \in Other |-> FALSE]
      /\ UNCHANGED <<members, status, incarnation, localIncarnation, probeIndex, probe, ring, up>>
    BY DEF Stop
<1>2. \A k : Known(k)' <=> Known(k)
    BY <1>1, StillKnown
<1>3. timer' \in [Other -> BOOLEAN] /\ \A m \in Other : ~timer'[m]
    BY Zenon, <1>1
<1>4. TableInv'
    BY <1>1, <1>2, <1>3 DEF SwimInv, TableInv, RingHoldsTheLiving
<1>5. ProbeInv'
    BY <1>1, <1>2, ProbesStay DEF SwimInv
<1>6. QED
    BY Zenon, <1>1, <1>4, <1>5 DEF SwimInv

LEMMA JoinsKeep ==
    ASSUME SwimInv, NEW m \in Other, ~Known(m), NEW st \in {"ALIVE", "SUSPECT"}, NEW inc \in Nat,
           Insert(m, st, inc), UNCHANGED <<localIncarnation, isRunning, probeIndex, probe>>
    PROVE  SwimInv'
<1>1. TableInv' /\ \A k : Known(k) => Known(k)'
    BY InsertKeeps DEF SwimInv
<1>2. ProbeInv'
    BY <1>1, ProbesStay DEF SwimInv
<1>3. QED
    BY <1>1, <1>2 DEF SwimInv

LEMMA GossipOfMemberKeeps ==
    ASSUME SwimInv, NEW m \in Other, NEW st \in Status, NEW inc \in Nat, GossipOfMember(m, st, inc)
    PROVE  SwimInv'
<1>1. /\ Known(m)
      /\ MarkAlive(m, inc) \/ MarkSuspect(m, inc) \/ MarkDead(m)
      /\ UNCHANGED <<members, localIncarnation, isRunning, probeIndex, probe, up>>
    <2>1. CASE st = "ALIVE"
        BY <2>1 DEF GossipOfMember
    <2>2. CASE st = "SUSPECT"
        BY <2>2 DEF GossipOfMember
    <2>3. CASE st = "DEAD"
        BY <2>3 DEF GossipOfMember
    <2>4. QED
        BY <2>1, <2>2, <2>3 DEF Status
<1>2. TableInv'
    BY <1>1, MarkAliveKeeps, MarkSuspectKeeps, MarkDeadKeeps DEF SwimInv
<1>3. ProbeInv'
    BY <1>1, StillKnown, ProbesStay DEF SwimInv
<1>4. QED
    BY <1>1, <1>2, <1>3 DEF SwimInv

LEMMA GossipOfSelfKeeps ==
    ASSUME SwimInv, NEW st, NEW inc \in Nat, GossipOfSelf(st, inc)
    PROVE  SwimInv'
<1>1. /\ localIncarnation' = inc + 1
      /\ ring' = AddNode(ring, Self)
      /\ UNCHANGED <<members, status, incarnation, timer, isRunning, probeIndex, probe, up>>
    BY DEF GossipOfSelf
<1>2. IsRing(ring) /\ Self \in Host /\ Self \notin Other
    BY SelfAssumption DEF SwimInv, TableInv, Other
<1>3. IsRing(ring') /\ NodesOf(ring') = NodesOf(ring) \cup {Self}
    BY <1>1, <1>2, AddNodeAdds
<1>4. \A k : Known(k)' <=> Known(k)
    BY <1>1, StillKnown
<1>5. TableInv'
    BY <1>1, <1>2, <1>3, <1>4 DEF SwimInv, TableInv, RingHoldsTheLiving
<1>6. ProbeInv'
    BY <1>1, <1>4, ProbesStay DEF SwimInv
<1>7. QED
    BY <1>1, <1>5, <1>6 DEF SwimInv

LEMMA TableStays ==
    ASSUME SwimInv, UNCHANGED <<memberTable, probe, ring, probeIndex>>, isRunning' \in BOOLEAN
    PROVE  SwimInv'
<1>1. TableInv' /\ \A k : Known(k)' <=> Known(k)
    BY Zenon DEF memberTable, SwimInv, TableInv, RingHoldsTheLiving, Known
<1>2. ProbeInv'
    BY <1>1, ProbesStay DEF SwimInv
<1>3. QED
    BY Zenon, <1>1, <1>2 DEF SwimInv, memberTable

LEMMA SwimStarts == SwimInit => SwimInv
<1> SUFFICES ASSUME SwimInit PROVE SwimInv
    OBVIOUS
<1>1. Self \in Host /\ Self \notin Other
    BY SelfAssumption DEF Other
<1>2. \A m : ~Known(m)
    BY DEF SwimInit, Known, Contains
<1>3. IsRing(<<>>) /\ NodesOf(<<>>) = {}
    BY DEF IsRing, SortedByHash, NodesOf
<1>4. IsRing(ring) /\ NodesOf(ring) = {Self}
    BY <1>1, <1>3, AddNodeAdds DEF SwimInit
<1>5. timer \in [Other -> BOOLEAN] /\ \A m \in Other : ~timer[m]
    BY Zenon DEF SwimInit
<1>6. TableInv
    BY <1>1, <1>2, <1>4, <1>5 DEF TableInv, SwimInit, Status, RingHoldsTheLiving
<1>7. ProbeInv
    <2>1. NoProbe \in ProbeType /\ NoProbe.waits = "none"
        BY DEF NoProbe, ProbeType
    <2> HIDE DEF NoProbe
    <2>2. QED
        BY <2>1 DEF SwimInit, ProbeInv
<1>8. QED
    BY Zenon, <1>6, <1>7 DEF SwimInit, SwimInv

LEMMA SwimSteps ==
    ASSUME SwimInv, [SwimNext]_swimVars
    PROVE  SwimInv'
<1>1. CASE UNCHANGED swimVars
    BY <1>1, TableStays DEF swimVars, SwimInv
<1>2. ASSUME Start PROVE SwimInv'
    BY <1>2, TableStays DEF Start
<1>3. ASSUME Stop PROVE SwimInv'
    BY <1>3, StopKeeps
<1>4. ASSUME NEW p \in Probe,
             \/ ProbeNextMember(p) \/ Answer(p) \/ AckArrives(p) \/ PingFails(p)
             \/ \E acked \in BOOLEAN : HelpersReport(p, acked)
      PROVE  SwimInv'
    BY <1>4, ProbeNextMemberKeeps, AnswerKeeps, AckArrivesKeeps, PingFailsKeeps, HelpersReportKeeps
<1>5. ASSUME NEW m \in Other, AddMember(m) PROVE SwimInv'
    BY <1>5, JoinsKeep DEF AddMember
<1>6. ASSUME NEW m \in Other, SuspicionEnds(m) PROVE SwimInv'
    BY <1>6, SuspicionEndsKeeps
<1>7. ASSUME NEW m \in Other, Fault(m) PROVE SwimInv'
    BY <1>7, TableStays DEF Fault, SwimInv
<1>8. ASSUME NEW m \in Other, NEW st \in Status, NEW inc \in Nat, GossipOfNew(m, st, inc)
      PROVE  SwimInv'
    <2>1. st \in {"ALIVE", "SUSPECT"}
        BY <1>8 DEF GossipOfNew, Status
    <2>2. QED
        BY <1>8, <2>1, JoinsKeep DEF GossipOfNew
<1>9. ASSUME NEW m \in Other, NEW st \in Status, NEW inc \in Nat, GossipOfMember(m, st, inc)
      PROVE  SwimInv'
    BY <1>9, GossipOfMemberKeeps
<1>10. ASSUME NEW st, NEW inc \in Nat, GossipOfSelf(st, inc) PROVE SwimInv'
    BY <1>10, GossipOfSelfKeeps
<1>11. 0 .. MaxIncarnation \subseteq Nat
    OBVIOUS
<1>12. QED
    BY <1>1, <1>2, <1>3, <1>4, <1>5, <1>6, <1>7, <1>8, <1>9, <1>10, <1>11 DEF SwimNext, Status
-----------------------------------------------------------------------------
\* What is listed before something else stays so when a node joins or leaves, for any key.
StaysBefore(r1, r2, hash) ==
    \A i, j \in DOMAIN PreferenceList(r1, hash, Len(r1)) :
        i < j /\ {PreferenceList(r1, hash, Len(r1))[i], PreferenceList(r1, hash, Len(r1))[j]}
                    \subseteq NodesOf(r2)
            => Precedes(PreferenceList(r2, hash, Len(r2)),
                        PreferenceList(r1, hash, Len(r1))[i], PreferenceList(r1, hash, Len(r1))[j])

LEMMA SameOrderStays ==
    ASSUME NEW r1, IsRing(r1), NEW r2, IsRing(r2), NEW hash \in Nat,
           \A x, y \in NodesOf(r1) \cap NodesOf(r2) : MetBefore(r1, hash, x, y) => MetBefore(r2, hash, x, y)
    PROVE  StaysBefore(r1, r2, hash)
<1> DEFINE l1 == PreferenceList(r1, hash, Len(r1))
           l2 == PreferenceList(r2, hash, Len(r2))
<1>1. /\ \A k \in DOMAIN l1 : l1[k] \in NodesOf(r1)
      /\ \A x, y \in NodesOf(r1) : Precedes(l1, x, y) <=> MetBefore(r1, hash, x, y)
    BY PreferenceIsTheOrder
<1>2. \A x, y \in NodesOf(r2) : Precedes(l2, x, y) <=> MetBefore(r2, hash, x, y)
    BY PreferenceIsTheOrder
<1> HIDE DEF l1, l2
<1>3. ASSUME NEW i \in DOMAIN l1, NEW j \in DOMAIN l1, i < j, l1[i] \in NodesOf(r2), l1[j] \in NodesOf(r2)
      PROVE  Precedes(l2, l1[i], l1[j])
    <2>1. l1[i] \in NodesOf(r1) /\ l1[j] \in NodesOf(r1)
        BY <1>1
    <2>2. Precedes(l1, l1[i], l1[j])
        BY <1>3 DEF Precedes
    <2>3. QED
        BY <1>1, <1>2, <1>3, <2>1, <2>2
<1>4. QED
    BY <1>3 DEF StaysBefore, l1, l2

LEMMA JoinStaysBefore ==
    ASSUME NEW r, IsRing(r), NEW n \in Host, NEW hash \in Nat
    PROVE  StaysBefore(r, AddNode(r, n), hash)
<1> DEFINE b == AddNode(r, n)
<1>1. IsRing(b)
    BY AddNodeAdds
<1>2. CASE n \in NodesOf(r)
    <2>1. b = r
        BY <1>2 DEF AddNode
    <2>2. QED
        BY <1>1, <2>1, SameOrderStays
<1>3. CASE n \notin NodesOf(r)
    <2>1. PICK g : Spread(r, b, n, g)
        BY <1>3, AddNodeSpreads
    <2> HIDE DEF b
    <2>2. \A x, y \in NodesOf(r) : MetBefore(r, hash, x, y) => MetBefore(b, hash, x, y)
        BY <1>1, <2>1, SpreadKeepsOrder
    <2>3. StaysBefore(r, b, hash)
        BY <1>1, <2>2, SameOrderStays
    <2>4. QED
        BY <2>3 DEF b
<1>4. QED
    BY <1>2, <1>3

LEMMA LeaveStaysBefore ==
    ASSUME NEW r, IsRing(r), NEW n \in Host, NEW hash \in Nat
    PROVE  StaysBefore(r, RemoveNode(r, n), hash)
<1> DEFINE a == RemoveNode(r, n)
<1>1. IsRing(a)
    BY RemoveNodeRemoves
<1>2. CASE n \notin NodesOf(r)
    <2>1. a = r
        BY <1>2 DEF RemoveNode
    <2>2. QED
        BY <1>1, <2>1, SameOrderStays
<1>3. CASE n \in NodesOf(r)
    <2>1. PICK g : Spread(a, r, n, g)
        BY <1>3, RemoveNodeSpreads
    <2> HIDE DEF a
    <2>2. \A x, y \in NodesOf(a) : MetBefore(a, hash, x, y) <=> MetBefore(r, hash, x, y)
        BY <1>1, <2>1, SpreadKeepsOrder
    <2>3. StaysBefore(r, a, hash)
        BY <1>1, <2>2, SameOrderStays
    <2>4. QED
        BY <2>3 DEF a
<1>4. QED
    BY <1>2, <1>3

\* All that a step does to the ring.
LEMMA RingSteps ==
    ASSUME SwimInv, [SwimNext]_swimVars
    PROVE  \/ ring' = ring
           \/ \E m \in Host : ring' = AddNode(ring, m) \/ ring' = RemoveNode(ring, m)
<1> DEFINE Goal == ring' = ring \/ \E m \in Host : ring' = AddNode(ring, m) \/ ring' = RemoveNode(ring, m)
<1>1. Other \subseteq Host /\ Self \in Host
    BY SelfAssumption DEF Other
<1>2. ASSUME NEW m \in Host, NEW inc, MarkAlive(m, inc) \/ MarkSuspect(m, inc) \/ MarkDead(m) PROVE Goal
    BY <1>2 DEF MarkAlive, MarkSuspect, MarkDead
<1>3. ASSUME NEW m \in Host, NEW st, NEW inc, Insert(m, st, inc) PROVE Goal
    BY <1>3 DEF Insert
<1> HIDE DEF Goal
<1>4. ASSUME ring' = ring PROVE Goal
    BY <1>4 DEF Goal
<1>5. ASSUME UNCHANGED swimVars PROVE Goal
    BY <1>4, <1>5 DEF swimVars
<1>6. ASSUME Start \/ Stop \/ \E p \in Probe : ProbeNextMember(p) \/ Answer(p) PROVE Goal
    BY <1>4, <1>6 DEF Start, Stop, ProbeNextMember, Answer
<1>7. ASSUME NEW p \in Probe, probe[p].waits # "none" PROVE probe[p].target \in Host
    BY <1>1, <1>7, TargetIsMember DEF SwimInv
<1>8. ASSUME NEW p \in Probe, AckArrives(p) PROVE Goal
    <2>1. probe[p].waits = "direct" /\ MarkAlive(probe[p].target, incarnation[probe[p].target])
        BY <1>8 DEF AckArrives
    <2>2. QED
        BY <1>2, <1>7, <2>1
<1>9. ASSUME NEW p \in Probe, PingFails(p) PROVE Goal
    <2>1. /\ probe[p].waits = "direct"
          /\ MarkSuspect(probe[p].target, incarnation[probe[p].target]) \/ ring' = ring
        BY <1>9 DEF PingFails
    <2>2. QED
        BY <1>2, <1>4, <1>7, <2>1
<1>10. ASSUME NEW p \in Probe, NEW acked \in BOOLEAN, HelpersReport(p, acked) PROVE Goal
    <2>1. /\ probe[p].waits = "indirect"
          /\ \/ MarkAlive(probe[p].target, incarnation[probe[p].target])
             \/ MarkSuspect(probe[p].target, incarnation[probe[p].target])
        BY <1>10 DEF HelpersReport
    <2>2. QED
        BY <1>2, <1>7, <2>1
<1>11. ASSUME NEW m \in Other, AddMember(m) \/ SuspicionEnds(m) \/ Fault(m) PROVE Goal
    <2>1. Insert(m, "ALIVE", 0) \/ MarkDead(m) \/ ring' = ring
        BY <1>11 DEF AddMember, SuspicionEnds, Fault
    <2>2. QED
        BY <1>1, <1>2, <1>3, <1>4, <2>1
<1>12. ASSUME NEW m \in Other, NEW st \in Status, NEW inc,
              GossipOfNew(m, st, inc) \/ GossipOfMember(m, st, inc)
       PROVE  Goal
    <2>1. CASE GossipOfNew(m, st, inc)
        BY <1>1, <1>3, <2>1 DEF GossipOfNew
    <2>2. CASE GossipOfMember(m, st, inc)
        <3>1. MarkAlive(m, inc) \/ MarkSuspect(m, inc) \/ MarkDead(m)
            <4>1. CASE st = "ALIVE"
                BY <2>2, <4>1 DEF GossipOfMember
            <4>2. CASE st = "SUSPECT"
                BY <2>2, <4>2 DEF GossipOfMember
            <4>3. CASE st = "DEAD"
                BY <2>2, <4>3 DEF GossipOfMember
            <4>4. QED
                BY <4>1, <4>2, <4>3 DEF Status
        <3>2. QED
            BY <1>1, <1>2, <3>1
    <2>3. QED
        BY <1>12, <2>1, <2>2
<1>13. ASSUME NEW st, NEW inc, GossipOfSelf(st, inc) PROVE Goal
    BY <1>1, <1>13 DEF GossipOfSelf, Goal
<1>14. Goal
    <2>1. ASSUME NEW p \in Probe,
                 \/ ProbeNextMember(p) \/ Answer(p) \/ AckArrives(p) \/ PingFails(p)
                 \/ \E acked \in BOOLEAN : HelpersReport(p, acked)
          PROVE  Goal
        BY <1>6, <1>8, <1>9, <1>10, <2>1
    <2>2. ASSUME NEW m \in Other,
                 \/ AddMember(m) \/ SuspicionEnds(m) \/ Fault(m)
                 \/ \E st \in Status, inc \in 0 .. MaxIncarnation :
                        GossipOfNew(m, st, inc) \/ GossipOfMember(m, st, inc)
          PROVE  Goal
        BY <1>11, <1>12, <2>2
    <2>3. ASSUME Start \/ Stop PROVE Goal
        BY <1>6, <2>3
    <2>4. QED
        BY <1>5, <1>13, <2>1, <2>2, <2>3 DEF SwimNext, Status
<1>15. QED
    BY <1>14 DEF Goal

\* Types, and that a suspicion timer never outlives its suspicion, for any hosts and probes.
THEOREM SwimTypes == SwimSpec => []SwimTypeOK
<1>1. SwimInit => SwimInv
    BY SwimStarts
<1>2. SwimInv /\ [SwimNext]_swimVars => SwimInv'
    BY SwimSteps
<1>3. SwimInv => SwimTypeOK
    BY InvImpliesTypes
<1>4. QED
    BY <1>1, <1>2, <1>3, PTL DEF SwimSpec

\* In whatever order probes, timers and gossip come: the members the detector takes for
\* alive are on the ring, those it declared dead are not, and the node itself always is.
THEOREM RingIsOfTheLiving == SwimSpec => []RingHoldsTheLiving
<1>1. SwimInit => SwimInv
    BY SwimStarts
<1>2. SwimInv /\ [SwimNext]_swimVars => SwimInv'
    BY SwimSteps
<1>3. SwimInv => RingHoldsTheLiving
    BY InvImpliesTypes
<1>4. QED
    BY <1>1, <1>2, <1>3, PTL DEF SwimSpec

\* addNode and removeNode leave the order of preference among the nodes that stay, for any
\* tokens, also if some share a hash.
THEOREM MovesStayMinimal == SwimSpec => MovesAreMinimal
<1> DEFINE A == ring' # ring =>
                \A key \in UNION {Range(Tokens[n]) : n \in Host} : StaysBefore(ring, ring', key)
<1>1. SwimInit => SwimInv
    BY SwimStarts
<1>2. SwimInv /\ [SwimNext]_swimVars => SwimInv'
    BY SwimSteps
<1>3. SwimInv /\ [SwimNext]_swimVars => A
    <2> SUFFICES ASSUME SwimInv, [SwimNext]_swimVars, ring' # ring,
                        NEW n \in Host, NEW key \in Range(Tokens[n])
                 PROVE  StaysBefore(ring, ring', key)
        OBVIOUS
    <2>1. key \in Nat
        <3>1. Tokens[n] \in Seq(Nat)
            BY TokensAssumption
        <3>2. QED
            BY <3>1, ElementOfSeq, LenProperties DEF Range
    <2>2. IsRing(ring)
        BY DEF SwimInv, TableInv
    <2>3. PICK m \in Host : ring' = AddNode(ring, m) \/ ring' = RemoveNode(ring, m)
        BY RingSteps
    <2>4. QED
        BY <2>1, <2>2, <2>3, JoinStaysBefore, LeaveStaysBefore
<1>4. A => (ring' # ring => \A key \in UNION {Range(Tokens[n]) : n \in Host} :
            LET before == PreferenceList(ring, key, Len(ring))
                after == PreferenceList(ring', key, Len(ring'))
            IN  \A i, j \in DOMAIN before :
                    i < j /\ {before[i], before[j]} \subseteq NodesOf(ring')
                        => Precedes(after, before[i], before[j]))
    BY DEF StaysBefore
<1> HIDE DEF A
<1>5. QED
    BY <1>1, <1>2, <1>3, <1>4, PTL DEF SwimSpec, MovesAreMinimal

-----------------------------------------------------------------------------
(* The reader of frames.                                                   *)

Cell == {Data, KR, ON} \cup {Rest(n) : n \in Nat} \cup {Crc(p) : p \in Payload}

Frame == [payload : Payload, ends : Nat]

\* A CRC that comes after a payload of the length that a header before it names ends a
\* frame.
CrcEnds(s, frames, k) ==
    \A q \in Payload :
        s[k] = Crc(q) /\ k > Len(q) + 1 /\ s[k - Len(q) - 1] = Rest(Len(q)) /\ Len(q) <= MaxPayload
            => [payload |-> q, ends |-> k] \in frames

\* The cells of a frame are where it is.
Stands(s, f) ==
    /\ StartOf(f) >= 1 /\ f.ends <= Len(s) /\ Len(f.payload) <= MaxPayload
    /\ s[StartOf(f)] = KR /\ s[StartOf(f) + 1] = ON
    /\ s[StartOf(f) + 2] = Rest(Len(f.payload))
    /\ \A i \in 1 .. Len(f.payload) : s[StartOf(f) + 2 + i] = f.payload[i]
    /\ s[f.ends] = Crc(f.payload)

Apart(f, g) == f.ends < StartOf(g) \/ g.ends < StartOf(f)

StreamInv(s, frames) ==
    /\ s \in Seq(Cell) /\ frames \subseteq Frame
    /\ \A k \in 1 .. Len(s) : CrcEnds(s, frames, k)
    /\ \A f \in frames : Stands(s, f)
    /\ \A f, g \in frames : f # g => Apart(f, g)

\* The buffer is a piece of the stream, up to what has arrived.
IsPiece(b) ==
    /\ b \in Seq(Cell) /\ Len(b) <= arrived
    /\ \A i \in 1 .. Len(b) : b[i] = stream[arrived - Len(b) + i]

\* What is before place n has been emitted in order; a frame that begins there is
\* emitted or cut.
EmittedTo(e, c, n) ==
    /\ e \in Seq(Frame)
    /\ \A i \in DOMAIN e : e[i] \in sent /\ e[i].ends <= n
    /\ \A i, j \in DOMAIN e : i < j => e[i].ends < e[j].ends
    /\ \A f \in sent \ c : (\E i \in DOMAIN e : e[i] = f) \/ StartOf(f) > n

FrameInv ==
    /\ StreamInv(stream, sent)
    /\ arrived \in Nat /\ arrived <= Len(stream)
    /\ IsPiece(buffer)
    /\ EmittedTo(emitted, cut, Gone)

-----------------------------------------------------------------------------
\* Cells of different kinds differ.
LEMMA CellsDiffer ==
    /\ Data # KR /\ Data # ON /\ KR # ON
    /\ \A n : Rest(n) # Data /\ Rest(n) # KR /\ Rest(n) # ON /\ Rest(n)[1] = "length" /\ Rest(n)[2] = n
    /\ \A p : Crc(p) # Data /\ Crc(p) # KR /\ Crc(p) # ON /\ Crc(p)[1] # "length" /\ Crc(p)[2] = p
    /\ Data[1] # "length" /\ KR[1] # "length" /\ ON[1] # "length"
    /\ \A p, n : Crc(p) # Rest(n)
<1>1. Data[1] = "data" /\ KR[1] = "KR" /\ ON[1] = "ON"
    BY DEF Data, KR, ON
<1>2. \A n : Rest(n)[1] = "length" /\ Rest(n)[2] = n
    BY DEF Rest
<1>3. \A p : Crc(p)[1] = "crc" /\ Crc(p)[2] = p
    BY DEF Crc
<1>4. Data # KR /\ Data # ON /\ KR # ON
    BY <1>1
<1>5. \A n : Rest(n) # Data /\ Rest(n) # KR /\ Rest(n) # ON
    BY <1>1, <1>2
<1>6. \A p : Crc(p) # Data /\ Crc(p) # KR /\ Crc(p) # ON
    BY <1>1, <1>3
<1>7. \A p, n : Crc(p) # Rest(n)
    BY <1>2, <1>3
<1>8. QED
    BY <1>1, <1>2, <1>3, <1>4, <1>5, <1>6, <1>7

\* A header that is well is of some length, and a CRC of some payload.
LEMMA KindsOfCells ==
    ASSUME NEW c \in Cell
    PROVE  /\ c[1] = "length" => c[2] \in Nat /\ c = Rest(c[2])
           /\ \A p : c = Crc(p) => p \in Payload
<1>1. CASE c \in {Data, KR, ON}
    BY <1>1, CellsDiffer
<1>2. CASE \E n \in Nat : c = Rest(n)
    BY <1>2, CellsDiffer
<1>3. CASE \E p \in Payload : c = Crc(p)
    <2>1. PICK q \in Payload : c = Crc(q)
        BY <1>3
    <2>2. c[1] # "length" /\ c[2] = q
        BY <2>1, CellsDiffer
    <2>3. \A p : c = Crc(p) => p = q
        BY <2>2, CellsDiffer
    <2>4. QED
        BY <2>2, <2>3
<1>4. QED
    BY <1>1, <1>2, <1>3 DEF Cell

LEMMA CellsOfPayload ==
    ASSUME NEW p \in Payload
    PROVE  /\ p \in Seq(Cell) /\ Len(p) \in Nat /\ DOMAIN p = 1 .. Len(p)
           /\ \A i \in 1 .. Len(p) : p[i] \in {Data, KR, ON} /\ p[i] \in Cell
<1>1. p \in Seq({Data, KR, ON}) /\ {Data, KR, ON} \subseteq Cell
    BY PayloadAssumption DEF Cell
<1>2. p \in Seq(Cell)
    BY <1>1, SeqMonotonic
<1>3. Len(p) \in Nat /\ DOMAIN p = 1 .. Len(p)
    BY <1>1, LenProperties
<1>4. \A i \in 1 .. Len(p) : p[i] \in {Data, KR, ON}
    BY <1>1, ElementOfSeq
<1>5. QED
    BY <1>1, <1>2, <1>3, <1>4

LEMMA JoinedIs ==
    ASSUME NEW s \in Seq(Cell), NEW t \in Seq(Cell)
    PROVE  /\ s \o t \in Seq(Cell) /\ Len(s \o t) = Len(s) + Len(t)
           /\ \A i \in 1 .. Len(s) : (s \o t)[i] = s[i]
           /\ \A i \in 1 .. Len(t) : (s \o t)[Len(s) + i] = t[i]
<1> DEFINE u == s \o t
           m == Len(s)
           n == Len(t)
<1>1. m \in Nat /\ n \in Nat
    BY LenProperties
<1>2. u \in Seq(Cell) /\ Len(u) = m + n
      /\ \A i \in 1 .. m + n : u[i] = IF i <= m THEN s[i] ELSE t[i - m]
    BY ConcatProperties
<1> HIDE DEF u, m, n
<1>3. \A i \in 1 .. m : u[i] = s[i]
    BY <1>1, <1>2
<1>4. ASSUME NEW i \in 1 .. n PROVE u[m + i] = t[i]
    <2> DEFINE k == m + i
    <2>1. k \in 1 .. m + n /\ ~(k <= m) /\ k - m = i
        BY <1>1
    <2> HIDE DEF k
    <2>2. u[k] = t[k - m]
        BY <1>2, <2>1
    <2>3. QED
        BY <2>1, <2>2 DEF k
<1>5. QED
    BY <1>2, <1>3, <1>4 DEF u, m, n

LEMMA FromIs ==
    ASSUME NEW b \in Seq(Cell), NEW i \in 1 .. Len(b) + 1
    PROVE  /\ From(b, i) \in Seq(Cell) /\ Len(From(b, i)) = Len(b) - i + 1
           /\ \A k \in 1 .. Len(From(b, i)) : From(b, i)[k] = b[i - 1 + k]
<1> DEFINE n == Len(b)
           g == From(b, i)
<1>1. n \in Nat /\ i \in Nat /\ i >= 1 /\ i <= n + 1
    BY LenProperties
<1>2. \A k \in i .. n : b[k] \in Cell
    <2> TAKE k \in i .. n
    <2>1. k \in 1 .. n
        BY <1>1
    <2>2. QED
        BY <2>1, ElementOfSeq
<1>3. /\ SubSeq(b, i, n) \in Seq(Cell)
      /\ Len(SubSeq(b, i, n)) = IF i <= n THEN n - i + 1 ELSE 0
      /\ \A k \in 1 .. n - i + 1 : SubSeq(b, i, n)[k] = b[i + k - 1]
    <2> HIDE DEF n
    <2>1. QED
        BY <1>1, <1>2, SubSeqProperties
<1>4. /\ g \in Seq(Cell) /\ Len(g) = IF i <= n THEN n - i + 1 ELSE 0
      /\ \A k \in 1 .. n - i + 1 : g[k] = b[i + k - 1]
    BY <1>3 DEF From
<1> HIDE DEF n, g
<1>5. Len(g) = n - i + 1
    BY <1>1, <1>4
<1>6. ASSUME NEW k \in 1 .. Len(g) PROVE g[k] = b[i - 1 + k]
    <2>1. k \in 1 .. n - i + 1 /\ i + k - 1 = i - 1 + k
        BY <1>1, <1>5
    <2>2. QED
        BY <1>4, <2>1
<1>7. QED
    BY <1>4, <1>5, <1>6 DEF n, g

\* A frame, or what looks like one, has its parts where they belong.
LEMMA FramedIs ==
    ASSUME NEW h \in Cell, NEW p \in Payload, NEW c \in Cell
    PROVE  /\ Framed(h, p, c) \in Seq(Cell) /\ Len(Framed(h, p, c)) = Len(p) + 4
           /\ Framed(h, p, c)[1] = KR /\ Framed(h, p, c)[2] = ON /\ Framed(h, p, c)[3] = h
           /\ \A i \in 1 .. Len(p) : Framed(h, p, c)[3 + i] = p[i]
           /\ Framed(h, p, c)[Len(p) + 4] = c
<1> DEFINE head == Magic \o <<h>>
           body == head \o p
           all == body \o <<c>>
           n == Len(p)
<1>1. p \in Seq(Cell) /\ n \in Nat
    BY CellsOfPayload
<1>2. Magic \in Seq(Cell) /\ Len(Magic) = 2 /\ Magic[1] = KR /\ Magic[2] = ON
    <2>1. KR \in Cell /\ ON \in Cell
        BY DEF Cell
    <2>2. QED
        BY <2>1 DEF Magic
<1>3. <<h>> \in Seq(Cell) /\ Len(<<h>>) = 1 /\ <<h>>[1] = h
    OBVIOUS
<1>4. <<c>> \in Seq(Cell) /\ Len(<<c>>) = 1 /\ <<c>>[1] = c
    OBVIOUS
<1>5. head \in Seq(Cell) /\ Len(head) = 3 /\ head[1] = KR /\ head[2] = ON /\ head[3] = h
    <2> DEFINE one == <<h>>
    <2>1. one \in Seq(Cell) /\ Len(one) = 1 /\ one[1] = h
        BY <1>3
    <2> HIDE DEF one
    <2> DEFINE u == Magic \o one
    <2>2. /\ u \in Seq(Cell) /\ Len(u) = Len(Magic) + Len(one)
          /\ \A i \in 1 .. Len(Magic) : u[i] = Magic[i]
          /\ \A i \in 1 .. Len(one) : u[Len(Magic) + i] = one[i]
        BY <1>2, <2>1, JoinedIs
    <2> HIDE DEF u
    <2>3. u \in Seq(Cell) /\ Len(u) = 3 /\ u[1] = KR /\ u[2] = ON /\ u[3] = h
        BY <1>2, <2>1, <2>2
    <2>4. QED
        BY <2>3 DEF u, one
<1> HIDE DEF head
<1>6. /\ body \in Seq(Cell) /\ Len(body) = n + 3 /\ body[1] = KR /\ body[2] = ON /\ body[3] = h
      /\ \A i \in 1 .. n : body[3 + i] = p[i]
    <2>1. /\ body \in Seq(Cell) /\ Len(body) = Len(head) + Len(p)
          /\ \A i \in 1 .. Len(head) : body[i] = head[i]
          /\ \A i \in 1 .. Len(p) : body[Len(head) + i] = p[i]
        BY <1>1, <1>5, JoinedIs
    <2> HIDE DEF body
    <2>2. QED
        BY <1>1, <1>5, <2>1
<1> HIDE DEF body
<1>7. /\ all \in Seq(Cell) /\ Len(all) = n + 4 /\ all[n + 4] = c
      /\ \A i \in 1 .. n + 3 : all[i] = body[i]
    <2> DEFINE one == <<c>>
    <2>1. one \in Seq(Cell) /\ Len(one) = 1 /\ one[1] = c
        BY <1>4
    <2> HIDE DEF one
    <2> DEFINE u == body \o one
    <2>2. /\ u \in Seq(Cell) /\ Len(u) = Len(body) + Len(one)
          /\ \A i \in 1 .. Len(body) : u[i] = body[i]
          /\ \A i \in 1 .. Len(one) : u[Len(body) + i] = one[i]
        BY <1>6, <2>1, JoinedIs
    <2> HIDE DEF u, n
    <2>3. u \in Seq(Cell) /\ Len(u) = n + 4 /\ u[n + 4] = c /\ \A i \in 1 .. n + 3 : u[i] = body[i]
        BY <1>1, <1>6, <2>1, <2>2
    <2>4. QED
        BY <2>3 DEF u, one
<1>8. all = Framed(h, p, c)
    BY DEF Framed, head, body
<1> HIDE DEF all, n
<1>9. /\ 1 \in 1 .. n + 3 /\ 2 \in 1 .. n + 3 /\ 3 \in 1 .. n + 3
      /\ \A i \in 1 .. n : 3 + i \in 1 .. n + 3
    BY <1>1
<1>10. /\ all[1] = KR /\ all[2] = ON /\ all[3] = h
       /\ \A i \in 1 .. n : all[3 + i] = p[i]
    BY <1>6, <1>7, <1>9
<1>11. QED
    BY <1>7, <1>8, <1>10 DEF n

-----------------------------------------------------------------------------
\* The sender.  A piece is joined to the stream, with the frame it is, if it is a clean one.
LEMMA StreamGrows ==
    ASSUME StreamInv(stream, sent),
           NEW d \in Seq(Cell), NEW frames \in SUBSET Frame, sent \subseteq frames,
           \A j \in 1 .. Len(d) : \A q \in Payload :
               d[j] = Crc(q) =>
                   /\ j > Len(q) + 1
                   /\ d[j - Len(q) - 1] = Rest(Len(q)) /\ Len(q) <= MaxPayload
                          => [payload |-> q, ends |-> Len(stream) + j] \in frames,
           \A f \in frames \ sent : Stands(stream \o d, f) /\ StartOf(f) > Len(stream),
           \A f, g \in frames \ sent : f = g
    PROVE  StreamInv(stream \o d, frames)
<1> DEFINE s == stream \o d
           m == Len(stream)
           n == Len(d)
<1>1. m \in Nat /\ n \in Nat /\ sent \subseteq Frame
    BY LenProperties DEF StreamInv
<1>2. /\ s \in Seq(Cell) /\ Len(s) = m + n
      /\ \A i \in 1 .. m : s[i] = stream[i]
      /\ \A i \in 1 .. n : s[m + i] = d[i]
    BY JoinedIs DEF StreamInv
<1> HIDE DEF s, m, n
<1>3. ASSUME NEW k \in 1 .. m + n PROVE CrcEnds(s, frames, k)
    <2> SUFFICES ASSUME NEW q \in Payload, s[k] = Crc(q), k > Len(q) + 1,
                        s[k - Len(q) - 1] = Rest(Len(q)), Len(q) <= MaxPayload
                 PROVE  [payload |-> q, ends |-> k] \in frames
        BY DEF CrcEnds
    <2> DEFINE l == Len(q)
               h == k - l - 1
    <2>1. l \in Nat
        BY CellsOfPayload
    <2> HIDE DEF l
    <2>2. h \in Int /\ h >= 1 /\ h <= k
        BY <1>1, <2>1 DEF l
    <2>3. CASE k <= m
        <3>1. k \in 1 .. m /\ h \in 1 .. m
            BY <1>1, <2>2, <2>3
        <3> HIDE DEF h
        <3>2. stream[k] = Crc(q) /\ stream[h] = Rest(l)
            BY <1>2, <3>1 DEF h, l
        <3>3. CrcEnds(stream, sent, k)
            BY <3>1 DEF StreamInv, m
        <3>4. QED
            BY <3>2, <3>3 DEF CrcEnds, h, l
    <2>4. CASE k > m
        <3> DEFINE j == k - m
        <3>1. j \in 1 .. n /\ m + j = k
            BY <1>1, <2>4
        <3> HIDE DEF j
        <3>2. d[j] = Crc(q)
            BY <1>2, <3>1
        <3>3. j > l + 1 /\ (d[j - l - 1] = Rest(l) /\ l <= MaxPayload
                                => [payload |-> q, ends |-> m + j] \in frames)
            BY <3>1, <3>2 DEF l, n, m
        <3> DEFINE i == j - l - 1
        <3>4. i \in 1 .. n /\ m + i = h
            <4>1. j > l + 1
                BY <3>3
            <4>2. j \in Nat /\ j <= n /\ k = m + j
                BY <1>1, <3>1
            <4>3. QED
                BY <1>1, <2>1, <4>1, <4>2
        <3> HIDE DEF i, h
        <3>5. d[i] = Rest(l)
            BY <1>2, <3>4 DEF h, l
        <3>6. QED
            BY <3>1, <3>3, <3>5 DEF i, l
    <2>5. QED
        BY <1>1, <2>3, <2>4
<1>4. ASSUME NEW f \in sent PROVE Stands(s, f) /\ f.ends <= m
    <2> DEFINE a == StartOf(f)
               p == f.payload
    <2>1. Stands(stream, f) /\ f \in Frame /\ p \in Payload /\ f.ends \in Nat
        BY <1>1 DEF StreamInv, Frame
    <2>2. Len(p) \in Nat
        BY <2>1, CellsOfPayload
    <2>3. a = f.ends - (Len(p) + 3)
        BY <2>1, <2>2 DEF StartOf, HeaderSize, TrailerSize
    <2>4. a >= 1 /\ f.ends <= m
        BY <2>1 DEF Stands, m
    <2> HIDE DEF a, p
    <2>5. /\ a \in 1 .. m /\ a + 1 \in 1 .. m /\ a + 2 \in 1 .. m /\ f.ends \in 1 .. m
          /\ \A i \in 1 .. Len(p) : a + 2 + i \in 1 .. m
        <3> DEFINE e == f.ends
                   l == Len(p)
        <3>1. a \in Int /\ e \in Nat /\ l \in Nat /\ a = e - (l + 3) /\ a >= 1 /\ e <= m
            BY <2>1, <2>2, <2>3, <2>4
        <3> HIDE DEF e, l
        <3>2. a \in 1 .. m /\ a + 1 \in 1 .. m /\ a + 2 \in 1 .. m /\ e \in 1 .. m
            BY <1>1, <3>1
        <3>3. \A i \in 1 .. l : a + 2 + i \in 1 .. m
            BY <1>1, <3>1
        <3>4. QED
            BY <3>2, <3>3 DEF e, l
    <2>6. /\ s[a] = stream[a] /\ s[a + 1] = stream[a + 1] /\ s[a + 2] = stream[a + 2]
          /\ s[f.ends] = stream[f.ends]
          /\ \A i \in 1 .. Len(p) : s[a + 2 + i] = stream[a + 2 + i]
        BY <1>2, <2>5
    <2>7. f.ends <= Len(s)
        BY <1>1, <1>2, <2>1, <2>4
    <2>8. QED
        BY <2>1, <2>4, <2>6, <2>7 DEF Stands, a, p
<1>5. \A f \in frames : Stands(s, f)
    BY <1>4 DEF s
<1>6. ASSUME NEW f \in frames, NEW g \in frames, f # g PROVE Apart(f, g)
    <2>1. f \in Frame /\ g \in Frame /\ f.ends \in Nat /\ g.ends \in Nat
        BY DEF Frame
    <2>2. f.payload \in Payload /\ g.payload \in Payload
        BY DEF Frame
    <2>3. StartOf(f) \in Int /\ StartOf(g) \in Int
        BY <2>1, <2>2, CellsOfPayload DEF StartOf, HeaderSize, TrailerSize
    <2>4. CASE f \in sent /\ g \in sent
        BY <1>6, <2>4 DEF StreamInv
    <2>5. CASE f \in sent /\ g \notin sent
        <3>1. f.ends <= m /\ StartOf(g) > m
            BY <1>4, <2>5 DEF m
        <3>2. QED
            BY <1>1, <2>1, <2>3, <3>1 DEF Apart
    <2>6. CASE f \notin sent /\ g \in sent
        <3>1. g.ends <= m /\ StartOf(f) > m
            BY <1>4, <2>6 DEF m
        <3>2. QED
            BY <1>1, <2>1, <2>3, <3>1 DEF Apart
    <2>7. CASE f \notin sent /\ g \notin sent
        BY <1>6, <2>7
    <2>8. QED
        BY <2>4, <2>5, <2>6, <2>7
<1>7. QED
    BY <1>2, <1>3, <1>5, <1>6 DEF StreamInv, s

\* The rest of the state sees nothing of a piece that has not arrived.
LEMMA SenderKeeps ==
    ASSUME FrameInv, NEW d \in Seq(Cell), stream' = stream \o d,
           StreamInv(stream', sent'), sent \subseteq sent',
           \A f \in sent' \ sent : StartOf(f) > Len(stream),
           arrived' = arrived, buffer' = buffer, emitted' = emitted, cut' = cut
    PROVE  FrameInv'
<1> DEFINE m == Len(stream)
           n == Len(buffer)
<1>1. stream \in Seq(Cell) /\ arrived \in Nat /\ arrived <= m /\ m \in Nat
    BY LenProperties DEF FrameInv, StreamInv
<1>2. buffer \in Seq(Cell) /\ n \in Nat /\ n <= arrived
    BY LenProperties DEF FrameInv, IsPiece
<1>3. Len(stream') = m + Len(d) /\ Len(d) \in Nat
      /\ \A i \in 1 .. m : stream'[i] = stream[i]
    BY <1>1, JoinedIs, LenProperties
<1>4. arrived' <= Len(stream')
    BY <1>1, <1>3
<1>5. IsPiece(buffer)'
    <2> HIDE DEF m, n
    <2>1. ASSUME NEW i \in 1 .. n PROVE buffer[i] = stream'[arrived - n + i]
        <3>1. arrived - n + i \in 1 .. m
            BY <1>1, <1>2
        <3>2. buffer[i] = stream[arrived - n + i]
            BY DEF FrameInv, IsPiece, n
        <3>3. QED
            BY <1>3, <3>1, <3>2
    <2>2. QED
        BY <1>2, <2>1 DEF IsPiece, n
<1>6. Gone' = Gone /\ Gone \in Int /\ Gone <= m
    BY <1>1, <1>2 DEF Gone
<1>7. EmittedTo(emitted, cut, Gone)'
    <2> DEFINE N == Gone
    <2> HIDE DEF N, m
    <2>1. EmittedTo(emitted, cut, N)
        BY DEF FrameInv, N
    <2>2. ASSUME NEW f \in sent' \ cut
          PROVE  (\E i \in DOMAIN emitted : emitted[i] = f) \/ StartOf(f) > N
        <3>1. CASE f \in sent
            BY <2>1, <3>1 DEF EmittedTo
        <3>2. CASE f \notin sent
            <4>1. StartOf(f) > m
                BY <3>2 DEF m
            <4>2. StartOf(f) \in Int
                <5>1. f \in Frame
                    BY DEF StreamInv
                <5>2. f.ends \in Nat /\ f.payload \in Payload
                    BY <5>1 DEF Frame
                <5>3. QED
                    BY <5>2, CellsOfPayload DEF StartOf, HeaderSize, TrailerSize
            <4>3. N \in Int /\ N <= m
                BY <1>6 DEF N
            <4>4. QED
                BY <1>1, <4>1, <4>2, <4>3
        <3>3. QED
            BY <3>1, <3>2
    <2>3. QED
        BY <1>6, <2>1, <2>2 DEF EmittedTo, N
<1>8. QED
    BY <1>1, <1>4, <1>5, <1>7 DEF FrameInv

LEMMA FramePlace ==
    ASSUME NEW f \in Frame
    PROVE  /\ f.ends \in Nat /\ f.payload \in Payload /\ Len(f.payload) \in Nat
           /\ StartOf(f) \in Int /\ StartOf(f) = f.ends - (Len(f.payload) + 3)
<1>1. f.ends \in Nat /\ f.payload \in Payload
    BY DEF Frame
<1>2. Len(f.payload) \in Nat
    BY <1>1, CellsOfPayload
<1>3. QED
    BY <1>1, <1>2 DEF StartOf, HeaderSize, TrailerSize

LEMMA SendFrameKeeps ==
    ASSUME FrameInv, NEW p \in Payload, SendFrame(p)
    PROVE  FrameInv'
<1> DEFINE d == Encode(p)
           m == Len(stream)
           l == Len(p)
           f == [payload |-> p, ends |-> m + (l + 4)]
<1> USE DEF SendFrame
<1>1. Rest(l) \in Cell /\ Crc(p) \in Cell /\ l \in Nat
    BY CellsOfPayload DEF Cell
<1>2. /\ d \in Seq(Cell) /\ Len(d) = l + 4
      /\ d[1] = KR /\ d[2] = ON /\ d[3] = Rest(l)
      /\ \A i \in 1 .. l : d[3 + i] = p[i]
      /\ d[l + 4] = Crc(p)
    BY <1>1, FramedIs DEF Encode
<1>3. stream \in Seq(Cell) /\ m \in Nat /\ sent \subseteq Frame /\ StreamInv(stream, sent)
    BY LenProperties DEF FrameInv, StreamInv
<1>4. stream' = stream \o d /\ sent' = IF l <= MaxPayload THEN sent \cup {f} ELSE sent
    BY <1>2
<1> HIDE DEF SendFrame, d
<1>5. f \in Frame /\ f.payload = p /\ f.ends = m + (l + 4) /\ StartOf(f) = m + 1
    <2>1. f \in Frame
        BY <1>1, <1>3 DEF Frame
    <2>2. f.payload = p /\ f.ends = m + (l + 4)
        OBVIOUS
    <2> HIDE DEF f
    <2>3. StartOf(f) = f.ends - (Len(f.payload) + 3)
        BY <2>1, FramePlace
    <2>4. QED
        BY <1>1, <1>3, <2>1, <2>2, <2>3
<1> HIDE DEF f
<1>6. sent \subseteq sent' /\ sent' \subseteq Frame /\ sent' \ sent \subseteq {f}
    BY <1>3, <1>4, <1>5
<1> DEFINE s == stream \o d
<1>7. /\ s \in Seq(Cell) /\ Len(s) = m + Len(d)
      /\ \A i \in 1 .. Len(d) : s[m + i] = d[i]
    BY <1>2, <1>3, JoinedIs
<1> HIDE DEF s
<1>8. ASSUME l <= MaxPayload PROVE Stands(s, f)
    <2> HIDE DEF m, l
    <2>1. /\ 1 \in 1 .. l + 4 /\ 2 \in 1 .. l + 4 /\ 3 \in 1 .. l + 4 /\ l + 4 \in 1 .. l + 4
          /\ \A i \in 1 .. l : 3 + i \in 1 .. l + 4
        BY <1>1
    <2>2. s[m + 1] = KR /\ s[m + 2] = ON /\ s[m + 3] = Rest(l) /\ s[m + (l + 4)] = Crc(p)
        BY <1>2, <1>7, <2>1
    <2>3. \A i \in 1 .. l : s[m + (3 + i)] = p[i]
        BY <1>2, <1>7, <2>1
    <2>4. m + 1 + 1 = m + 2 /\ m + 1 + 2 = m + 3 /\ \A i \in 1 .. l : m + 1 + 2 + i = m + (3 + i)
        BY <1>3
    <2>5. StartOf(f) >= 1 /\ f.ends <= Len(s)
        BY <1>1, <1>2, <1>3, <1>5, <1>7
    <2>6. Len(f.payload) = l
        BY <1>5 DEF l
    <2>7. QED
        BY <1>5, <1>8, <2>2, <2>3, <2>4, <2>5, <2>6 DEF Stands, l
<1>9. ASSUME NEW j \in 1 .. Len(d), NEW q \in Payload, d[j] = Crc(q)
      PROVE  /\ j > Len(q) + 1
             /\ d[j - Len(q) - 1] = Rest(Len(q)) /\ Len(q) <= MaxPayload
                  => [payload |-> q, ends |-> m + j] \in sent'
    <2>1. j = l + 4
        <3>1. j \in Nat /\ j >= 1 /\ j <= l + 4
            BY <1>1, <1>2
        <3>2. j # 1 /\ j # 2 /\ j # 3
            BY <1>2, <1>9, CellsDiffer
        <3>3. ASSUME NEW i \in 1 .. l, j = 3 + i PROVE FALSE
            <4>1. p[i] \in {Data, KR, ON}
                BY CellsOfPayload
            <4>2. QED
                BY <1>2, <1>9, <3>3, <4>1, CellsDiffer
        <3> HIDE DEF l
        <3>4. ASSUME j # l + 4 PROVE FALSE
            <4>1. j - 3 \in 1 .. l /\ j = 3 + (j - 3)
                BY <1>1, <3>1, <3>2, <3>4
            <4>2. QED
                BY <3>3, <4>1
        <3>5. QED
            BY <3>4
    <2>2. q = p
        <3>1. Crc(q)[2] = q /\ Crc(p)[2] = p
            BY CellsDiffer
        <3>2. QED
            BY <1>2, <1>9, <2>1, <3>1
    <2>3. j > Len(q) + 1
        BY <1>1, <2>1, <2>2
    <2>4. l <= MaxPayload => [payload |-> q, ends |-> m + j] \in sent'
        BY <1>4, <2>1, <2>2 DEF f
    <2>5. QED
        BY <2>2, <2>3, <2>4
<1>10. StreamInv(s, sent')
    <2>1. \A g \in sent' \ sent : Stands(s, g) /\ StartOf(g) > m
        <3> TAKE g \in sent' \ sent
        <3>1. g = f /\ l <= MaxPayload
            BY <1>4
        <3>2. QED
            BY <1>3, <1>5, <1>8, <3>1
    <2>2. \A g, h \in sent' \ sent : g = h
        BY <1>6
    <2>3. QED
        BY <1>2, <1>3, <1>6, <1>9, <2>1, <2>2, StreamGrows DEF s
<1>11. \A g \in sent' \ sent : StartOf(g) > m
    BY <1>3, <1>5, <1>6
<1>12. arrived' = arrived /\ buffer' = buffer /\ emitted' = emitted /\ cut' = cut
    BY DEF SendFrame
<1>13. QED
    BY <1>2, <1>4, <1>6, <1>10, <1>11, <1>12, SenderKeeps DEF s

\* What is not a frame has no header before a CRC.
LEMMA DirtIs ==
    ASSUME NEW d \in Dirt
    PROVE  /\ d \in Seq(Cell)
           /\ \A j \in 1 .. Len(d) : \A q \in Payload :
                 d[j] = Crc(q) => j > Len(q) + 1 /\ d[j - Len(q) - 1] # Rest(Len(q))
<1>1. CASE d = <<Data>> \/ d = <<Data, KR>>
    <2>1. Data \in Cell /\ KR \in Cell
        BY DEF Cell
    <2>2. CASE d = <<Data>>
        <3>1. d \in Seq(Cell) /\ Len(d) = 1 /\ d[1] = Data
            BY <2>1, <2>2
        <3>2. QED
            BY <3>1, CellsDiffer
    <2>3. CASE d = <<Data, KR>>
        <3>1. d \in Seq(Cell) /\ Len(d) = 2 /\ d[1] = Data /\ d[2] = KR
            BY <2>1, <2>3
        <3>2. QED
            BY <3>1, CellsDiffer
    <2>4. QED
        BY <1>1, <2>2, <2>3
<1>2. ASSUME NEW p \in Payload, d = Framed(Data, p, Crc(p))
      PROVE  /\ d \in Seq(Cell)
             /\ \A j \in 1 .. Len(d) : \A q \in Payload :
                   d[j] = Crc(q) => j > Len(q) + 1 /\ d[j - Len(q) - 1] # Rest(Len(q))
    <2> DEFINE l == Len(p)
    <2>1. Data \in Cell /\ Crc(p) \in Cell /\ l \in Nat
        BY CellsOfPayload DEF Cell
    <2>2. /\ d \in Seq(Cell) /\ Len(d) = l + 4
          /\ d[1] = KR /\ d[2] = ON /\ d[3] = Data
          /\ \A i \in 1 .. l : d[3 + i] = p[i]
          /\ d[l + 4] = Crc(p)
        <3> DEFINE w == Framed(Data, p, Crc(p))
        <3>1. /\ w \in Seq(Cell) /\ Len(w) = Len(p) + 4
              /\ w[1] = KR /\ w[2] = ON /\ w[3] = Data
              /\ \A i \in 1 .. Len(p) : w[3 + i] = p[i]
              /\ w[Len(p) + 4] = Crc(p)
            BY <2>1, FramedIs
        <3>2. QED
            BY <1>2, <3>1
    <2>3. ASSUME NEW j \in 1 .. Len(d), NEW q \in Payload, d[j] = Crc(q)
          PROVE  j > Len(q) + 1 /\ d[j - Len(q) - 1] # Rest(Len(q))
        <3>1. j \in Nat /\ j >= 1 /\ j <= l + 4
            BY <2>1, <2>2
        <3>2. j # 1 /\ j # 2 /\ j # 3
            BY <2>2, <2>3, CellsDiffer
        <3>3. ASSUME NEW i \in 1 .. l, j = 3 + i PROVE FALSE
            <4>1. p[i] \in {Data, KR, ON}
                BY CellsOfPayload
            <4>2. QED
                BY <2>2, <2>3, <3>3, <4>1, CellsDiffer
        <3> HIDE DEF l
        <3>4. j = l + 4
            <4>1. SUFFICES ASSUME j # l + 4 PROVE FALSE
                OBVIOUS
            <4>2. j - 3 \in 1 .. l /\ j = 3 + (j - 3)
                BY <2>1, <3>1, <3>2, <4>1
            <4>3. QED
                BY <3>3, <4>2
        <3>5. q = p
            <4>1. Crc(q)[2] = q /\ Crc(p)[2] = p
                BY CellsDiffer
            <4>2. QED
                BY <2>2, <2>3, <3>4, <4>1
        <3>6. Len(q) = l
            BY <3>5 DEF l
        <3>7. j - Len(q) - 1 = 3 /\ j > Len(q) + 1
            BY <2>1, <3>4, <3>6
        <3>8. d[3] # Rest(Len(q))
            BY <2>2, CellsDiffer
        <3>9. QED
            BY <3>7, <3>8
    <2>4. QED
        BY <2>2, <2>3
<1>3. ASSUME NEW p \in Payload, NEW c \in Cell,
             \A q : c # Crc(q), d = Framed(Rest(Len(p)), p, c)
      PROVE  d \in Seq(Cell) /\ \A j \in 1 .. Len(d) : \A q \in Payload : d[j] # Crc(q)
    <2> DEFINE l == Len(p)
    <2>1. Rest(l) \in Cell /\ l \in Nat
        BY CellsOfPayload DEF Cell
    <2>2. /\ d \in Seq(Cell) /\ Len(d) = l + 4
          /\ d[1] = KR /\ d[2] = ON /\ d[3] = Rest(l)
          /\ \A i \in 1 .. l : d[3 + i] = p[i]
          /\ d[l + 4] = c
        <3> DEFINE w == Framed(Rest(l), p, c)
        <3>1. /\ w \in Seq(Cell) /\ Len(w) = Len(p) + 4
              /\ w[1] = KR /\ w[2] = ON /\ w[3] = Rest(l)
              /\ \A i \in 1 .. Len(p) : w[3 + i] = p[i]
              /\ w[Len(p) + 4] = c
            BY <2>1, FramedIs
        <3>2. QED
            BY <1>3, <3>1
    <2>3. ASSUME NEW j \in 1 .. Len(d), NEW q \in Payload, d[j] = Crc(q) PROVE FALSE
        <3>1. j \in Nat /\ j >= 1 /\ j <= l + 4
            BY <2>1, <2>2
        <3>2. j # 1 /\ j # 2 /\ j # 3 /\ j # l + 4
            BY <1>3, <2>2, <2>3, CellsDiffer
        <3>3. ASSUME NEW i \in 1 .. l, j = 3 + i PROVE FALSE
            <4>1. p[i] \in {Data, KR, ON}
                BY CellsOfPayload
            <4>2. QED
                BY <2>2, <2>3, <3>3, <4>1, CellsDiffer
        <3> HIDE DEF l
        <3>4. j - 3 \in 1 .. l /\ j = 3 + (j - 3)
            BY <2>1, <3>1, <3>2
        <3>5. QED
            BY <3>3, <3>4
    <2>4. QED
        BY <2>2, <2>3
<1>4. ASSUME NEW p \in Payload, NEW n \in 1 .. HeaderSize + Len(p),
             d = SubSeq(Encode(p), 1, n)
      PROVE  d \in Seq(Cell) /\ \A j \in 1 .. Len(d) : \A q \in Payload : d[j] # Crc(q)
    <2> DEFINE l == Len(p)
               w == Encode(p)
    <2>1. Rest(l) \in Cell /\ Crc(p) \in Cell /\ l \in Nat
        BY CellsOfPayload DEF Cell
    <2>2. /\ w \in Seq(Cell) /\ Len(w) = l + 4
          /\ w[1] = KR /\ w[2] = ON /\ w[3] = Rest(l)
          /\ \A i \in 1 .. l : w[3 + i] = p[i]
        BY <2>1, FramedIs DEF Encode
    <2>3. n \in Nat /\ n >= 1 /\ n <= l + 3
        BY <2>1 DEF HeaderSize
    <2> HIDE DEF w, l
    <2>4. \A i \in 1 .. n : w[i] \in Cell
        <3> TAKE i \in 1 .. n
        <3>1. i \in 1 .. Len(w)
            BY <2>1, <2>2, <2>3
        <3>2. QED
            BY <2>2, <3>1, ElementOfSeq
    <2>5. /\ d \in Seq(Cell) /\ Len(d) = IF 1 <= n THEN n - 1 + 1 ELSE 0
          /\ \A i \in 1 .. n - 1 + 1 : d[i] = w[1 + i - 1]
        <3>1. /\ SubSeq(w, 1, n) \in Seq(Cell)
              /\ Len(SubSeq(w, 1, n)) = IF 1 <= n THEN n - 1 + 1 ELSE 0
              /\ \A i \in 1 .. n - 1 + 1 : SubSeq(w, 1, n)[i] = w[1 + i - 1]
            BY <2>3, <2>4, SubSeqProperties
        <3>2. QED
            BY <1>4, <3>1 DEF w
    <2>6. Len(d) = n
        BY <2>3, <2>5
    <2>7. ASSUME NEW j \in 1 .. Len(d), NEW q \in Payload, d[j] = Crc(q) PROVE FALSE
        <3>1. j \in Nat /\ j >= 1 /\ j <= n /\ j \in 1 .. n - 1 + 1 /\ 1 + j - 1 = j
            BY <2>3, <2>6
        <3>2. w[j] = Crc(q)
            BY <2>5, <2>7, <3>1
        <3>3. j # 1 /\ j # 2 /\ j # 3
            BY <2>2, <3>2, CellsDiffer
        <3>4. ASSUME NEW i \in 1 .. l, j = 3 + i PROVE FALSE
            <4>1. p[i] \in {Data, KR, ON}
                BY CellsOfPayload DEF l
            <4>2. QED
                BY <2>2, <3>2, <3>4, <4>1, CellsDiffer
        <3>5. j - 3 \in 1 .. l /\ j = 3 + (j - 3)
            BY <2>1, <2>3, <3>1, <3>3
        <3>6. QED
            BY <3>4, <3>5
    <2>8. QED
        BY <2>5, <2>7
<1>5. Data \in Cell /\ \A q : Data # Crc(q)
    BY CellsDiffer DEF Cell
<1>6. CASE \E p \in Payload : d \in Damaged(p)
    <2>1. PICK p \in Payload : d \in Damaged(p)
        BY <1>6
    <2>2. \/ d = Framed(Data, p, Crc(p))
          \/ d = Framed(Rest(Len(p)), p, Data)
          \/ \E n \in 1 .. HeaderSize + Len(p) : d = SubSeq(Encode(p), 1, n)
        BY <2>1 DEF Damaged
    <2>3. CASE d = Framed(Data, p, Crc(p))
        BY <1>2, <2>3
    <2>4. CASE d = Framed(Rest(Len(p)), p, Data)
        BY <1>3, <1>5, <2>4
    <2>5. CASE \E n \in 1 .. HeaderSize + Len(p) : d = SubSeq(Encode(p), 1, n)
        BY <1>4, <2>5
    <2>6. QED
        BY <2>2, <2>3, <2>4, <2>5
<1>7. (\E p \in Payload : d \in Damaged(p)) \/ d = <<Data>> \/ d = <<Data, KR>>
    <2> DEFINE S == {Damaged(p) : p \in Payload}
    <2>1. d \in UNION S \/ d = <<Data>> \/ d = <<Data, KR>>
        BY DEF Dirt
    <2>2. CASE d \in UNION S
        <3>1. PICK D \in S : d \in D
            BY <2>2
        <3>2. PICK p \in Payload : D = Damaged(p)
            OBVIOUS
        <3>3. QED
            BY <3>1, <3>2
    <2>3. QED
        BY <2>1, <2>2
<1>8. QED
    BY <1>1, <1>6, <1>7

LEMMA SendDirtKeeps ==
    ASSUME FrameInv, NEW d \in Dirt, SendDirt(d)
    PROVE  FrameInv'
<1>1. /\ stream' = stream \o d /\ sent' = sent
      /\ arrived' = arrived /\ buffer' = buffer /\ emitted' = emitted /\ cut' = cut
    BY DEF SendDirt
<1>2. d \in Seq(Cell)
    BY DirtIs
<1>3. sent \in SUBSET Frame /\ StreamInv(stream, sent)
    BY DEF FrameInv, StreamInv
<1>4. StreamInv(stream \o d, sent)
    BY <1>2, <1>3, DirtIs, StreamGrows
<1>5. QED
    BY <1>1, <1>2, <1>4, SenderKeeps

-----------------------------------------------------------------------------
\* The decoder.  What it knows of a frame that begins at a cell of the buffer.
LEMMA BufferIs ==
    ASSUME FrameInv
    PROVE  /\ buffer \in Seq(Cell) /\ Len(buffer) \in Nat /\ arrived \in Nat
           /\ Gone \in Nat /\ arrived = Gone + Len(buffer)
           /\ \A i \in 1 .. Len(buffer) : buffer[i] = stream[Gone + i]
           /\ stream \in Seq(Cell) /\ arrived <= Len(stream) /\ Len(stream) \in Nat
<1>1. buffer \in Seq(Cell) /\ Len(buffer) <= arrived /\ arrived \in Nat /\ arrived <= Len(stream)
      /\ stream \in Seq(Cell)
      /\ \A i \in 1 .. Len(buffer) : buffer[i] = stream[arrived - Len(buffer) + i]
    BY DEF FrameInv, IsPiece, StreamInv
<1>2. Len(buffer) \in Nat /\ Len(stream) \in Nat
    BY <1>1, LenProperties
<1>3. Gone \in Nat /\ arrived = Gone + Len(buffer)
    BY <1>1, <1>2 DEF Gone
<1>4. QED
    BY <1>1, <1>2, <1>3 DEF Gone

LEMMA FrameInside ==
    ASSUME FrameInv, NEW f \in sent, NEW i \in 1 .. Len(buffer), StartOf(f) = Gone + i
    PROVE  buffer[i] = KR /\ (i < Len(buffer) => buffer[i + 1] = ON)
<1> DEFINE n == Len(buffer)
           g == Gone
<1>1. /\ n \in Nat /\ g \in Nat /\ \A k \in 1 .. n : buffer[k] = stream[g + k]
    BY BufferIs
<1>2. stream[g + i] = KR /\ stream[g + i + 1] = ON
    BY DEF FrameInv, StreamInv, Stands
<1>3. buffer[i] = KR
    BY <1>1, <1>2
<1>4. ASSUME i < n PROVE buffer[i + 1] = ON
    <2> HIDE DEF n, g
    <2>1. i \in 1 .. n
        BY DEF n
    <2>2. i + 1 \in 1 .. n /\ g + (i + 1) = g + i + 1
        BY <1>1, <1>4, <2>1
    <2>3. buffer[i + 1] = stream[g + (i + 1)]
        BY <1>1, <2>2
    <2>4. QED
        BY <1>2, <2>2, <2>3
<1>5. QED
    BY <1>3, <1>4

LEMMA PayloadOfIs ==
    ASSUME FrameInv, Len(buffer) >= 4, PayloadLength(buffer) \in Nat,
           Len(buffer) >= FrameSize(buffer)
    PROVE  /\ FrameSize(buffer) = PayloadLength(buffer) + 4
           /\ PayloadOf(buffer) \in Seq(Cell) /\ Len(PayloadOf(buffer)) = PayloadLength(buffer)
           /\ \A i \in 1 .. PayloadLength(buffer) : PayloadOf(buffer)[i] = stream[Gone + 3 + i]
           /\ buffer[FrameSize(buffer)] = stream[Gone + PayloadLength(buffer) + 4]
           /\ buffer[FrameSize(buffer)] \in Cell
<1> DEFINE l == PayloadLength(buffer)
           n == Len(buffer)
           g == Gone
           m == 3 + l
           s == SubSeq(buffer, 4, m)
<1>1. /\ buffer \in Seq(Cell) /\ n \in Nat /\ g \in Nat
      /\ \A i \in 1 .. n : buffer[i] = stream[g + i]
    BY BufferIs
<1>2. l \in Nat /\ FrameSize(buffer) = l + 4 /\ n >= l + 4
    BY DEF FrameSize, HeaderSize, TrailerSize
<1>3. PayloadOf(buffer) = s
    BY DEF PayloadOf, HeaderSize
<1> HIDE DEF l, n, g
<1>4. \A i \in 1 .. n : buffer[i] \in Cell
    BY <1>1, ElementOfSeq DEF n
<1>5. \A i \in 4 .. m : buffer[i] \in Cell
    BY <1>1, <1>2, <1>4
<1>6. /\ s \in Seq(Cell) /\ Len(s) = IF 4 <= m THEN m - 4 + 1 ELSE 0
      /\ \A i \in 1 .. m - 4 + 1 : s[i] = buffer[4 + i - 1]
    <2>1. 4 \in Int /\ m \in Int
        BY <1>2
    <2> HIDE DEF m
    <2>2. QED
        BY <1>5, <2>1, SubSeqProperties
<1> HIDE DEF s
<1>7. Len(s) = l
    BY <1>2, <1>6
<1>8. ASSUME NEW i \in 1 .. l PROVE s[i] = stream[g + 3 + i]
    <2>1. i \in 1 .. m - 4 + 1 /\ 4 + i - 1 = 3 + i /\ 3 + i \in 1 .. n /\ g + (3 + i) = g + 3 + i
        BY <1>1, <1>2
    <2>2. s[i] = buffer[3 + i]
        BY <1>6, <2>1
    <2>3. buffer[3 + i] = stream[g + (3 + i)]
        BY <1>1, <2>1
    <2>4. QED
        BY <2>1, <2>2, <2>3
<1>9. l + 4 \in 1 .. n /\ g + (l + 4) = g + l + 4
    BY <1>1, <1>2
<1>10. buffer[l + 4] = stream[g + l + 4] /\ buffer[l + 4] \in Cell
    <2>1. buffer[l + 4] = stream[g + (l + 4)]
        BY <1>1, <1>9
    <2>2. QED
        BY <1>4, <1>9, <2>1
<1>11. QED
    BY <1>2, <1>3, <1>6, <1>7, <1>8, <1>10 DEF l, g

\* A clean frame at the front is announced, and accepted when it is there in full.
LEMMA FrameInFront ==
    ASSUME FrameInv, Len(buffer) >= 4, NEW f \in sent, StartOf(f) = Gone + 1
    PROVE  InSync(buffer) /\ Announces(buffer)
           /\ (Len(buffer) >= FrameSize(buffer) => PayloadOk(buffer))
<1> DEFINE n == Len(buffer)
           g == Gone
           p == f.payload
           l == Len(p)
<1>1. /\ n \in Nat /\ g \in Nat /\ n >= 4 /\ \A k \in 1 .. n : buffer[k] = stream[g + k]
    BY BufferIs
<1>2. Stands(stream, f) /\ f \in Frame
    BY DEF FrameInv, StreamInv
<1>3. p \in Payload /\ l \in Nat /\ f.ends \in Nat /\ StartOf(f) = f.ends - (l + 3)
    BY <1>2, FramePlace
<1>4. /\ stream[g + 1] = KR /\ stream[g + 1 + 1] = ON /\ stream[g + 1 + 2] = Rest(l)
      /\ l <= MaxPayload /\ stream[f.ends] = Crc(p)
      /\ \A i \in 1 .. l : stream[g + 1 + 2 + i] = p[i]
    BY <1>2 DEF Stands
<1> HIDE DEF n, g, p, l
<1>5. /\ g + 1 + 1 = g + 2 /\ g + 1 + 2 = g + 3 /\ f.ends = g + l + 4
      /\ 1 \in 1 .. n /\ 2 \in 1 .. n /\ 3 \in 1 .. n
    <2>1. f.ends - (l + 3) = g + 1
        BY <1>3 DEF g
    <2>2. g + 1 + 1 = g + 2 /\ g + 1 + 2 = g + 3 /\ f.ends = g + l + 4
        BY <1>1, <1>3, <2>1
    <2>3. 1 \in 1 .. n /\ 2 \in 1 .. n /\ 3 \in 1 .. n
        BY <1>1
    <2>4. QED
        BY <2>2, <2>3
<1>6. buffer[1] = KR /\ buffer[2] = ON /\ buffer[3] = Rest(l)
    BY <1>1, <1>4, <1>5
<1>7. InSync(buffer) /\ HeaderOk(buffer) /\ PayloadLength(buffer) = l
    BY <1>6, CellsDiffer DEF InSync, HeaderOk, PayloadLength, HeaderSize
<1>8. Announces(buffer)
    BY <1>4, <1>7 DEF Announces
<1>9. ASSUME Len(buffer) >= FrameSize(buffer) PROVE PayloadOk(buffer)
    <2> DEFINE s == PayloadOf(buffer)
    <2>1. /\ FrameSize(buffer) = PayloadLength(buffer) + 4
          /\ PayloadOf(buffer) \in Seq(Cell) /\ Len(PayloadOf(buffer)) = PayloadLength(buffer)
          /\ \A i \in 1 .. PayloadLength(buffer) : PayloadOf(buffer)[i] = stream[Gone + 3 + i]
          /\ buffer[FrameSize(buffer)] = stream[Gone + PayloadLength(buffer) + 4]
        <3>1. PayloadLength(buffer) \in Nat
            BY <1>3, <1>7
        <3>2. QED
            BY <1>1, <1>9, <3>1, PayloadOfIs DEF n
    <2>2. /\ s \in Seq(Cell) /\ Len(s) = l /\ \A i \in 1 .. l : s[i] = stream[g + 3 + i]
          /\ buffer[FrameSize(buffer)] = stream[g + l + 4]
        BY <1>7, <2>1 DEF g
    <2> HIDE DEF s
    <2>3. p \in Seq(Cell) /\ Len(p) = l
        BY <1>3, CellsOfPayload DEF l
    <2>4. \A i \in 1 .. Len(s) : s[i] = p[i]
        BY <1>4, <1>5, <2>2
    <2>5. s = p
        BY <2>2, <2>3, <2>4, SeqEqual
    <2>6. buffer[FrameSize(buffer)] = Crc(s)
        BY <1>4, <1>5, <2>2, <2>5
    <2>7. QED
        BY <2>6 DEF PayloadOk, s
<1>10. QED
    BY <1>7, <1>8, <1>9

\* The buffer loses its first cells, none of which begins a frame that is missed.
LEMMA SkipKeeps ==
    ASSUME FrameInv, NEW i \in 1 .. Len(buffer) + 1, buffer' = From(buffer, i),
           stream' = stream, arrived' = arrived, sent' = sent, cut' = cut,
           EmittedTo(emitted', cut, Gone + i - 1)
    PROVE  FrameInv'
<1> DEFINE n == Len(buffer)
           g == Gone
           b == From(buffer, i)
<1>1. /\ buffer \in Seq(Cell) /\ n \in Nat /\ arrived \in Nat /\ g \in Nat /\ arrived = g + n
      /\ \A k \in 1 .. n : buffer[k] = stream[g + k]
    BY BufferIs
<1>2. /\ b \in Seq(Cell) /\ Len(b) = n - i + 1
      /\ \A k \in 1 .. Len(b) : b[k] = buffer[i - 1 + k]
    BY <1>1, FromIs
<1>3. i \in Nat /\ i >= 1 /\ i <= n + 1
    BY <1>1
<1> HIDE DEF b, n, g
<1>4. Gone' = g + i - 1
    <2>1. Gone' = arrived - Len(b)
        BY DEF Gone, b
    <2>2. QED
        BY <1>1, <1>2, <1>3, <2>1
<1>5. IsPiece(buffer)'
    <2>1. Len(b) <= arrived
        BY <1>1, <1>2, <1>3
    <2>2. ASSUME NEW k \in 1 .. Len(b) PROVE b[k] = stream[arrived - Len(b) + k]
        <3>1. i - 1 + k \in 1 .. n /\ g + (i - 1 + k) = arrived - Len(b) + k
            BY <1>1, <1>2, <1>3
        <3>2. b[k] = buffer[i - 1 + k] /\ buffer[i - 1 + k] = stream[g + (i - 1 + k)]
            BY <1>1, <1>2, <3>1
        <3>3. QED
            BY <3>1, <3>2
    <2>3. QED
        BY <1>2, <2>1, <2>2 DEF IsPiece, b
<1>6. EmittedTo(emitted, cut, Gone)'
    BY <1>4 DEF EmittedTo, g
<1>7. StreamInv(stream, sent)' /\ arrived' \in Nat /\ arrived' <= Len(stream')
    BY DEF FrameInv
<1>8. QED
    BY <1>5, <1>6, <1>7 DEF FrameInv

\* Of the frames emitted, nothing changes.
LEMMA NothingMissed ==
    ASSUME FrameInv, NEW i \in 1 .. Len(buffer) + 1,
           \A f \in sent, d \in 1 .. i - 1 : StartOf(f) # Gone + d
    PROVE  EmittedTo(emitted, cut, Gone + i - 1)
<1> DEFINE g == Gone
           h == g + i - 1
<1>1. g \in Nat /\ i \in Nat /\ i >= 1
    BY BufferIs
<1>2. EmittedTo(emitted, cut, g)
    BY DEF FrameInv
<1>3. h \in Nat /\ h >= g
    BY <1>1
<1>4. ASSUME NEW k \in DOMAIN emitted PROVE emitted[k] \in sent /\ emitted[k].ends <= h
    <2>1. emitted[k] \in sent /\ emitted[k].ends <= g /\ emitted[k] \in Frame
        BY <1>2 DEF EmittedTo, FrameInv, StreamInv
    <2>2. emitted[k].ends \in Nat
        BY <2>1, FramePlace
    <2> HIDE DEF g, h
    <2>3. QED
        BY <1>1, <1>3, <2>1, <2>2
<1>5. ASSUME NEW f \in sent \ cut
      PROVE  (\E k \in DOMAIN emitted : emitted[k] = f) \/ StartOf(f) > h
    <2>1. CASE \E k \in DOMAIN emitted : emitted[k] = f
        BY <2>1
    <2>2. CASE StartOf(f) > g
        <3> DEFINE d == StartOf(f) - g
        <3>1. f \in Frame
            BY DEF FrameInv, StreamInv
        <3>2. StartOf(f) \in Int
            BY <3>1, FramePlace
        <3>3. d \in Nat /\ d >= 1 /\ StartOf(f) = g + d
            BY <1>1, <2>2, <3>2
        <3> HIDE DEF d
        <3>4. d \notin 1 .. i - 1
            BY <3>3
        <3>5. QED
            BY <1>1, <3>3, <3>4
    <2>3. QED
        BY <1>2, <2>1, <2>2 DEF EmittedTo
<1>6. EmittedTo(emitted, cut, h)
    <2> HIDE DEF h, g
    <2>1. QED
        BY <1>2, <1>4, <1>5 DEF EmittedTo
<1>7. QED
    BY <1>6

LEMMA MagicIs ==
    ASSUME NEW b, Len(b) \in Nat, MagicAt(b) # {}
    PROVE  /\ First(MagicAt(b)) \in 2 .. Len(b) - 1
           /\ \A i \in MagicAt(b) : First(MagicAt(b)) <= i
<1> DEFINE S == MagicAt(b)
<1>1. S \in SUBSET Nat /\ S \subseteq 2 .. Len(b) - 1
    BY DEF MagicAt
<1> HIDE DEF S
<1>2. \E i \in S : \A j \in S : i <= j
    BY <1>1, LeastNatural DEF S
<1>3. First(S) \in S /\ \A j \in S : First(S) <= j
    BY <1>2 DEF First
<1>4. QED
    BY <1>1, <1>3 DEF S

LEMMA ResyncKeeps ==
    ASSUME FrameInv, Resync
    PROVE  FrameInv'
<1> DEFINE n == Len(buffer)
           M == MagicAt(buffer)
           i == IF M = {} THEN n ELSE First(M)
<1>1. n \in Nat /\ n >= 4 /\ ~InSync(buffer)
    BY BufferIs DEF Resync, Round, HeaderSize, TrailerSize
<1>2. /\ buffer' = From(buffer, i)
      /\ stream' = stream /\ arrived' = arrived /\ sent' = sent /\ cut' = cut /\ emitted' = emitted
    BY DEF Resync, LastCell
<1>3. i \in 1 .. n + 1 /\ \A d \in 2 .. i - 1 : d \in 2 .. n - 1 /\ d \notin M
    <2>1. CASE M = {}
        BY <1>1, <2>1
    <2>2. CASE M # {}
        <3>1. First(M) \in 2 .. n - 1 /\ \A d \in M : First(M) <= d
            BY <1>1, <2>2, MagicIs
        <3>2. i = First(M)
            BY <2>2
        <3> HIDE DEF M, n, i
        <3>3. i \in 1 .. n + 1
            BY <1>1, <3>1, <3>2
        <3>4. ASSUME NEW d \in 2 .. i - 1 PROVE d \in 2 .. n - 1 /\ d \notin M
            <4>1. d \in Int /\ d >= 2 /\ d < i
                BY <1>1, <3>1, <3>2
            <4>2. d \notin M
                BY <1>1, <3>1, <3>2, <4>1
            <4>3. QED
                BY <1>1, <3>1, <3>2, <4>1, <4>2
        <3>5. QED
            BY <3>3, <3>4
    <2>3. QED
        BY <2>1, <2>2
<1> HIDE DEF i
<1>4. ASSUME NEW f \in sent, NEW d \in 1 .. i - 1, StartOf(f) = Gone + d PROVE FALSE
    <2>1. CASE d = 1
        BY <1>1, <1>4, <2>1, FrameInFront
    <2>2. CASE d # 1
        <3>1. d \in 2 .. i - 1
            BY <1>3, <2>2
        <3>2. d \in 2 .. n - 1 /\ d \notin M
            BY <1>3, <3>1
        <3>3. d \in 1 .. n /\ d < n
            BY <1>1, <3>2
        <3>4. buffer[d] = KR /\ buffer[d + 1] = ON
            BY <1>4, <3>3, FrameInside
        <3>5. QED
            BY <3>2, <3>4 DEF MagicAt
    <2>3. QED
        BY <2>1, <2>2
<1>5. EmittedTo(emitted', cut, Gone + i - 1)
    BY <1>2, <1>3, <1>4, NothingMissed
<1>6. QED
    BY <1>2, <1>3, <1>5, SkipKeeps

LEMMA SkipMagicKeeps ==
    ASSUME FrameInv, SkipMagic
    PROVE  FrameInv'
<1>1. Len(buffer) \in Nat /\ Len(buffer) >= 4
    BY BufferIs DEF SkipMagic, Round, HeaderSize, TrailerSize
<1>2. /\ buffer' = From(buffer, 3)
      /\ stream' = stream /\ arrived' = arrived /\ sent' = sent /\ cut' = cut /\ emitted' = emitted
      /\ buffer[2] = ON
      /\ Announces(buffer) => Len(buffer) >= FrameSize(buffer) /\ ~PayloadOk(buffer)
    <2>1. Len(Magic) = 2
        BY DEF Magic
    <2>2. QED
        BY <2>1 DEF SkipMagic, InSync
<1>3. 3 \in 1 .. Len(buffer) + 1
    BY <1>1
<1>4. ASSUME NEW f \in sent, NEW d \in 1 .. 3 - 1, StartOf(f) = Gone + d PROVE FALSE
    <2>1. CASE d = 1
        BY <1>1, <1>2, <1>4, <2>1, FrameInFront
    <2>2. CASE d = 2
        <3>1. 2 \in 1 .. Len(buffer)
            BY <1>1
        <3>2. buffer[2] = KR
            BY <1>4, <2>2, <3>1, FrameInside
        <3>3. QED
            BY <1>2, <3>2, CellsDiffer
    <2>3. d = 1 \/ d = 2
        OBVIOUS
    <2>4. QED
        BY <2>1, <2>2, <2>3
<1>5. EmittedTo(emitted', cut, Gone + 3 - 1)
    BY <1>2, <1>3, <1>4, NothingMissed
<1>6. QED
    BY <1>2, <1>3, <1>5, SkipKeeps

\* A frame that is accepted is a clean one: before its CRC is a header of its length.
LEMMA AcceptedIsClean ==
    ASSUME FrameInv, EmitFrame
    PROVE  /\ [payload |-> PayloadOf(buffer), ends |-> Gone + FrameSize(buffer)] \in sent
           /\ StartOf([payload |-> PayloadOf(buffer), ends |-> Gone + FrameSize(buffer)]) = Gone + 1
           /\ FrameSize(buffer) \in Nat /\ FrameSize(buffer) >= 4
<1> DEFINE n == Len(buffer)
           g == Gone
           l == PayloadLength(buffer)
           p == PayloadOf(buffer)
           f == [payload |-> p, ends |-> g + FrameSize(buffer)]
<1>1. /\ n \in Nat /\ n >= 4 /\ HeaderOk(buffer) /\ l <= MaxPayload
      /\ n >= FrameSize(buffer) /\ PayloadOk(buffer)
    BY BufferIs DEF EmitFrame, Round, Announces, HeaderSize, TrailerSize
<1>2. /\ g \in Nat /\ arrived = g + n /\ arrived <= Len(stream) /\ Len(stream) \in Nat
      /\ buffer \in Seq(Cell) /\ \A i \in 1 .. n : buffer[i] = stream[g + i]
    BY BufferIs
<1>3. l \in Nat /\ buffer[3] = Rest(l)
    <2>1. 3 \in 1 .. n
        BY <1>1
    <2>2. buffer[3] \in Cell
        BY <1>2, <2>1, ElementOfSeq
    <2>3. buffer[3][1] = "length" /\ l = buffer[3][2]
        BY <1>1 DEF HeaderOk, PayloadLength, HeaderSize
    <2>4. QED
        BY <2>2, <2>3, KindsOfCells
<1>4. /\ FrameSize(buffer) = l + 4
      /\ p \in Seq(Cell) /\ Len(p) = l
      /\ buffer[FrameSize(buffer)] = stream[g + l + 4]
      /\ buffer[FrameSize(buffer)] \in Cell
    BY <1>1, <1>3, PayloadOfIs
<1>5. buffer[FrameSize(buffer)] = Crc(p)
    BY <1>1 DEF PayloadOk
<1>6. p \in Payload
    BY <1>4, <1>5, KindsOfCells
<1> HIDE DEF n, g, l, p
<1>7. stream[g + 3] = Rest(l)
    <2>1. 3 \in 1 .. n
        BY <1>1
    <2>2. QED
        BY <1>2, <1>3, <2>1
<1>8. [payload |-> p, ends |-> g + l + 4] \in sent
    <2> DEFINE k == g + l + 4
    <2>1. k \in 1 .. Len(stream) /\ k > l + 1 /\ k - l - 1 = g + 3
        BY <1>1, <1>2, <1>3, <1>4
    <2>2. stream[k] = Crc(p) /\ stream[k - l - 1] = Rest(l)
        BY <1>4, <1>5, <1>7, <2>1
    <2>3. CrcEnds(stream, sent, k)
        BY <2>1 DEF FrameInv, StreamInv
    <2> HIDE DEF k
    <2>4. [payload |-> p, ends |-> k] \in sent
        BY <1>1, <1>4, <1>6, <2>1, <2>2, <2>3 DEF CrcEnds, l
    <2>5. QED
        BY <2>4 DEF k
<1>9. g + l + 4 = g + FrameSize(buffer) /\ FrameSize(buffer) \in Nat /\ FrameSize(buffer) >= 4
    BY <1>2, <1>3, <1>4
<1>10. f \in sent
    BY <1>8, <1>9
<1>11. StartOf(f) = g + 1
    <2>1. f \in Frame
        BY <1>10 DEF FrameInv, StreamInv
    <2>2. f.payload = p /\ f.ends = g + l + 4
        BY <1>9
    <2> HIDE DEF f
    <2>3. StartOf(f) = f.ends - (Len(f.payload) + 3)
        BY <2>1, FramePlace
    <2>4. QED
        BY <1>2, <1>3, <1>4, <2>2, <2>3
<1>12. QED
    BY <1>9, <1>10, <1>11 DEF f, g, p

LEMMA EmitFrameKeeps ==
    ASSUME FrameInv, EmitFrame
    PROVE  FrameInv'
<1> DEFINE g == Gone
           z == FrameSize(buffer)
           f == [payload |-> PayloadOf(buffer), ends |-> g + z]
           i == z + 1
           e == emitted
<1>1. f \in sent /\ StartOf(f) = g + 1 /\ z \in Nat /\ z >= 4 /\ f.ends = g + z
    BY AcceptedIsClean
<1>2. /\ buffer' = From(buffer, i) /\ emitted' = Append(e, f) /\ Len(buffer) >= z
      /\ stream' = stream /\ arrived' = arrived /\ sent' = sent /\ cut' = cut
    BY DEF EmitFrame
<1>3. g \in Nat /\ Len(buffer) \in Nat
    BY BufferIs
<1> HIDE DEF f, z, g
<1>4. i \in 1 .. Len(buffer) + 1 /\ g + i - 1 = g + z
    BY <1>1, <1>2, <1>3
<1>5. EmittedTo(e, cut, g) /\ e \in Seq(Frame) /\ f \in Frame
    BY <1>1 DEF FrameInv, StreamInv, EmittedTo, g
<1> DEFINE m == Len(e)
<1>6. /\ emitted' \in Seq(Frame) /\ m \in Nat
      /\ DOMAIN e = 1 .. m /\ DOMAIN emitted' = 1 .. m + 1
      /\ \A k \in 1 .. m : emitted'[k] = e[k]
      /\ emitted'[m + 1] = f
    <2>1. /\ emitted' \in Seq(Frame) /\ Len(emitted') = Len(e) + 1
          /\ (\A k \in 1 .. Len(e) : emitted'[k] = e[k]) /\ emitted'[Len(e) + 1] = f
        BY <1>2, <1>5, AppendProperties
    <2>2. QED
        BY <1>5, <2>1, LenProperties
<1> HIDE DEF m, e
<1>7. \A k \in 1 .. m : e[k] \in sent /\ e[k].ends <= g /\ e[k].ends \in Nat
    <2> TAKE k \in 1 .. m
    <2>1. e[k] \in sent /\ e[k].ends <= g
        BY <1>5, <1>6 DEF EmittedTo
    <2>2. e[k] \in Frame
        BY <2>1 DEF FrameInv, StreamInv
    <2>3. QED
        BY <2>1, <2>2, FramePlace
<1>8. ASSUME NEW k \in 1 .. m + 1 PROVE emitted'[k] \in sent /\ emitted'[k].ends <= g + z
    <2>1. CASE k = m + 1
        BY <1>1, <1>3, <1>6, <2>1
    <2>2. CASE k # m + 1
        <3>1. k \in 1 .. m
            BY <1>6, <2>2
        <3>2. QED
            BY <1>1, <1>3, <1>6, <1>7, <3>1
    <2>3. QED
        BY <2>1, <2>2
<1>9. ASSUME NEW k \in 1 .. m + 1, NEW j \in 1 .. m + 1, k < j
      PROVE  emitted'[k].ends < emitted'[j].ends
    <2>1. k \in 1 .. m
        BY <1>6, <1>9
    <2>2. CASE j = m + 1
        BY <1>1, <1>3, <1>6, <1>7, <2>1, <2>2
    <2>3. CASE j # m + 1
        <3>1. j \in 1 .. m
            BY <1>6, <2>3
        <3>2. e[k].ends < e[j].ends
            BY <1>5, <1>6, <1>9, <2>1, <3>1 DEF EmittedTo
        <3>3. QED
            BY <1>6, <2>1, <3>1, <3>2
    <2>4. QED
        BY <2>2, <2>3
<1>10. ASSUME NEW h \in sent \ cut
       PROVE  (\E k \in 1 .. m + 1 : emitted'[k] = h) \/ StartOf(h) > g + z
    <2>1. CASE h = f
        <3>1. m + 1 \in 1 .. m + 1
            BY <1>6
        <3>2. QED
            BY <1>6, <2>1, <3>1
    <2>2. CASE \E k \in 1 .. m : e[k] = h
        <3>1. 1 .. m \subseteq 1 .. m + 1
            BY <1>6
        <3>2. QED
            BY <1>6, <2>2, <3>1
    <2>3. CASE h # f /\ StartOf(h) > g
        <3>1. Apart(h, f)
            BY <1>1, <2>3 DEF FrameInv, StreamInv
        <3>2. h \in Frame
            BY DEF FrameInv, StreamInv
        <3>3. /\ h.ends \in Nat /\ Len(h.payload) \in Nat /\ StartOf(h) \in Int
              /\ StartOf(h) = h.ends - (Len(h.payload) + 3)
            BY <3>2, FramePlace
        <3>4. ~(h.ends < StartOf(f))
            BY <1>1, <1>3, <2>3, <3>3
        <3>5. f.ends < StartOf(h)
            BY <3>1, <3>4 DEF Apart
        <3>6. QED
            BY <1>1, <1>3, <3>3, <3>5
    <2>4. (\E k \in 1 .. m : e[k] = h) \/ StartOf(h) > g
        BY <1>5, <1>6 DEF EmittedTo
    <2>5. QED
        BY <2>1, <2>2, <2>3, <2>4
<1>11. EmittedTo(emitted', cut, g + z)
    BY <1>6, <1>8, <1>9, <1>10 DEF EmittedTo
<1>12. EmittedTo(emitted', cut, Gone + i - 1)
    BY <1>4, <1>11 DEF g
<1>13. QED
    BY <1>2, <1>4, <1>12, SkipKeeps

LEMMA PushKeepsPiece ==
    ASSUME FrameInv, NEW n \in 1 .. Len(stream) - arrived, Push(n)
    PROVE  FrameInv'
<1> DEFINE a == arrived
           b == buffer
           d == SubSeq(stream, a + 1, a + n)
           m == Len(b)
<1>1. /\ b \in Seq(Cell) /\ m \in Nat /\ a \in Nat /\ a = Gone + m /\ Gone \in Nat
      /\ \A i \in 1 .. m : b[i] = stream[Gone + i]
      /\ stream \in Seq(Cell) /\ a <= Len(stream) /\ Len(stream) \in Nat
    BY BufferIs
<1>2. /\ buffer' = b \o d /\ arrived' = a + n
      /\ stream' = stream /\ sent' = sent /\ emitted' = emitted /\ cut' = cut
    BY DEF Push
<1>3. n \in Nat /\ n >= 1 /\ a + n <= Len(stream)
    BY <1>1
<1>4. d \in Seq(Cell) /\ Len(d) = n /\ \A i \in 1 .. n : d[i] = stream[a + i]
    <2> DEFINE lo == a + 1
               hi == a + n
               s == SubSeq(stream, lo, hi)
    <2>1. /\ lo \in Int /\ hi \in Int /\ hi - lo + 1 = n /\ lo <= hi
          /\ \A i \in lo .. hi : i \in 1 .. Len(stream)
          /\ \A i \in 1 .. n : lo + i - 1 = a + i
        BY <1>1, <1>3
    <2> HIDE DEF lo, hi
    <2>2. \A i \in lo .. hi : stream[i] \in Cell
        BY <1>1, <2>1, ElementOfSeq
    <2>3. /\ s \in Seq(Cell) /\ Len(s) = IF lo <= hi THEN hi - lo + 1 ELSE 0
          /\ \A i \in 1 .. hi - lo + 1 : s[i] = stream[lo + i - 1]
        BY <2>1, <2>2, SubSeqProperties
    <2> HIDE DEF s
    <2>4. s \in Seq(Cell) /\ Len(s) = n /\ \A i \in 1 .. n : s[i] = stream[a + i]
        BY <2>1, <2>3
    <2>5. s = d
        BY DEF s, lo, hi
    <2>6. QED
        BY <2>4, <2>5
<1> HIDE DEF d
<1>5. /\ b \o d \in Seq(Cell) /\ Len(b \o d) = m + n
      /\ \A i \in 1 .. m : (b \o d)[i] = b[i]
      /\ \A i \in 1 .. n : (b \o d)[m + i] = d[i]
    BY <1>1, <1>4, JoinedIs
<1> DEFINE w == b \o d
<1> HIDE DEF w
<1>6. ASSUME NEW i \in 1 .. m + n PROVE w[i] = stream[Gone + i]
    <2> HIDE DEF m, a
    <2>1. CASE i <= m
        <3>1. i \in 1 .. m
            BY <1>1, <2>1
        <3>2. QED
            BY <1>1, <1>5, <3>1 DEF w
    <2>2. CASE i > m
        <3> DEFINE j == i - m
        <3>1. j \in 1 .. n /\ m + j = i /\ a + j = Gone + i
            BY <1>1, <1>3, <2>2
        <3> HIDE DEF j
        <3>2. w[m + j] = d[j] /\ d[j] = stream[a + j]
            BY <1>4, <1>5, <3>1 DEF w
        <3>3. QED
            BY <3>1, <3>2
    <2>3. QED
        BY <1>1, <1>3, <2>1, <2>2
<1>7. Gone' = Gone /\ Gone = (a + n) - (m + n)
    <2>1. Gone' = (a + n) - (m + n)
        <3> HIDE DEF m, a
        <3>1. Gone' = arrived' - Len(buffer')
            BY DEF Gone
        <3>2. Len(buffer') = m + n /\ arrived' = a + n
            BY <1>2, <1>5
        <3>3. QED
            BY <3>1, <3>2
    <2>2. Gone = (a + n) - (m + n)
        BY <1>1, <1>3
    <2>3. QED
        BY <2>1, <2>2
<1>8. IsPiece(buffer)'
    <2>1. buffer' = w /\ w \in Seq(Cell) /\ Len(w) = m + n /\ m + n <= a + n
        BY <1>1, <1>2, <1>3, <1>5 DEF w
    <2>2. \A i \in 1 .. m + n : w[i] = stream[(a + n) - (m + n) + i]
        BY <1>6, <1>7
    <2> HIDE DEF m, a
    <2>3. arrived' = a + n /\ stream' = stream
        BY <1>2 DEF a
    <2>4. QED
        BY <2>1, <2>2, <2>3 DEF IsPiece
<1>9. EmittedTo(emitted, cut, Gone)'
    BY <1>2, <1>7 DEF FrameInv, EmittedTo
<1>10. StreamInv(stream, sent)'
    BY <1>2 DEF FrameInv
<1>11. arrived' \in Nat /\ arrived' <= Len(stream')
    BY <1>1, <1>2, <1>3
<1>12. QED
    BY <1>8, <1>9, <1>10, <1>11 DEF FrameInv

LEMMA ResetKeeps ==
    ASSUME FrameInv, Reset
    PROVE  FrameInv'
<1>1. /\ buffer' = <<>> /\ cut' = cut \cup {f \in sent : StartOf(f) > Gone /\ StartOf(f) <= arrived}
      /\ stream' = stream /\ arrived' = arrived /\ sent' = sent /\ emitted' = emitted
    BY DEF Reset
<1>2. Gone \in Nat /\ arrived \in Nat /\ Len(buffer) \in Nat /\ arrived = Gone + Len(buffer)
    BY BufferIs
<1>3. buffer' \in Seq(Cell) /\ Len(buffer') = 0
    BY <1>1, EmptySeq
<1>4. Gone' = arrived
    BY <1>1, <1>2, <1>3 DEF Gone
<1>5. IsPiece(buffer)'
    BY <1>1, <1>2, <1>3 DEF IsPiece
<1>6. EmittedTo(emitted, cut, Gone)
    BY DEF FrameInv
<1>7. ASSUME NEW i \in DOMAIN emitted PROVE emitted[i] \in sent /\ emitted[i].ends <= arrived
    <2>1. emitted[i] \in sent /\ emitted[i].ends <= Gone /\ emitted[i] \in Frame
        BY <1>6 DEF EmittedTo, FrameInv, StreamInv
    <2>2. emitted[i].ends \in Nat
        BY <2>1, FramePlace
    <2>3. QED
        BY <1>2, <2>1, <2>2
<1>8. ASSUME NEW f \in sent \ cut'
      PROVE  (\E i \in DOMAIN emitted : emitted[i] = f) \/ StartOf(f) > arrived
    <2>1. f \in sent \ cut /\ ~(StartOf(f) > Gone /\ StartOf(f) <= arrived)
        BY <1>1
    <2>2. StartOf(f) \in Int
        <3>1. f \in Frame
            BY DEF FrameInv, StreamInv
        <3>2. QED
            BY <3>1, FramePlace
    <2>3. (\E i \in DOMAIN emitted : emitted[i] = f) \/ StartOf(f) > Gone
        BY <1>6, <2>1 DEF EmittedTo
    <2>4. QED
        BY <1>2, <2>1, <2>2, <2>3
<1>9. EmittedTo(emitted, cut, Gone)'
    BY <1>1, <1>4, <1>6, <1>7, <1>8 DEF EmittedTo
<1>10. StreamInv(stream, sent)' /\ arrived' \in Nat /\ arrived' <= Len(stream')
    BY <1>1 DEF FrameInv
<1>11. QED
    BY <1>5, <1>9, <1>10 DEF FrameInv

\* What the rounds of the decoder keep.
LEMMA FrameInvAlways == FrameSpec => []FrameInv
<1>1. FrameInit => FrameInv
    <2> SUFFICES ASSUME FrameInit PROVE FrameInv
        OBVIOUS
    <2>1. /\ stream = <<>> /\ arrived = 0 /\ buffer = <<>> /\ emitted = <<>>
          /\ sent = {} /\ cut = {}
        BY DEF FrameInit
    <2>2. stream \in Seq(Cell) /\ Len(stream) = 0 /\ buffer \in Seq(Cell) /\ Len(buffer) = 0
        BY <2>1, EmptySeq
    <2>3. emitted \in Seq(Frame) /\ DOMAIN emitted = {}
        BY <2>1, EmptySeq
    <2>4. StreamInv(stream, sent)
        BY <2>1, <2>2 DEF StreamInv
    <2>5. IsPiece(buffer)
        BY <2>1, <2>2 DEF IsPiece
    <2>6. EmittedTo(emitted, cut, Gone)
        BY <2>1, <2>3 DEF EmittedTo
    <2>7. QED
        BY <2>1, <2>2, <2>4, <2>5, <2>6 DEF FrameInv
<1>2. FrameInv /\ [FrameNext]_frameVars => FrameInv'
    <2> SUFFICES ASSUME FrameInv, [FrameNext]_frameVars PROVE FrameInv'
        OBVIOUS
    <2>1. CASE \E p \in Payload : SendFrame(p)
        BY <2>1, SendFrameKeeps
    <2>2. CASE \E d \in Dirt : SendDirt(d)
        BY <2>2, SendDirtKeeps
    <2>3. CASE \E n \in 1 .. Len(stream) - arrived : Push(n)
        BY <2>3, PushKeepsPiece
    <2>4. CASE Reset
        BY <2>4, ResetKeeps
    <2>5. CASE Resync
        BY <2>5, ResyncKeeps
    <2>6. CASE SkipMagic
        BY <2>6, SkipMagicKeeps
    <2>7. CASE EmitFrame
        BY <2>7, EmitFrameKeeps
    <2>8. CASE Return \/ UNCHANGED frameVars
        <3>1. /\ stream' = stream /\ arrived' = arrived /\ buffer' = buffer
              /\ emitted' = emitted /\ sent' = sent /\ cut' = cut
            BY <2>8 DEF Return, frameVars
        <3>2. Gone' = Gone /\ IsPiece(buffer)' /\ EmittedTo(emitted, cut, Gone)'
            BY <3>1 DEF Gone, IsPiece, EmittedTo, FrameInv
        <3>3. QED
            BY <3>1, <3>2 DEF FrameInv
    <2>9. QED
        BY <2>1, <2>2, <2>3, <2>4, <2>5, <2>6, <2>7, <2>8 DEF FrameNext
<1>3. QED
    BY <1>1, <1>2, PTL DEF FrameSpec

\* Whatever is on the wire and however it is cut into chunks, what comes out is the clean
\* frames, in order and once, and all that arrived unless a header still waits for its
\* frame.
THEOREM CleanFramesComeOut == FrameSpec => []FramesComeOut
<1>1. FrameInv => FramesComeOut
    <2> SUFFICES ASSUME FrameInv PROVE FramesComeOut
        OBVIOUS
    <2>1. EmittedTo(emitted, cut, Gone)
        BY DEF FrameInv
    <2>2. Gone \in Nat /\ Len(buffer) \in Nat /\ arrived \in Nat /\ arrived = Gone + Len(buffer)
        BY BufferIs
    <2>3. ASSUME Len(buffer) < 4, NEW f \in sent \ cut, f.ends <= arrived
          PROVE  \E i \in DOMAIN emitted : emitted[i] = f
        <3>1. f \in Frame
            BY DEF FrameInv, StreamInv
        <3>2. /\ f.ends \in Nat /\ Len(f.payload) \in Nat
              /\ StartOf(f) = f.ends - (Len(f.payload) + 3)
            BY <3>1, FramePlace
        <3>3. ~(StartOf(f) > Gone)
            BY <2>2, <2>3, <3>2
        <3>4. QED
            BY <2>1, <3>3 DEF EmittedTo
    <2>4. QED
        BY <2>1, <2>3 DEF FramesComeOut, EmittedTo, HeaderSize, TrailerSize
<1>2. QED
    BY <1>1, FrameInvAlways, PTL

-----------------------------------------------------------------------------
(* The parts together.                                                     *)

\* A behaviour of all parts, of which one moves, is a behaviour of each.
LEMMA PartsBegin ==
    ClusterInit => /\ Init /\ LockInit /\ SwimInit /\ JointInit /\ RateInit
                   /\ FrameInit /\ ClockInit /\ HeapInit
BY ListsAssumption DEF ClusterInit, JointInit, Configuration

LEMMA PartsStep ==
    [ClusterNext]_<<NotHeap, heapVars>> =>
        /\ [Next]_vars /\ [LockNext]_lockVars /\ [SwimNext]_swimVars /\ [JointNext]_jointVars
        /\ [RateNext]_rateVars /\ [FrameNext]_frameVars /\ [ClockNext]_clockVars /\ [HeapNext]_heapVars
<1> USE DEF NotLeases, NotLocks, NotSwim, NotJoint, NotRate, NotFrames, NotClocks, NotHeap
<1> SUFFICES ASSUME [ClusterNext]_<<NotHeap, heapVars>>
             PROVE  /\ [Next]_vars /\ [LockNext]_lockVars /\ [SwimNext]_swimVars /\ [JointNext]_jointVars
                    /\ [RateNext]_rateVars /\ [FrameNext]_frameVars /\ [ClockNext]_clockVars /\ [HeapNext]_heapVars
    OBVIOUS
<1>1. CASE Next /\ UNCHANGED NotLeases
    BY <1>1
<1>2. CASE LockNext /\ UNCHANGED NotLocks
    BY <1>2
<1>3. CASE SwimNext /\ UNCHANGED NotSwim
    BY <1>3
<1>4. CASE JointNext /\ UNCHANGED NotJoint
    BY <1>4
<1>5. CASE RateNext /\ UNCHANGED NotRate
    BY <1>5
<1>6. CASE FrameNext /\ UNCHANGED NotFrames
    BY <1>6
<1>7. CASE ClockNext /\ UNCHANGED NotClocks
    BY <1>7
<1>8. CASE HeapNext /\ UNCHANGED NotHeap
    BY <1>8
<1>9. CASE UNCHANGED <<NotHeap, heapVars>>
    BY <1>9
<1>10. QED
    BY <1>1, <1>2, <1>3, <1>4, <1>5, <1>6, <1>7, <1>8, <1>9 DEF ClusterNext

\* What is proved of the parts holds of the state they share a run in: every part keeps
\* its types, whatever the others do.
THEOREM TypesStay == ClusterSpec => []TypesOK
<1>1. ClusterSpec => Spec /\ LockSpec /\ SwimSpec /\ JointSpec /\ RateSpec
    BY PartsBegin, PartsStep, PTL DEF ClusterSpec, Spec, LockSpec, SwimSpec, JointSpec, RateSpec
<1>2. TypeOK /\ LockTypeOK /\ SwimTypeOK /\ JointTypeOK /\ RateTypeOK => TypesOK
    BY DEF TypesOK
<1>3. QED
    BY <1>1, <1>2, TypeCorrect, LockTypes, SwimTypes, JointTypes, RateTypes, PTL
=============================================================================
