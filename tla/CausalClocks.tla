---------------------------- MODULE CausalClocks ----------------------------
(***************************************************************************)
(* The vector clocks of packages/core/src/vector_clock.js, used as such    *)
(* clocks are: a node increments its own counter at every event, a message *)
(* carries a clone, and its receipt merges the clone and is an event.      *)
(***************************************************************************)
EXTENDS Integers, Sequences, FiniteSets

CONSTANTS
    Site,          \* ids of nodes
    MaxHappened    \* bound on the events

VARIABLES
    clocks,    \* entries of each node's clock
    happened     \* history: each event's clock, with the places of those that caused it

clockVars == <<clocks, happened>>

EmptyClock == [s \in {} |-> 0]

\* get: a node that has no entry counts as 0.
Entry(c, s) == IF s \in DOMAIN c THEN c[s] ELSE 0

Increment(c, s) ==
    [t \in DOMAIN c \cup {s} |-> IF t = s THEN Entry(c, s) + 1 ELSE c[t]]

MaxOf(a, b) == IF a > b THEN a ELSE b

\* A mutant: the other's entries replace this one's.
Overwrite(c, other) ==
    [s \in DOMAIN c \cup DOMAIN other |-> IF s \in DOMAIN other THEN other[s] ELSE c[s]]

\* merge.
Merge(c, other) ==
    [s \in DOMAIN c \cup DOMAIN other |->
        IF s \in DOMAIN other THEN MaxOf(Entry(c, s), other[s]) ELSE c[s]]

\* A mutant: only the entries that this one has are compared.
CompareOwn(c, other) ==
    LET greater == \E s \in DOMAIN c : c[s] > Entry(other, s)
        lesser == \E s \in DOMAIN c : c[s] < Entry(other, s)
    IN  CASE greater /\ lesser -> "CONCURRENT"
          [] greater /\ ~lesser -> "AFTER"
          [] ~greater /\ lesser -> "BEFORE"
          [] OTHER -> "EQUAL"

\* compare: of the one to the other, over the entries of both.
Compare(c, other) ==
    LET nodes == DOMAIN c \cup DOMAIN other
        greater == \E s \in nodes : Entry(c, s) > Entry(other, s)
        lesser == \E s \in nodes : Entry(c, s) < Entry(other, s)
    IN  CASE greater /\ lesser -> "CONCURRENT"
          [] greater /\ ~lesser -> "AFTER"
          [] ~greater /\ lesser -> "BEFORE"
          [] OTHER -> "EQUAL"

\* The last event of a node, if there is one, and all that caused it.
PastOf(s) ==
    LET own == {i \in DOMAIN happened : happened[i].site = s}
    IN  own \cup UNION {happened[i].past : i \in own}

Happens(s, clock, past) ==
    /\ Len(happened) < MaxHappened
    /\ clocks' = [clocks EXCEPT ![s] = clock]
    /\ happened' = Append(happened, [site |-> s, clock |-> clock, past |-> past])

\* A node acts, or sends: a clone of its clock goes with the message.
LocalEvent(s) == Happens(s, Increment(clocks[s], s), PastOf(s))

\* A node hears of an event of another, in any order and any number of times.
Hear(s) ==
    \E i \in DOMAIN happened :
        /\ happened[i].site # s
        /\ Happens(s, Increment(Merge(clocks[s], happened[i].clock), s),
                   PastOf(s) \cup {i} \cup happened[i].past)

ClockInit == clocks = [s \in Site |-> EmptyClock] /\ happened = <<>>

ClockNext == \E s \in Site : LocalEvent(s) \/ Hear(s)

ClockSpec == ClockInit /\ [][ClockNext]_clockVars

-----------------------------------------------------------------------------
\* compare tells what happened: one event's clock is before another's if and only
\* if the one is among the causes of the other, and two events neither of which
\* caused the other are concurrent, whichever entries their clocks have.
CompareIsCausality ==
    \A i, j \in DOMAIN happened :
        Compare(happened[i].clock, happened[j].clock) =
            CASE i = j -> "EQUAL"
              [] i \in happened[j].past -> "BEFORE"
              [] j \in happened[i].past -> "AFTER"
              [] OTHER -> "CONCURRENT"
=============================================================================
