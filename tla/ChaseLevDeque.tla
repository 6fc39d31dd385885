---------------------------- MODULE ChaseLevDeque ----------------------------
(***************************************************************************)
(* packages/worker/src/chase_lev_deque.js: a ring of slots between two     *)
(* indices that only grow, doubled when it is nearly full.  All callers    *)
(* are on one thread, so that a call is a step.                            *)
(***************************************************************************)
EXTENDS Integers, Sequences, FiniteSets

CONSTANTS Item, Nothing, InitialCapacity,
          MaxPushes     \* bound of the exploration

ASSUME DequeAssumption == InitialCapacity \in Nat \ {0} /\ Nothing \notin Item

VARIABLES buffer, top, bottom, taken, pushes

dequeVars == <<buffer, top, bottom, taken, pushes>>

Capacity(b) == Cardinality(DOMAIN b)
Slot(b, i) == i % Capacity(b)

-----------------------------------------------------------------------------
\* A mutant: the slots are copied to where they are in the old ring.
GrownInPlace(b, t, n) ==
    [s \in 0 .. 2 * Capacity(b) - 1 |-> IF s < Capacity(b) THEN b[s] ELSE Nothing]

\* A ring of twice the size with the tasks from t to n.
Grown(b, t, n) ==
    LET wide == 2 * Capacity(b)
    IN  [s \in 0 .. wide - 1 |->
            LET held == {i \in t .. n - 1 : i % wide = s}
            IN  IF held = {} THEN Nothing ELSE b[Slot(b, CHOOSE i \in held : TRUE)]]

PushBottom(task) ==
    /\ pushes < MaxPushes
    /\ LET room == IF bottom - top >= Capacity(buffer) - 1
                   THEN Grown(buffer, top, bottom) ELSE buffer
       IN  buffer' = [room EXCEPT ![Slot(room, bottom)] = task]
    /\ bottom' = bottom + 1
    /\ taken' = Nothing /\ pushes' = pushes + 1
    /\ UNCHANGED top

\* pop of an empty deque sets bottom to top, of one task moves both beyond it.
PopBottom ==
    LET b == bottom - 1
    IN  /\ IF b < top
           THEN taken' = Nothing /\ bottom' = top /\ UNCHANGED <<buffer, top>>
           ELSE /\ taken' = buffer[Slot(buffer, b)]
                /\ buffer' = [buffer EXCEPT ![Slot(buffer, b)] = Nothing]
                /\ IF b > top THEN bottom' = b /\ UNCHANGED top
                   ELSE top' = top + 1 /\ bottom' = top + 1
        /\ UNCHANGED pushes

\* steal does not clear the slot it leaves.
StealTop ==
    /\ IF bottom <= top THEN taken' = Nothing /\ UNCHANGED top
       ELSE taken' = buffer[Slot(buffer, top)] /\ top' = top + 1
    /\ UNCHANGED <<buffer, bottom, pushes>>

-----------------------------------------------------------------------------
DequeInit ==
    /\ buffer = [s \in 0 .. InitialCapacity - 1 |-> Nothing]
    /\ top = 0 /\ bottom = 0 /\ taken = Nothing /\ pushes = 0

DequeNext == (\E task \in Item : PushBottom(task)) \/ PopBottom \/ StealTop

DequeSpec == DequeInit /\ [][DequeNext]_dequeVars

-----------------------------------------------------------------------------
DequeTypeOK ==
    /\ top \in Nat /\ bottom \in Nat /\ top <= bottom
    /\ bottom - top <= Capacity(buffer)
    /\ \A s \in DOMAIN buffer : buffer[s] \in Item \cup {Nothing}

Items == [i \in 1 .. bottom - top |-> buffer[Slot(buffer, top + i - 1)]]

Sequential == INSTANCE SequenceDeque WITH Task <- Item, items <- Items

\* The ring is a deque: no task is lost, doubled or overtaken while indices run round
\* the ring, pops meet steals at one task, and the ring is doubled anywhere.
DequeIsSequence == Sequential!Spec
=============================================================================
