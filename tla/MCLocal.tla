------------------------------- MODULE MCLocal -------------------------------
(***************************************************************************)
(* The parts of one process that share no state, for TLC: part says which  *)
(* of them a behaviour is about, the others stay as they begin.  The       *)
(* states of the run are the sum of the parts, not their product.          *)
(***************************************************************************)
EXTENDS DagCompiler, Supervisor, Saga, ChaseLevDeque, LsmTree, SegmentedLog, Snapshots

CONSTANT Parts
VARIABLE part

\* Two states of two chunks and one of one.
ChunkCounts == <<2, 1, 2>>

\* Each set of dependencies, named once, in some order.
NamedOnce == {SetToSeq(ids) : ids \in SUBSET (Task \cup Unknown)}

NoDependencies == [t \in Task |-> <<>>]

\* All variables but those of a part.
NotDag == <<supVars, sagaVars, dequeVars, lsmVars, logVars, snapVars, part>>
NotSup == <<dagVars, sagaVars, dequeVars, lsmVars, logVars, snapVars, part>>
NotSaga == <<dagVars, supVars, dequeVars, lsmVars, logVars, snapVars, part>>
NotDeque == <<dagVars, supVars, sagaVars, lsmVars, logVars, snapVars, part>>
NotLsm == <<dagVars, supVars, sagaVars, dequeVars, logVars, snapVars, part>>
NotLog == <<dagVars, supVars, sagaVars, dequeVars, lsmVars, snapVars, part>>
NotSnap == <<dagVars, supVars, sagaVars, dequeVars, lsmVars, logVars, part>>

Init ==
    /\ part \in Parts
    /\ IF part = "dag" THEN DagInit ELSE deps = NoDependencies /\ DagInit
    /\ SupInit /\ SagaInit /\ DequeInit /\ LsmInit /\ LogInit /\ SnapInit

Next ==
    \/ part = "dag" /\ DagNext /\ UNCHANGED NotDag
    \/ part = "supervisor" /\ SupNext /\ UNCHANGED NotSup
    \/ part = "saga" /\ SagaNext /\ UNCHANGED NotSaga
    \/ part = "deque" /\ DequeNext /\ UNCHANGED NotDeque
    \/ part = "lsm" /\ LsmNext /\ UNCHANGED NotLsm
    \/ part = "log" /\ LogNext /\ UNCHANGED NotLog
    \/ part = "snapshots" /\ SnapNext /\ UNCHANGED NotSnap

vars == <<NotDag, dagVars>>

\* The fair actions of the supervisor are enabled after a step of it only.
FairSpec == Init /\ [][Next]_vars /\ SupFairness

\* The types of all parts, with what each says of the order of its state.
TypesOK == /\ DagTypeOK /\ SupTypeOK /\ SagaTypeOK /\ DequeTypeOK
           /\ LsmTypeOK /\ LogTypeOK /\ SnapTypeOK
=============================================================================
