----------------------------- MODULE DagCompiler -----------------------------
(***************************************************************************)
(* Kahn's algorithm as packages/scheduler/src/dag_compiler.js has it: the  *)
(* check of every submitted job, and its division into stages.  One step   *)
(* is one turn of the loop over stages.  The order of the tasks within a   *)
(* stage is left out.                                                      *)
(***************************************************************************)
EXTENDS Integers, Sequences, FiniteSets, Functions

CONSTANTS
    Task,       \* the tasks of the job
    Unknown,    \* ids a job may name that are no task of it
    DependencyLists   \* the lists a task may name its dependencies in

ASSUME InputAssumption ==
    IsFiniteSet(Task) /\ Task \cap Unknown = {} /\ DependencyLists \subseteq Seq(Task \cup Unknown)

VARIABLES
    deps,       \* deps[t]: the dependencies of t
    inDegree,
    stages,     \* those made so far
    stage,      \* currentStage
    result      \* "none", "running", or how compile ends

dagVars == <<deps, inDegree, stages, stage, result>>

-----------------------------------------------------------------------------
\* The tasks a task waits for, and those that wait for it.
Needed(t) == Range(deps[t])
Outgoing(d) == {t \in Task : d \in Needed(t)}

\* A mutant: a task is ready with its first dependency.
ReadyOnce(before, left) == {t \in Task : before[t] > 0 /\ left[t] < before[t]}

\* The tasks whose last dependency went.
Ready(before, left) == {t \in Task : before[t] > 0 /\ left[t] = 0}

\* A mutant: one task too few is enough.
AllButOneSorted == Cardinality(UNION Range(stages)) >= Cardinality(Task) - 1

AllSorted == Cardinality(UNION Range(stages)) >= Cardinality(Task)

\* A name counts each time in the degree, but once in the set of dependents.
CountEdges ==
    /\ result = "none"
    /\ IF \E t \in Task : ~(Needed(t) \subseteq Task)
       THEN result' = "unknown" /\ UNCHANGED <<inDegree, stage>>
       ELSE /\ result' = "running"
            /\ inDegree' = [t \in Task |-> Len(deps[t])]
            /\ stage' = {t \in Task : inDegree'[t] = 0}
    /\ UNCHANGED <<deps, stages>>

MakeStage ==
    LET left == [t \in Task |->
                    inDegree[t] - Cardinality({d \in stage : t \in Outgoing(d)})]
    IN  /\ result = "running" /\ stage # {}
        /\ stages' = Append(stages, stage)
        /\ inDegree' = left
        /\ stage' = Ready(inDegree, left)
        /\ UNCHANGED <<deps, result>>

CheckCycle ==
    /\ result = "running" /\ stage = {}
    /\ result' = IF AllSorted THEN "compiled" ELSE "cycle"
    /\ UNCHANGED <<deps, inDegree, stages, stage>>

DagInit ==
    /\ deps \in [Task -> DependencyLists]
    /\ inDegree = [t \in Task |-> 0]
    /\ stages = <<>>
    /\ stage = {}
    /\ result = "none"

DagNext == CountEdges \/ MakeStage \/ CheckCycle

DagSpec == DagInit /\ [][DagNext]_dagVars

-----------------------------------------------------------------------------
\* A set of tasks each of which waits for another one of the set.
Cyclic ==
    \E ts \in (SUBSET Task) \ {{}} : \A t \in ts : Needed(t) \cap ts # {}

\* A job is refused for a cycle if it has one, and only then.
RefusedIfCyclic ==
    result \in {"compiled", "cycle"} => (result = "cycle" <=> Cyclic)

\* The types; a task is in one stage at most, and ready with no degree left.
DagTypeOK ==
    /\ inDegree \in [Task -> Nat]
    /\ result \in {"none", "running", "unknown", "compiled", "cycle"}
    /\ stage \subseteq {t \in Task : inDegree[t] = 0}
    /\ \A i \in DOMAIN stages : stages[i] \subseteq Task \ stage
    /\ \A i, j \in DOMAIN stages : i # j => stages[i] \cap stages[j] = {}

\* Every stage is as early as it can be: a task is in the stage after the last
\* of its dependencies, so that the tasks of one stage can run side by side.
StagesAreDepths ==
    \A i \in DOMAIN stages : \A t \in stages[i] :
        /\ Needed(t) \subseteq UNION {stages[j] : j \in 1..(i - 1)}
        /\ i > 1 => Needed(t) \cap stages[i - 1] # {}
=============================================================================
