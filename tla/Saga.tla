-------------------------------- MODULE Saga --------------------------------
(***************************************************************************)
(* SagaOrchestrator.execute of packages/scheduler/src/saga_orchestrator.js *)
(* and the effects its steps have on the world.                            *)
(***************************************************************************)
EXTENDS Integers, Sequences, SequencesExt

CONSTANT Steps     \* the number of steps

ASSUME SagaAssumption == Steps \in Nat

VARIABLES
    phase,           \* "forward", "backward", "succeeded" or "failed"
    executedSteps,
    undone,          \* steps whose compensation was awaited, in this order
    effect,          \* what each step has left behind: "none", "part" or "all"
    broken           \* steps whose execution or compensation threw

sagaVars == <<phase, executedSteps, undone, effect, broken>>

Current == Len(executedSteps) + 1
Ended == phase \in {"succeeded", "failed"}

-----------------------------------------------------------------------------
ExecuteStep ==
    /\ phase = "forward" /\ Current <= Steps
    /\ effect' = [effect EXCEPT ![Current] = "all"]
    /\ executedSteps' = Append(executedSteps, Current)
    /\ UNCHANGED <<phase, undone, broken>>

\* A step that throws may have done a part of its work; it is not in the list.
StepThrows ==
    /\ phase = "forward" /\ Current <= Steps
    /\ \E left \in {"none", "part"} : effect' = [effect EXCEPT ![Current] = left]
    /\ broken' = broken \cup {Current}
    /\ phase' = "backward"
    /\ UNCHANGED <<executedSteps, undone>>

Succeed == /\ phase = "forward" /\ Current > Steps
           /\ phase' = "succeeded"
           /\ UNCHANGED <<executedSteps, undone, effect, broken>>

\* A mutant: the compensations run in the order of execution.
NextInOrder == executedSteps[Len(undone) + 1]

\* The next element of the reversed list.
NextToUndo == Reverse(executedSteps)[Len(undone) + 1]

\* A compensation runs; that it throws changes nothing in the loop.
Compensate(throws) ==
    /\ phase = "backward" /\ Len(undone) < Len(executedSteps)
    /\ undone' = Append(undone, NextToUndo)
    /\ IF throws THEN broken' = broken \cup {NextToUndo} /\ UNCHANGED effect
       ELSE effect' = [effect EXCEPT ![NextToUndo] = "none"] /\ UNCHANGED broken
    /\ UNCHANGED <<phase, executedSteps>>

Fail == /\ phase = "backward" /\ Len(undone) = Len(executedSteps)
        /\ phase' = "failed"
        /\ UNCHANGED <<executedSteps, undone, effect, broken>>

-----------------------------------------------------------------------------
SagaInit ==
    /\ phase = "forward" /\ executedSteps = <<>> /\ undone = <<>>
    /\ effect = [s \in 1 .. Steps |-> "none"] /\ broken = {}

SagaNext == \/ ExecuteStep \/ StepThrows \/ Succeed \/ Fail
            \/ \E throws \in BOOLEAN : Compensate(throws)

SagaSpec == SagaInit /\ [][SagaNext]_sagaVars

-----------------------------------------------------------------------------
SagaTypeOK ==
    /\ phase \in {"forward", "backward", "succeeded", "failed"}
    /\ executedSteps \in Seq(1 .. Steps) /\ undone \in Seq(1 .. Steps)
    /\ effect \in [1 .. Steps -> {"none", "part", "all"}]
    /\ broken \subseteq 1 .. Steps

\* At every moment the steps in effect are the first ones executed, those whose
\* compensation threw and the one that threw half-way: nothing is undone while a later
\* step still stands on it, and a saga that ended leaves nothing of a healthy step.
UndoneInReverse ==
    /\ \A s, t \in 1 .. Steps :
          s < t /\ effect[t] # "none" /\ t \notin broken => effect[s] = "all"
    /\ phase = "succeeded" => \A s \in 1 .. Steps : effect[s] = "all"
    /\ phase = "failed" => \A s \in 1 .. Steps \ broken : effect[s] = "none"
=============================================================================
