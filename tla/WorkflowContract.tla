-------------------------- MODULE WorkflowContract --------------------------
(***************************************************************************)
(* What the engine promises of one submission of each job, whatever the    *)
(* scheduler and the workers do inside: a task is run after its            *)
(* dependencies, one run at a time, at most MaxRetries times again; the    *)
(* job is completed with its last task and failed with a task's last run.  *)
(***************************************************************************)
EXTENDS Integers

CONSTANTS Job, Deps, MaxRetries

VARIABLES
    state,      \* of every job
    done,       \* done[j]: the tasks of j that have completed
    runs,       \* runs[j]: the tasks of j that are being run
    failures    \* failures[j][t]: the runs of task t of j that failed

vars == <<state, done, runs, failures>>

Tasks(j) == DOMAIN Deps[j]

Init ==
    /\ state = [j \in Job |-> "NONE"]
    /\ done = [j \in Job |-> {}]
    /\ runs = [j \in Job |-> {}]
    /\ failures = [j \in Job |-> [t \in Tasks(j) |-> 0]]

Submit(j) ==
    /\ state[j] = "NONE"
    /\ state' = [state EXCEPT ![j] = "RUNNING"]
    /\ UNCHANGED <<done, runs, failures>>

Run(j, t) ==
    /\ state[j] # "NONE"
    /\ t \in Tasks(j) \ (done[j] \cup runs[j])
    /\ Deps[j][t] \subseteq done[j]
    /\ failures[j][t] <= MaxRetries
    /\ runs' = [runs EXCEPT ![j] = @ \cup {t}]
    /\ UNCHANGED <<state, done, failures>>

Complete(j, t) ==
    /\ t \in runs[j]
    /\ runs' = [runs EXCEPT ![j] = @ \ {t}]
    /\ done' = [done EXCEPT ![j] = @ \cup {t}]
    /\ state' = [state EXCEPT ![j] = IF done'[j] = Tasks(j) THEN "COMPLETED" ELSE @]
    /\ UNCHANGED failures

Fail(j, t) ==
    /\ t \in runs[j]
    /\ runs' = [runs EXCEPT ![j] = @ \ {t}]
    /\ failures' = [failures EXCEPT ![j][t] = @ + 1]
    /\ state' = [state EXCEPT ![j] = IF failures'[j][t] > MaxRetries THEN "FAILED" ELSE @]
    /\ UNCHANGED done

Next ==
    \E j \in Job : \/ Submit(j)
                   \/ \E t \in Tasks(j) : Run(j, t) \/ Complete(j, t) \/ Fail(j, t)

Spec == Init /\ [][Next]_vars
=============================================================================
