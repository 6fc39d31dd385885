------------------------------ MODULE Scheduler ------------------------------
(***************************************************************************)
(* The workflow scheduler of packages/scheduler: dag_scheduler.js with the *)
(* workflow instances, the retry timers and the dead letters it owns.      *)
(*                                                                         *)
(* A submitted job is an object of its own, numbered in order of           *)
(* submission: the scheduler finds the object by the job's id, a retry     *)
(* timer holds on to the object it was set for.                            *)
(***************************************************************************)
EXTENDS Integers, Sequences, FiniteSets

CONSTANTS
    Job,             \* the ids of jobs
    Task,            \* the ids of tasks: two jobs may use the same
    Deps,            \* Deps[j][t]: what task t of job j depends on
    Priority,        \* Priority[j]: of every task of job j
    MaxRetries,      \* maxRetries of every task
    MaxSubmissions   \* of one job: a bound of the exploration

ASSUME TaskAssumption  == IsFiniteSet(Task)
ASSUME DepsAssumption  ==
    \A j \in Job : /\ DOMAIN Deps[j] \subseteq Task
                   /\ Deps[j] \in [DOMAIN Deps[j] -> SUBSET DOMAIN Deps[j]]
\* What compile lets through (module DagCompiler): every set of tasks has one that
\* waits for none of the set.
ASSUME AcyclicAssumption ==
    \A j \in Job : \A ts \in (SUBSET DOMAIN Deps[j]) \ {{}} :
        \E t \in ts : Deps[j][t] \cap ts = {}
ASSUME RetryAssumption == MaxRetries \in Nat /\ \A j \in Job : Priority[j] \in Int

VARIABLES
    instances,   \* instances[k]: the k-th WorkflowInstance
    current,     \* current[j]: the instance the scheduler keeps for j, or 0
    taskQueue,   \* the ready tasks that a call is about to dispatch
    timers,      \* the retries that wait for their backoff
    dead         \* dead[t]: the instance whose task t is quarantined, or 0

schedulerVars == <<instances, current, taskQueue, timers, dead>>

-----------------------------------------------------------------------------
Tasks(j) == DOMAIN Deps[j]

NewInstance(j) ==
    [job   |-> j,
     state |-> "RUNNING",
     tasks |-> [t \in Tasks(j) |-> [state |-> "PENDING", attempts |-> 0]]]

Completed(w) == {t \in DOMAIN w.tasks : w.tasks[t].state = "COMPLETED"}

\* A mutant: one dependency is enough.
ReadyTasksOfAny(w) ==
    {t \in DOMAIN w.tasks : /\ w.state = "RUNNING" /\ w.tasks[t].state = "PENDING"
                            /\ \/ Deps[w.job][t] = {}
                               \/ Deps[w.job][t] \cap Completed(w) # {}}

GetReadyTasks(w) ==
    {t \in DOMAIN w.tasks : /\ w.state = "RUNNING" /\ w.tasks[t].state = "PENDING"
                            /\ Deps[w.job][t] \subseteq Completed(w)}

\* A mutant: the last completion is forgotten.
MarkTaskCompletedOnly(w, t) == [w EXCEPT !.tasks[t].state = "COMPLETED"]

\* The state of the task and of the workflow before are not looked at.
MarkTaskCompleted(w, t) ==
    LET done == [w EXCEPT !.tasks[t].state = "COMPLETED"]
    IN  IF Completed(done) = DOMAIN done.tasks THEN [done EXCEPT !.state = "COMPLETED"]
                                               ELSE done

\* A mutant: one attempt more than was asked for.
MarkTaskFailedLate(w, t) ==
    LET tried == [w EXCEPT !.tasks[t].attempts = @ + 1]
    IN  IF w.tasks[t].attempts <= MaxRetries
        THEN [tried EXCEPT !.tasks[t].state = "RETRYING"]
        ELSE [tried EXCEPT !.tasks[t].state = "FAILED", !.state = "FAILED"]

MarkTaskFailed(w, t) ==
    LET tried == [w EXCEPT !.tasks[t].attempts = @ + 1]
    IN  IF tried.tasks[t].attempts <= MaxRetries
        THEN [tried EXCEPT !.tasks[t].state = "RETRYING"]
        ELSE [tried EXCEPT !.tasks[t].state = "FAILED", !.state = "FAILED"]

\* What goes to a worker.  instance and attempt are not in the message; they
\* tell apart the runs of one task.
Item(k, w, t) ==
    [job |-> w.job, task |-> t, instance |-> k, attempt |-> w.tasks[t].attempts]

\* A mutant: the ready tasks are queued and not marked.
KeepTasksPending(w, ready) == w

SetRunning(w, ready) ==
    [w EXCEPT !.tasks = [t \in DOMAIN w.tasks |->
        IF t \in ready THEN [w.tasks[t] EXCEPT !.state = "RUNNING"] ELSE w.tasks[t]]]

\* Puts w in the place of instance k, with its ready tasks queued.
ScheduleReadyTasks(insts, k, w) ==
    LET ready == GetReadyTasks(w)
    IN  /\ instances' = [insts EXCEPT ![k] = SetRunning(w, ready)]
        /\ taskQueue' = taskQueue \cup {Item(k, w, t) : t \in ready}

-----------------------------------------------------------------------------
\* A job that was submitted before under the same id is replaced.
SubmitWorkflow(j) ==
    LET k == Len(instances) + 1
    IN  /\ Cardinality({i \in DOMAIN instances : instances[i].job = j}) < MaxSubmissions
        /\ current' = [current EXCEPT ![j] = k]
        /\ ScheduleReadyTasks(Append(instances, NewInstance(j)), k, NewInstance(j))
        /\ UNCHANGED <<timers, dead>>

\* The highest priority leaves the heap first, equals in any order.
PopTask(item) ==
    /\ item \in taskQueue
    /\ \A other \in taskQueue : Priority[item.job] >= Priority[other.job]
    /\ taskQueue' = taskQueue \ {item}
    /\ UNCHANGED <<instances, current, timers, dead>>

TaskSucceeded(k, w, t) ==
    LET done == MarkTaskCompleted(w, t)
    IN  /\ IF done.state = "COMPLETED"
           THEN instances' = [instances EXCEPT ![k] = done] /\ UNCHANGED taskQueue
           ELSE ScheduleReadyTasks(instances, k, done)
        /\ UNCHANGED <<current, timers, dead>>

\* The dead letters are kept by the id of the task alone.
TaskFailed(k, w, t) ==
    LET tried == MarkTaskFailed(w, t)
    IN  /\ instances' = [instances EXCEPT ![k] = tried]
        /\ IF tried.tasks[t].state = "RETRYING"
           THEN timers' = timers \cup {Item(k, tried, t)} /\ UNCHANGED dead
           ELSE dead' = [dead EXCEPT ![t] = k] /\ UNCHANGED timers
        /\ UNCHANGED <<current, taskQueue>>

\* A result carries the id of its job: it goes to whatever instance has it now.
HandleTaskResult(item, succeeded) ==
    LET k == current[item.job]
    IN  IF succeeded THEN TaskSucceeded(k, instances[k], item.task)
                     ELSE TaskFailed(k, instances[k], item.task)

\* A mutant: the task is queued with the state it has.
RetryTimerKeepsState(timer) ==
    /\ timer \in timers
    /\ timers' = timers \ {timer}
    /\ ScheduleReadyTasks(instances, timer.instance, instances[timer.instance])
    /\ UNCHANGED <<current, dead>>

RetryTimer(timer) ==
    LET k == timer.instance
        w == [instances[k] EXCEPT !.tasks[timer.task].state = "PENDING"]
    IN  /\ timer \in timers
        /\ timers' = timers \ {timer}
        /\ ScheduleReadyTasks(instances, k, w)
        /\ UNCHANGED <<current, dead>>

SchedulerInit ==
    /\ instances = <<>>
    /\ current = [j \in Job |-> 0]
    /\ taskQueue = {}
    /\ timers = {}
    /\ dead = [t \in Task |-> 0]
=============================================================================
