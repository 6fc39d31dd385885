------------------------------ MODULE JobEngine ------------------------------
(***************************************************************************)
(* The scheduler and the worker of one server, as apps/server/server.js    *)
(* connects them: the event 'dispatchTask' assigns the task to the worker, *)
(* the worker reports a result by a call of handleTaskResult.              *)
(*                                                                         *)
(* Calls run to completion.  The tasks that a call found ready are taken   *)
(* from the queue one by one before anything else happens.                 *)
(***************************************************************************)
EXTENDS Scheduler, Worker, Functions

vars == <<schedulerVars, workerVars>>

Idle == taskQueue = {}

Submit(j) == Idle /\ SubmitWorkflow(j) /\ UNCHANGED workerVars

Dispatch == \E item \in taskQueue : PopTask(item) /\ AssignTask(item)

Report(item, succeeded) ==
    Idle /\ Finish(item) /\ HandleTaskResult(item, succeeded)

Continue == Idle /\ Resume /\ UNCHANGED schedulerVars

Retry == Idle /\ (\E timer \in timers : RetryTimer(timer)) /\ UNCHANGED workerVars

Stop == Idle /\ StopWorker /\ UNCHANGED schedulerVars

Start == Idle /\ StartWorker /\ UNCHANGED schedulerVars

Init == SchedulerInit /\ WorkerInit

Next ==
    \/ \E j \in Job : Submit(j)
    \/ Dispatch
    \/ \E item \in executing, succeeded \in BOOLEAN : Report(item, succeeded)
    \/ Continue
    \/ Retry
    \/ Stop
    \/ Start

Spec == Init /\ [][Next]_vars

\* Every child process ends, after its timeout at the latest, as it does if it
\* obeys SIGTERM (module Supervisor); the turns of the event loop and its timers
\* come.  A client need not submit anything.
Fairness ==
    /\ WF_vars(Dispatch)
    /\ WF_vars(\E item \in executing, succeeded \in BOOLEAN : Report(item, succeeded))
    /\ WF_vars(Continue)
    /\ WF_vars(Retry)

FairSpec == Spec /\ Fairness

-----------------------------------------------------------------------------
States == {"PENDING", "RUNNING", "RETRYING", "COMPLETED", "FAILED"}

ItemType == [job : Job, task : Task, instance : Nat, attempt : Nat]

IsInstance(w) ==
    /\ w.job \in Job
    /\ w.state \in {"RUNNING", "COMPLETED", "FAILED"}
    /\ w.tasks \in [Tasks(w.job) -> [state : States, attempts : Nat]]

Outstanding == taskQueue \cup Range(deque) \cup executing

\* The types; and the map of active tasks holds the ids of the tasks that run.
TypeOK ==
    /\ DOMAIN instances = 1..Len(instances) /\ \A w \in Range(instances) : IsInstance(w)
    /\ current \in [Job -> 0..Len(instances)]
    /\ taskQueue \subseteq ItemType /\ timers \subseteq ItemType
    /\ dead \in [Task -> 0..Len(instances)]
    /\ running \in BOOLEAN /\ resuming \in Nat /\ stops \in Nat
    /\ deque \in Seq(ItemType) /\ executing \subseteq ItemType
    /\ active \subseteq {item.task : item \in executing}

\* A task is RUNNING as long as exactly one run of it is queued, assigned or
\* executed, and RETRYING as long as its timer is set: no run is lost between
\* the scheduler and the worker, and none is made twice.
RunsAreTracked ==
    \A k \in DOMAIN instances : \A t \in DOMAIN instances[k].tasks :
        LET mine(items) == {i \in items : i.instance = k /\ i.task = t}
            task == instances[k].tasks[t]
        IN  /\ Cardinality(mine(Outstanding)) = IF task.state = "RUNNING" THEN 1 ELSE 0
            /\ Cardinality(mine(timers)) = IF task.state = "RETRYING" THEN 1 ELSE 0

\* No more child processes than slots, though the slots are counted by a map
\* with the ids of tasks for keys.
SlotsRespected == Cardinality(executing) <= Concurrency

\* A worker that was never stopped leaves no task waiting beside a free slot:
\* every finished run and every assigned task makes the attempt to start one.
NoIdleSlot ==
    Idle /\ stops = 0 /\ resuming = 0 /\ deque # <<>> => Cardinality(active) >= Concurrency

\* A task that completed stays so, and a workflow that is over stays as it is,
\* though the handlers of results look at neither.
OverIsOver ==
    [][\A k \in DOMAIN instances :
        LET old == instances[k]
            new == instances'[k]
        IN  /\ old.state # "RUNNING" => new.state = old.state
            /\ Completed(old) \subseteq Completed(new)]_vars

\* Every submitted workflow ends, unless the worker is stopped.
WorkflowsEnd ==
    \A k \in 1..Cardinality(Job) * MaxSubmissions :
        k \in DOMAIN instances ~>
            stops > 0 \/ (k \in DOMAIN instances /\ instances[k].state # "RUNNING")

-----------------------------------------------------------------------------
(* The contract, of the only submission of each job.                       *)

InstanceOf(j) == instances[current[j]]

JobStates == [j \in Job |-> IF current[j] = 0 THEN "NONE" ELSE InstanceOf(j).state]

JobsDone == [j \in Job |-> IF current[j] = 0 THEN {} ELSE Completed(InstanceOf(j))]

JobsRun == [j \in Job |-> {i.task : i \in {e \in executing : e.job = j}}]

JobsFailed ==
    [j \in Job |-> [t \in Tasks(j) |->
        IF current[j] = 0 THEN 0 ELSE InstanceOf(j).tasks[t].attempts]]

Contract ==
    INSTANCE WorkflowContract WITH
        state <- JobStates, done <- JobsDone, runs <- JobsRun, failures <- JobsFailed

\* The engine runs tasks in the order, as often and with the outcome promised.
KeepsContract == Contract!Spec
=============================================================================
