------------------------------- MODULE Worker -------------------------------
(***************************************************************************)
(* The worker daemon of packages/worker: its deque of assigned tasks, the  *)
(* child processes it runs and the map of active tasks that bounds them.   *)
(***************************************************************************)
EXTENDS Integers, Sequences, FiniteSets

CONSTANTS
    Concurrency,      \* executor slots
    MaxWorkerStops    \* a bound of the exploration

ASSUME ConcurrencyAssumption == Concurrency \in Nat \ {0}

VARIABLES
    running,      \* isRunning
    deque,        \* localDeque: the owner pushes and pops at the end
    active,       \* the keys of activeTasks: ids of tasks
    executing,    \* the items whose child process has not ended
    resuming,     \* finished runs that have yet to call _processNext
    stops         \* how often the worker was stopped, for the bound

workerVars == <<running, deque, active, executing, resuming, stops>>

-----------------------------------------------------------------------------
\* A mutant: one task more than there are slots.
HasSlotLate == running /\ Cardinality(active) <= Concurrency

HasSlot == running /\ Cardinality(active) < Concurrency

\* Starts the last of the given items if a slot is free.  The map of active
\* tasks is keyed by the id of the task alone.
ProcessNext(items) ==
    IF HasSlot /\ items # <<>>
    THEN LET item == items[Len(items)]
         IN  /\ deque' = SubSeq(items, 1, Len(items) - 1)
             /\ active' = active \cup {item.task}
             /\ executing' = executing \cup {item}
    ELSE deque' = items /\ UNCHANGED <<active, executing>>

AssignTask(item) ==
    /\ ProcessNext(Append(deque, item))
    /\ UNCHANGED <<running, resuming, stops>>

\* A mutant: the slot is freed only on an error.
FinishKeepsSlot(item) ==
    /\ item \in executing
    /\ executing' = executing \ {item}
    /\ resuming' = resuming + 1
    /\ UNCHANGED <<running, deque, active, stops>>

\* The child process ends: the slot is freed and the result reported, before
\* the next task is looked for in a later turn.
Finish(item) ==
    /\ item \in executing
    /\ executing' = executing \ {item}
    /\ active' = active \ {item.task}
    /\ resuming' = resuming + 1
    /\ UNCHANGED <<running, deque, stops>>

\* A mutant: a finished run looks for no next task.
NoResume ==
    /\ resuming > 0
    /\ resuming' = resuming - 1
    /\ UNCHANGED <<running, deque, active, executing, stops>>

Resume ==
    /\ resuming > 0
    /\ resuming' = resuming - 1
    /\ ProcessNext(deque)
    /\ UNCHANGED <<running, stops>>

\* What runs goes on, what waits stays in the deque.
StopWorker ==
    /\ running /\ stops < MaxWorkerStops
    /\ running' = FALSE
    /\ stops' = stops + 1
    /\ UNCHANGED <<deque, active, executing, resuming>>

\* Nothing is taken from the deque.
StartWorker ==
    /\ ~running
    /\ running' = TRUE
    /\ UNCHANGED <<deque, active, executing, resuming, stops>>

WorkerInit ==
    /\ running = TRUE
    /\ deque = <<>>
    /\ active = {}
    /\ executing = {}
    /\ resuming = 0
    /\ stops = 0
=============================================================================
