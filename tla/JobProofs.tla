----------------------------- MODULE JobProofs ------------------------------
(***************************************************************************)
(* Theorems about the scheduler with its worker, for any jobs, numbers of  *)
(* retries and slots, any order of the results and any stops of the        *)
(* worker, when no id of a job is submitted twice.                         *)
(***************************************************************************)
EXTENDS JobEngine, FiniteSetTheorems, SequenceTheorems, TLAPS

USE TaskAssumption, DepsAssumption, RetryAssumption, ConcurrencyAssumption

\* What the engine needs of its clients: a job is submitted once.
SubmittedOnce == MaxSubmissions = 1

-----------------------------------------------------------------------------
(* Instances.                                                              *)

TaskRecord == [state : States, attempts : Nat]

WorkflowInstance ==
    UNION {[job : {j}, state : {"RUNNING", "COMPLETED", "FAILED"},
            tasks : [Tasks(j) -> TaskRecord]] : j \in Job}

\* x is w but for what became of task t, and of the workflow with it.
Moves(w, x, t) ==
    /\ x \in WorkflowInstance
    /\ x.job = w.job
    /\ \A u \in Tasks(w.job) \ {t} : x.tasks[u] = w.tasks[u]

LEMMA InstanceFields ==
    ASSUME NEW w \in WorkflowInstance
    PROVE  /\ w.job \in Job /\ w.state \in {"RUNNING", "COMPLETED", "FAILED"}
           /\ w.tasks \in [Tasks(w.job) -> TaskRecord]
           /\ DOMAIN w.tasks = Tasks(w.job)
           /\ w = [job |-> w.job, state |-> w.state, tasks |-> w.tasks]
           /\ \A t \in Tasks(w.job) :
                /\ w.tasks[t].state \in States /\ w.tasks[t].attempts \in Nat
                /\ w.tasks[t] = [state |-> w.tasks[t].state, attempts |-> w.tasks[t].attempts]
<1>1. PICK j \in Job : w \in [job : {j}, state : {"RUNNING", "COMPLETED", "FAILED"},
                              tasks : [Tasks(j) -> TaskRecord]]
    BY DEF WorkflowInstance
<1>2. \A r \in TaskRecord : /\ r.state \in States /\ r.attempts \in Nat
                            /\ r = [state |-> r.state, attempts |-> r.attempts]
    BY DEF TaskRecord
<1>3. w.job = j /\ w.tasks \in [Tasks(j) -> TaskRecord]
    BY <1>1
<1>4. QED
    BY <1>1, <1>2, <1>3

LEMMA MakeInstance ==
    ASSUME NEW j \in Job, NEW s \in {"RUNNING", "COMPLETED", "FAILED"},
           NEW f \in [Tasks(j) -> TaskRecord]
    PROVE  [job |-> j, state |-> s, tasks |-> f] \in WorkflowInstance
BY DEF WorkflowInstance

LEMMA NewInstanceFields ==
    ASSUME NEW j \in Job
    PROVE  /\ NewInstance(j) \in WorkflowInstance
           /\ NewInstance(j).job = j /\ NewInstance(j).state = "RUNNING"
           /\ \A t \in Tasks(j) : NewInstance(j).tasks[t] = [state |-> "PENDING", attempts |-> 0]
           /\ Completed(NewInstance(j)) = {}
<1> DEFINE f == [t \in Tasks(j) |-> [state |-> "PENDING", attempts |-> 0]]
<1>1. f \in [Tasks(j) -> TaskRecord] /\ NewInstance(j) = [job |-> j, state |-> "RUNNING", tasks |-> f]
    BY DEF TaskRecord, States, NewInstance
<1>2. Completed(NewInstance(j)) = {}
    BY DEF Completed, NewInstance
<1>3. \A t \in Tasks(j) : f[t] = [state |-> "PENDING", attempts |-> 0]
    OBVIOUS
<1> HIDE DEF f
<1>4. QED
    BY <1>1, <1>2, <1>3, MakeInstance

\* One task and the workflow get a new state.
Put(w, t, r, s) == [job |-> w.job, state |-> s, tasks |-> [w.tasks EXCEPT ![t] = r]]

LEMMA SetTask ==
    ASSUME NEW w \in WorkflowInstance, NEW t \in Tasks(w.job), NEW r \in TaskRecord,
           NEW s \in {"RUNNING", "COMPLETED", "FAILED"},
           NEW x, x = Put(w, t, r, s)
    PROVE  /\ Moves(w, x, t) /\ x.state = s /\ x.tasks[t] = r
           /\ Completed(x) = IF r.state = "COMPLETED" THEN Completed(w) \cup {t}
                                                      ELSE Completed(w) \ {t}
<1> DEFINE f == [w.tasks EXCEPT ![t] = r]
<1>1. w.job \in Job /\ w.tasks \in [Tasks(w.job) -> TaskRecord]
    BY InstanceFields
<1>2. /\ f \in [Tasks(w.job) -> TaskRecord] /\ f[t] = r
      /\ \A u \in Tasks(w.job) \ {t} : f[u] = w.tasks[u]
    BY <1>1
<1>3. x = [job |-> w.job, state |-> s, tasks |-> f]
    BY DEF Put
<1> HIDE DEF f
<1>4. x \in WorkflowInstance /\ x.job = w.job /\ x.state = s /\ x.tasks = f
    BY <1>1, <1>2, <1>3, MakeInstance
<1>5. Moves(w, x, t) /\ x.tasks[t] = r
    BY <1>2, <1>4 DEF Moves
<1>6. Completed(x) = {u \in Tasks(w.job) : f[u].state = "COMPLETED"}
    BY <1>2, <1>4 DEF Completed
<1>7. Completed(w) = {u \in Tasks(w.job) : w.tasks[u].state = "COMPLETED"}
    BY <1>1 DEF Completed
<1>8. CASE r.state = "COMPLETED"
    <2>1. Completed(x) = Completed(w) \cup {t}
        BY <1>2, <1>6, <1>7, <1>8
    <2>2. QED
        BY <1>4, <1>5, <1>8, <2>1
<1>9. CASE r.state # "COMPLETED"
    <2>1. Completed(x) = Completed(w) \ {t}
        BY <1>2, <1>6, <1>7, <1>9
    <2>2. QED
        BY <1>4, <1>5, <1>9, <2>1
<1>10. QED
    BY <1>8, <1>9

LEMMA CompletedMove ==
    ASSUME NEW w \in WorkflowInstance, NEW t \in Tasks(w.job)
    PROVE  LET x == MarkTaskCompleted(w, t) IN
           /\ Moves(w, x, t)
           /\ x.tasks[t] = [state |-> "COMPLETED", attempts |-> w.tasks[t].attempts]
           /\ Completed(x) = Completed(w) \cup {t}
           /\ x.state = IF Completed(x) = Tasks(w.job) THEN "COMPLETED" ELSE w.state
<1> DEFINE r    == [w.tasks[t] EXCEPT !.state = "COMPLETED"]
           f    == [w.tasks EXCEPT ![t] = r]
           done == [w EXCEPT !.tasks = f]
           over == [done EXCEPT !.state = "COMPLETED"]
           x    == MarkTaskCompleted(w, t)
<1>1. /\ w.state \in {"RUNNING", "COMPLETED", "FAILED"}
      /\ w = [job |-> w.job, state |-> w.state, tasks |-> w.tasks]
      /\ w.tasks[t] = [state |-> w.tasks[t].state, attempts |-> w.tasks[t].attempts]
      /\ w.tasks[t].attempts \in Nat
    BY InstanceFields
<1>2. r = [state |-> "COMPLETED", attempts |-> w.tasks[t].attempts] /\ r \in TaskRecord
    BY <1>1 DEF TaskRecord, States
<1>3. x = IF Completed(done) = DOMAIN done.tasks THEN over ELSE done
    BY DEF MarkTaskCompleted
<1> HIDE DEF r, x, f
<1>4. done = [job |-> w.job, state |-> w.state, tasks |-> f]
    BY <1>1
<1> HIDE DEF done
<1>5. over = [job |-> w.job, state |-> "COMPLETED", tasks |-> f]
    BY <1>4
<1> HIDE DEF over
<1>6. /\ r.state = "COMPLETED" /\ done = Put(w, t, r, w.state)
      /\ over = Put(w, t, r, "COMPLETED")
    BY <1>2, <1>4, <1>5 DEF f, Put
<1>7. /\ Moves(w, done, t) /\ done.state = w.state /\ done.tasks[t] = r
      /\ Completed(done) = Completed(w) \cup {t}
    BY <1>1, <1>2, <1>6, SetTask
<1>8. /\ Moves(w, over, t) /\ over.state = "COMPLETED" /\ over.tasks[t] = r
      /\ Completed(over) = Completed(w) \cup {t}
    BY <1>1, <1>2, <1>6, SetTask
<1>9. DOMAIN done.tasks = Tasks(w.job)
    BY <1>7, InstanceFields DEF Moves
<1>10. CASE Completed(done) = Tasks(w.job)
    BY <1>2, <1>3, <1>7, <1>8, <1>9, <1>10 DEF x
<1>11. CASE Completed(done) # Tasks(w.job)
    BY <1>2, <1>3, <1>7, <1>9, <1>11 DEF x
<1>12. QED
    BY <1>10, <1>11

LEMMA FailedMove ==
    ASSUME NEW w \in WorkflowInstance, NEW t \in Tasks(w.job),
           w.tasks[t].state # "COMPLETED"
    PROVE  LET x == MarkTaskFailed(w, t)
               a == w.tasks[t].attempts + 1
           IN  /\ Moves(w, x, t) /\ Completed(x) = Completed(w)
               /\ x.tasks[t] = [state |-> IF a <= MaxRetries THEN "RETRYING" ELSE "FAILED",
                                attempts |-> a]
               /\ x.state = IF a <= MaxRetries THEN w.state ELSE "FAILED"
<1> DEFINE a      == w.tasks[t].attempts + 1
           q      == [w.tasks[t] EXCEPT !.attempts = a]
           tried  == [w EXCEPT !.tasks = [w.tasks EXCEPT ![t] = q]]
           r      == [state |-> IF a <= MaxRetries THEN "RETRYING" ELSE "FAILED", attempts |-> a]
           s      == IF a <= MaxRetries THEN w.state ELSE "FAILED"
           x      == MarkTaskFailed(w, t)
           f      == [w.tasks EXCEPT ![t] = r]
<1>1. /\ w.state \in {"RUNNING", "COMPLETED", "FAILED"} /\ t \in DOMAIN w.tasks
      /\ w = [job |-> w.job, state |-> w.state, tasks |-> w.tasks]
      /\ w.tasks[t] = [state |-> w.tasks[t].state, attempts |-> w.tasks[t].attempts]
      /\ w.tasks[t].attempts \in Nat /\ w.tasks \in [Tasks(w.job) -> TaskRecord]
    BY InstanceFields
<1>2. a \in Nat /\ r \in TaskRecord /\ s \in {"RUNNING", "COMPLETED", "FAILED"}
    BY <1>1 DEF TaskRecord, States
<1>3. x = [job |-> w.job, state |-> s, tasks |-> f]
    <2>1. q = [state |-> w.tasks[t].state, attempts |-> a]
        BY <1>1
    <2>2. tried = [job |-> w.job, state |-> w.state, tasks |-> [w.tasks EXCEPT ![t] = q]]
        BY <1>1
    <2>3. tried.tasks[t] = q /\ tried.tasks[t].attempts = a
        BY <1>1, <2>1, <2>2
    <2>4. CASE a <= MaxRetries
        <3>1. x = [tried EXCEPT !.tasks = [tried.tasks EXCEPT ![t] =
                                              [tried.tasks[t] EXCEPT !.state = "RETRYING"]]]
            BY <2>3, <2>4 DEF MarkTaskFailed
        <3>2. [tried.tasks[t] EXCEPT !.state = "RETRYING"] = r
            BY <2>1, <2>3, <2>4
        <3>3. [tried.tasks EXCEPT ![t] = r] = f
            BY <1>1, <2>2
        <3> HIDE DEF x, f, r, q, a
        <3>4. QED
            BY <2>2, <2>4, <3>1, <3>2, <3>3
    <2>5. CASE ~(a <= MaxRetries)
        <3>1. x = [[tried EXCEPT !.tasks = [tried.tasks EXCEPT ![t] =
                                              [tried.tasks[t] EXCEPT !.state = "FAILED"]]]
                   EXCEPT !.state = "FAILED"]
            BY <2>3, <2>5 DEF MarkTaskFailed
        <3>2. [tried.tasks[t] EXCEPT !.state = "FAILED"] = r
            BY <2>1, <2>3, <2>5
        <3>3. [tried.tasks EXCEPT ![t] = r] = f
            BY <1>1, <2>2
        <3> HIDE DEF x, f, r, q, a
        <3>4. QED
            BY <2>2, <2>5, <3>1, <3>2, <3>3
    <2>6. QED
        BY <2>4, <2>5
<1>4. r.state # "COMPLETED" /\ t \notin Completed(w)
    BY DEF Completed
<1> HIDE DEF r, s, x
<1>5. x = Put(w, t, r, s)
    BY <1>3 DEF Put
<1>6. Moves(w, x, t) /\ x.state = s /\ x.tasks[t] = r /\ Completed(x) = Completed(w) \ {t}
    BY <1>2, <1>4, <1>5, SetTask
<1>7. QED
    BY <1>4, <1>6 DEF r, s, x

LEMMA PendingMove ==
    ASSUME NEW w \in WorkflowInstance, NEW t \in Tasks(w.job),
           w.tasks[t].state # "COMPLETED"
    PROVE  LET x == [w EXCEPT !.tasks[t].state = "PENDING"]
           IN  /\ Moves(w, x, t) /\ x.state = w.state /\ Completed(x) = Completed(w)
               /\ x.tasks[t] = [state |-> "PENDING", attempts |-> w.tasks[t].attempts]
<1> DEFINE r == [w.tasks[t] EXCEPT !.state = "PENDING"]
           f == [w.tasks EXCEPT ![t] = r]
           x == [w EXCEPT !.tasks = f]
<1>1. /\ w.state \in {"RUNNING", "COMPLETED", "FAILED"}
      /\ w = [job |-> w.job, state |-> w.state, tasks |-> w.tasks]
      /\ w.tasks[t] = [state |-> w.tasks[t].state, attempts |-> w.tasks[t].attempts]
      /\ w.tasks[t].attempts \in Nat
    BY InstanceFields
<1>2. r = [state |-> "PENDING", attempts |-> w.tasks[t].attempts] /\ r \in TaskRecord
    BY <1>1 DEF TaskRecord, States
<1>3. t \notin Completed(w)
    BY DEF Completed
<1> HIDE DEF r
<1>4. x = Put(w, t, r, w.state)
    BY <1>1 DEF Put
<1> HIDE DEF x
<1>5. r.state # "COMPLETED"
    BY <1>2
<1>6. /\ Moves(w, x, t) /\ x.state = w.state /\ x.tasks[t] = r
      /\ Completed(x) = Completed(w) \ {t}
    BY <1>1, <1>2, <1>4, <1>5, SetTask
<1>7. QED
    BY <1>2, <1>3, <1>6 DEF x, r

LEMMA ReadyTasks ==
    ASSUME NEW w \in WorkflowInstance
    PROVE  /\ GetReadyTasks(w) \subseteq Tasks(w.job)
           /\ w.state # "RUNNING" => GetReadyTasks(w) = {}
           /\ \A t \in GetReadyTasks(w) : /\ w.tasks[t].state = "PENDING"
                                         /\ Deps[w.job][t] \subseteq Completed(w)
BY InstanceFields DEF GetReadyTasks

LEMMA SetRunningFields ==
    ASSUME NEW w \in WorkflowInstance, NEW ready \in SUBSET Tasks(w.job),
           \A t \in ready : w.tasks[t].state = "PENDING"
    PROVE  LET x == SetRunning(w, ready) IN
           /\ x \in WorkflowInstance /\ x.job = w.job /\ x.state = w.state
           /\ Completed(x) = Completed(w)
           /\ \A t \in Tasks(w.job) :
                /\ x.tasks[t].attempts = w.tasks[t].attempts
                /\ x.tasks[t].state = IF t \in ready THEN "RUNNING" ELSE w.tasks[t].state
           /\ ready = {} => x = w
<1> DEFINE g == [t \in Tasks(w.job) |->
                    IF t \in ready THEN [w.tasks[t] EXCEPT !.state = "RUNNING"] ELSE w.tasks[t]]
           x == SetRunning(w, ready)
<1>1. /\ w.job \in Job /\ w.state \in {"RUNNING", "COMPLETED", "FAILED"}
      /\ w = [job |-> w.job, state |-> w.state, tasks |-> w.tasks]
      /\ w.tasks \in [Tasks(w.job) -> TaskRecord] /\ DOMAIN w.tasks = Tasks(w.job)
    BY InstanceFields
<1>2. ASSUME NEW t \in Tasks(w.job)
      PROVE  /\ g[t] \in TaskRecord /\ g[t].attempts = w.tasks[t].attempts
             /\ g[t].state = IF t \in ready THEN "RUNNING" ELSE w.tasks[t].state
    <2>1. /\ w.tasks[t] = [state |-> w.tasks[t].state, attempts |-> w.tasks[t].attempts]
          /\ w.tasks[t].state \in States /\ w.tasks[t].attempts \in Nat
        BY InstanceFields
    <2>2. CASE t \in ready
        <3>1. g[t] = [state |-> "RUNNING", attempts |-> w.tasks[t].attempts]
            BY <2>1, <2>2
        <3> HIDE DEF g
        <3>2. QED
            BY <2>1, <2>2, <3>1 DEF TaskRecord, States
    <2>3. CASE t \notin ready
        <3>1. g[t] = w.tasks[t]
            BY <2>3
        <3> HIDE DEF g
        <3>2. QED
            BY <2>1, <2>3, <3>1 DEF TaskRecord
    <2>4. QED
        BY <2>2, <2>3
<1>3. x = [w EXCEPT !.tasks = g]
    BY <1>1 DEF SetRunning
<1>4. g \in [Tasks(w.job) -> TaskRecord]
    BY <1>2
<1>5. ready = {} => g = w.tasks
    BY <1>1
<1> HIDE DEF g, x
<1>6. x = [job |-> w.job, state |-> w.state, tasks |-> g]
    BY <1>1, <1>3
<1>7. x \in WorkflowInstance
    BY <1>1, <1>4, <1>6, MakeInstance
<1>8. x.job = w.job /\ x.state = w.state /\ x.tasks = g
    BY <1>6
<1>9. Completed(x) = Completed(w)
    <2>1. Completed(x) = {t \in Tasks(w.job) : g[t].state = "COMPLETED"}
        BY <1>4, <1>8 DEF Completed
    <2>2. Completed(w) = {t \in Tasks(w.job) : w.tasks[t].state = "COMPLETED"}
        BY <1>1 DEF Completed
    <2>3. QED
        BY <1>2, <2>1, <2>2
<1>10. ready = {} => x = w
    BY <1>1, <1>5, <1>6
<1>11. QED
    BY <1>2, <1>7, <1>8, <1>9, <1>10 DEF x

-----------------------------------------------------------------------------
(* Runs and timers: an item names one task in its present state.           *)

TaskOf(insts, i) == insts[i.instance].tasks[i.task]

Names(insts, i) ==
    /\ i.instance \in 1..Len(insts)
    /\ i.task \in Tasks(insts[i.instance].job)
    /\ i = Item(i.instance, insts[i.instance], i.task)

\* Of the runs in out and the retries in tims, one belongs to every task that is
\* RUNNING or RETRYING, and none to another.
Tracked(insts, out, tims) ==
    /\ \A i \in out : Names(insts, i) /\ TaskOf(insts, i).state = "RUNNING"
    /\ \A i \in tims : Names(insts, i) /\ TaskOf(insts, i).state = "RETRYING"
    /\ \A k \in 1..Len(insts) : \A t \in Tasks(insts[k].job) :
            /\ insts[k].tasks[t].state = "RUNNING" => Item(k, insts[k], t) \in out
            /\ insts[k].tasks[t].state = "RETRYING" => Item(k, insts[k], t) \in tims

LEMMA ItemFields ==
    ASSUME NEW k, NEW w, NEW t
    PROVE  LET i == Item(k, w, t)
           IN  i.instance = k /\ i.task = t /\ i.job = w.job /\ i.attempt = w.tasks[t].attempts
BY DEF Item

LEMMA ItemsAreTyped ==
    ASSUME NEW k \in Nat, NEW w \in WorkflowInstance, NEW t \in Tasks(w.job)
    PROVE  Item(k, w, t) \in ItemType
BY InstanceFields DEF Item, ItemType, Tasks

\* A task goes from one state to another, with its run and its timer.
LEMMA TaskMoves ==
    ASSUME NEW insts \in Seq(WorkflowInstance), NEW out, NEW tims, Tracked(insts, out, tims),
           NEW k \in 1..Len(insts), NEW t \in Tasks(insts[k].job),
           NEW x, Moves(insts[k], x, t), x.tasks[t].state # "RUNNING",
           NEW late, late = IF x.tasks[t].state = "RETRYING" THEN {Item(k, x, t)} ELSE {}
    PROVE  Tracked([insts EXCEPT ![k] = x],
                   out \ {Item(k, insts[k], t)}, (tims \ {Item(k, insts[k], t)}) \cup late)
<1> DEFINE old == Item(k, insts[k], t)
           new == [insts EXCEPT ![k] = x]
           o   == out \ {old}
           m   == (tims \ {old}) \cup late
<1>1. /\ Len(new) = Len(insts) /\ new[k] = x
      /\ \A l \in 1..Len(insts) : l # k => new[l] = insts[l]
      /\ \A l \in 1..Len(insts) : new[l].job = insts[l].job
    BY ExceptSeq DEF Moves
<1>2. \A u \in Tasks(insts[k].job) : u # t => x.tasks[u] = insts[k].tasks[u]
    BY DEF Moves
<1> HIDE DEF new
<1>3. ASSUME NEW l \in 1..Len(insts), NEW u \in Tasks(insts[l].job), l # k \/ u # t
      PROVE  new[l].tasks[u] = insts[l].tasks[u] /\ Item(l, new[l], u) = Item(l, insts[l], u)
    <2>1. new[l].tasks[u] = insts[l].tasks[u] /\ new[l].job = insts[l].job
        BY <1>1, <1>2, <1>3
    <2>2. QED
        BY <2>1 DEF Item
<1>4. ASSUME NEW i \in out \cup tims, i # old
      PROVE  Names(new, i) /\ TaskOf(new, i) = TaskOf(insts, i)
    <2>1. Names(insts, i)
        BY DEF Tracked
    <2>2. i.instance # k \/ i.task # t
        BY <1>4, <2>1 DEF Names
    <2>3. QED
        BY <1>1, <1>3, <2>1, <2>2 DEF Names, TaskOf
<1>5. ASSUME NEW i \in late
      PROVE  Names(new, i) /\ TaskOf(new, i).state = "RETRYING"
    <2>1. i = Item(k, x, t) /\ x.tasks[t].state = "RETRYING"
        BY <1>5
    <2>2. i.instance = k /\ i.task = t
        BY <2>1, ItemFields
    <2>3. QED
        BY <1>1, <2>1, <2>2 DEF Names, TaskOf
<1>6. \A i \in o : Names(new, i) /\ TaskOf(new, i).state = "RUNNING"
    BY <1>4 DEF Tracked
<1>7. \A i \in m : Names(new, i) /\ TaskOf(new, i).state = "RETRYING"
    BY <1>4, <1>5 DEF Tracked
<1>8. ASSUME NEW l \in 1..Len(new), NEW u \in Tasks(new[l].job)
      PROVE  /\ new[l].tasks[u].state = "RUNNING" => Item(l, new[l], u) \in o
             /\ new[l].tasks[u].state = "RETRYING" => Item(l, new[l], u) \in m
    <2>1. l \in 1..Len(insts) /\ u \in Tasks(insts[l].job)
        BY <1>1, <1>8
    <2>2. CASE l = k /\ u = t
        BY <1>1, <2>2
    <2>3. CASE l # k \/ u # t
        <3>1. new[l].tasks[u] = insts[l].tasks[u] /\ Item(l, new[l], u) = Item(l, insts[l], u)
            BY <1>3, <2>1, <2>3
        <3>2. Item(l, insts[l], u) # old
            BY <2>3, ItemFields
        <3>3. QED
            BY <2>1, <3>1, <3>2 DEF Tracked
    <2>4. QED
        BY <2>2, <2>3
<1>9. QED
    BY <1>6, <1>7, <1>8 DEF Tracked, new

\* The runs of tasks that were found ready.
Items(k, w, ready) == {Item(k, w, t) : t \in ready}

CanRun(w, ready) ==
    ready \in SUBSET Tasks(w.job) /\ \A t \in ready : w.tasks[t].state = "PENDING"

Fresh(items, out) == items \cap out = {}

Marked(insts, k, ready) == [insts EXCEPT ![k] = SetRunning(insts[k], ready)]

\* Tasks that were waiting get a run each, which no other item was.
LEMMA RunsAreNew ==
    ASSUME NEW insts, NEW out, NEW tims, Tracked(insts, out, tims),
           NEW k \in 1..Len(insts), NEW ready, CanRun(insts[k], ready),
           NEW items, items = Items(k, insts[k], ready)
    PROVE  Fresh(items, out)
<1>1. ASSUME NEW i \in items
      PROVE  i \notin out
    <2>1. PICK t \in ready : i = Item(k, insts[k], t)
        BY <1>1 DEF Items
    <2>2. i.instance = k /\ i.task = t
        BY <2>1, ItemFields
    <2>3. QED
        BY <2>2 DEF Tracked, TaskOf, CanRun
<1>2. QED
    BY <1>1 DEF Fresh

LEMMA ReadyMove ==
    ASSUME NEW insts \in Seq(WorkflowInstance), NEW out, NEW tims, Tracked(insts, out, tims),
           NEW k \in 1..Len(insts), NEW ready, CanRun(insts[k], ready),
           NEW items, items = Items(k, insts[k], ready)
    PROVE  Tracked(Marked(insts, k, ready), out \cup items, tims)
<1> DEFINE w   == insts[k]
           x   == SetRunning(w, ready)
           new == [insts EXCEPT ![k] = x]
           o   == out \cup items
<1>1. /\ w \in WorkflowInstance
      /\ ready \in SUBSET Tasks(w.job) /\ \A t \in ready : w.tasks[t].state = "PENDING"
    BY ElementOfSeq DEF CanRun
<1> HIDE DEF w
<1>2. /\ x \in WorkflowInstance /\ x.job = w.job
      /\ \A t \in Tasks(w.job) :
            /\ x.tasks[t].attempts = w.tasks[t].attempts
            /\ x.tasks[t].state = IF t \in ready THEN "RUNNING" ELSE w.tasks[t].state
    BY <1>1, SetRunningFields DEF w
<1> HIDE DEF x
<1>3. /\ Len(new) = Len(insts) /\ new[k] = x
      /\ \A l \in 1..Len(insts) : l # k => new[l] = insts[l]
    BY <1>2, ExceptSeq
<1> HIDE DEF new
<1>4. \A l \in 1..Len(insts) : new[l].job = insts[l].job
    BY <1>2, <1>3 DEF w
<1>5. ASSUME NEW l \in 1..Len(insts), NEW u \in Tasks(insts[l].job)
      PROVE  Item(l, new[l], u) = Item(l, insts[l], u)
    <2>1. new[l].tasks[u].attempts = insts[l].tasks[u].attempts
        BY <1>2, <1>3 DEF w
    <2>2. QED
        BY <1>4, <2>1 DEF Item
<1>6. ASSUME NEW i \in out \cup tims
      PROVE  Names(new, i) /\ TaskOf(new, i).state = TaskOf(insts, i).state
    <2>1. /\ i.instance \in 1..Len(insts) /\ i.task \in Tasks(insts[i.instance].job)
          /\ i = Item(i.instance, insts[i.instance], i.task)
        BY DEF Tracked, Names
    <2>2. Names(new, i)
        BY <1>3, <1>4, <1>5, <2>1 DEF Names
    <2>3. CASE i.instance = k
        <3>1. i.task \notin ready
            BY <1>1, <2>3 DEF Tracked, TaskOf, w
        <3>2. QED
            BY <1>2, <1>3, <2>1, <2>2, <2>3, <3>1 DEF TaskOf, w
    <2>4. CASE i.instance # k
        BY <1>3, <2>1, <2>2, <2>4 DEF TaskOf
    <2>5. QED
        BY <2>3, <2>4
<1>7. ASSUME NEW i \in items
      PROVE  Names(new, i) /\ TaskOf(new, i).state = "RUNNING"
    <2>1. PICK t \in ready : i = Item(k, insts[k], t)
        BY <1>7 DEF Items
    <2>2. i.instance = k /\ i.task = t /\ t \in Tasks(insts[k].job)
        BY <1>1, <2>1, ItemFields DEF w
    <2>3. Names(new, i)
        BY <1>3, <1>4, <1>5, <2>1, <2>2 DEF Names
    <2>4. TaskOf(new, i).state = "RUNNING"
        BY <1>2, <1>3, <2>2 DEF TaskOf, w
    <2>5. QED
        BY <2>3, <2>4
<1>8. \A i \in o : Names(new, i) /\ TaskOf(new, i).state = "RUNNING"
    BY <1>6, <1>7 DEF Tracked
<1>9. \A i \in tims : Names(new, i) /\ TaskOf(new, i).state = "RETRYING"
    BY <1>6 DEF Tracked
<1>10. ASSUME NEW l \in 1..Len(new), NEW u \in Tasks(new[l].job)
       PROVE  /\ new[l].tasks[u].state = "RUNNING" => Item(l, new[l], u) \in o
              /\ new[l].tasks[u].state = "RETRYING" => Item(l, new[l], u) \in tims
    <2>1. l \in 1..Len(insts) /\ u \in Tasks(insts[l].job)
        BY <1>3, <1>4, <1>10
    <2>2. Item(l, new[l], u) = Item(l, insts[l], u)
        BY <1>5, <2>1
    <2>3. CASE l = k /\ u \in ready
        <3>1. Item(l, insts[l], u) \in items
            BY <2>3 DEF Items
        <3>2. new[l].tasks[u].state = "RUNNING"
            BY <1>2, <1>3, <2>1, <2>3 DEF w
        <3>3. QED
            BY <2>2, <3>1, <3>2
    <2>4. CASE ~(l = k /\ u \in ready)
        <3>1. new[l].tasks[u].state = insts[l].tasks[u].state
            BY <1>2, <1>3, <2>1, <2>4 DEF w
        <3>2. QED
            BY <2>1, <2>2, <3>1 DEF Tracked
    <2>5. QED
        BY <2>3, <2>4
<1>11. Tracked(new, o, tims)
    BY <1>8, <1>9, <1>10 DEF Tracked
<1>12. QED
    BY <1>11 DEF new, x, w, Marked

\* A new instance has neither runs nor timers.
LEMMA AppendMove ==
    ASSUME NEW insts \in Seq(WorkflowInstance), NEW out, NEW tims, Tracked(insts, out, tims),
           NEW j \in Job
    PROVE  Tracked(Append(insts, NewInstance(j)), out, tims)
<1> DEFINE w   == NewInstance(j)
           new == Append(insts, w)
<1>1. w \in WorkflowInstance /\ w.job = j /\ \A t \in Tasks(j) : w.tasks[t].state = "PENDING"
    BY NewInstanceFields
<1> HIDE DEF w
<1>2. /\ Len(insts) \in Nat /\ Len(new) = Len(insts) + 1 /\ new[Len(insts) + 1] = w
      /\ \A l \in 1..Len(insts) : new[l] = insts[l]
    BY <1>1, AppendProperties, LenProperties
<1> HIDE DEF new
<1>3. \A l \in 1..Len(insts) : l \in 1..Len(new)
    BY <1>2
<1>4. \A i \in out \cup tims : Names(new, i) /\ TaskOf(new, i) = TaskOf(insts, i)
    <2>1. ASSUME NEW i \in out \cup tims
          PROVE  Names(new, i) /\ TaskOf(new, i) = TaskOf(insts, i)
        <3>1. Names(insts, i)
            BY DEF Tracked
        <3>2. QED
            BY <1>2, <1>3, <3>1 DEF Names, TaskOf
    <2>2. QED
        BY <2>1
<1>5. ASSUME NEW l \in 1..Len(new), NEW u \in Tasks(new[l].job)
      PROVE  /\ new[l].tasks[u].state = "RUNNING" => Item(l, new[l], u) \in out
             /\ new[l].tasks[u].state = "RETRYING" => Item(l, new[l], u) \in tims
    <2>1. l \in 1..Len(insts) \/ l = Len(insts) + 1
        BY <1>2
    <2>2. CASE l \in 1..Len(insts)
        BY <1>2, <1>5, <2>2 DEF Tracked
    <2>3. CASE l = Len(insts) + 1
        BY <1>1, <1>2, <1>5, <2>3
    <2>4. QED
        BY <2>1, <2>2, <2>3
<1>6. Tracked(new, out, tims)
    BY <1>4, <1>5 DEF Tracked
<1>7. QED
    BY <1>6 DEF new, w

-----------------------------------------------------------------------------
(* The order of tasks and the count of failures, of one instance.          *)

Sound(w) ==
    \A t \in Tasks(w.job) :
        /\ w.tasks[t].state = "RUNNING" => Deps[w.job][t] \subseteq Completed(w)
        /\ w.tasks[t].attempts > MaxRetries => w.tasks[t].state = "FAILED"

LEMMA SoundStart ==
    ASSUME NEW j \in Job
    PROVE  Sound(NewInstance(j))
BY NewInstanceFields DEF Sound

\* No task is undone.
LEMMA SoundMove ==
    ASSUME NEW w \in WorkflowInstance, Sound(w), NEW t \in Tasks(w.job), NEW x,
           Moves(w, x, t), Completed(w) \subseteq Completed(x),
           x.tasks[t].state # "RUNNING",
           x.tasks[t].attempts > MaxRetries => x.tasks[t].state = "FAILED"
    PROVE  Sound(x)
BY DEF Sound, Moves

LEMMA SoundReady ==
    ASSUME NEW w \in WorkflowInstance, Sound(w)
    PROVE  Sound(SetRunning(w, GetReadyTasks(w)))
<1> DEFINE ready == GetReadyTasks(w)
           x == SetRunning(w, ready)
<1>1. /\ ready \in SUBSET Tasks(w.job)
      /\ \A t \in ready : w.tasks[t].state = "PENDING" /\ Deps[w.job][t] \subseteq Completed(w)
    BY ReadyTasks
<1> HIDE DEF ready
<1>2. /\ x.job = w.job /\ Completed(x) = Completed(w)
      /\ \A t \in Tasks(w.job) :
            /\ x.tasks[t].attempts = w.tasks[t].attempts
            /\ x.tasks[t].state = IF t \in ready THEN "RUNNING" ELSE w.tasks[t].state
    BY <1>1, SetRunningFields
<1> HIDE DEF x
<1>3. Sound(x)
    BY <1>1, <1>2 DEF Sound
<1>4. QED
    BY <1>3 DEF x, ready

-----------------------------------------------------------------------------
(* The invariant.                                                          *)

Injective(s) == \A a, b \in DOMAIN s : s[a] = s[b] => a = b

Typed ==
    /\ instances \in Seq(WorkflowInstance)
    /\ current \in [Job -> 0..Len(instances)]
    /\ dead \in [Task -> 0..Len(instances)]
    /\ running \in BOOLEAN /\ resuming \in Nat /\ stops \in Nat
    /\ deque \in Seq(ItemType)
    /\ active \subseteq {i.task : i \in executing}

\* Every job has the one instance that the scheduler keeps for it.
OneEach ==
    /\ \A k \in 1..Len(instances) : current[instances[k].job] = k
    /\ \A j \in Job : current[j] # 0 => instances[current[j]].job = j

\* No run is in two places.
Apart ==
    /\ Injective(deque)
    /\ taskQueue \cap Range(deque) = {}
    /\ executing \cap (taskQueue \cup Range(deque)) = {}

AllSound == \A k \in 1..Len(instances) : Sound(instances[k])

Tracking == Tracked(instances, Outstanding, timers)

Inv == Typed /\ OneEach /\ Tracking /\ AllSound /\ Apart

-----------------------------------------------------------------------------
(* The deque of the worker.                                                *)

LEMMA PushItem ==
    ASSUME NEW s \in Seq(ItemType), NEW item \in ItemType, Injective(s), item \notin Range(s)
    PROVE  /\ Append(s, item) \in Seq(ItemType) /\ Append(s, item) # <<>>
           /\ Injective(Append(s, item)) /\ Range(Append(s, item)) = Range(s) \cup {item}
           /\ SubSeq(Append(s, item), 1, Len(Append(s, item)) - 1) = s
<1> DEFINE q == Append(s, item)
           L == Len(s)
<1>1. /\ q \in Seq(ItemType) /\ q # <<>> /\ Len(q) = L + 1 /\ q[L + 1] = item
      /\ \A i \in 1..L : q[i] = s[i]
    BY AppendProperties
<1>2. L \in Nat /\ DOMAIN s = 1..L /\ DOMAIN q = 1..(L + 1)
    BY <1>1, LenProperties
<1>3. SubSeq(q, 1, Len(q) - 1) = s
    <2>1. SubSeq(q, 1, L) = s
        OBVIOUS
    <2>2. Len(q) - 1 = L
        BY <1>1, <1>2
    <2>3. QED
        BY <2>1, <2>2
<1> HIDE DEF q, L
<1>4. Range(s) = {s[i] : i \in 1..L} /\ Range(q) = {q[i] : i \in 1..(L + 1)}
    BY <1>2 DEF Range
<1>5. Range(q) = Range(s) \cup {item}
    <2>1. 1..(L + 1) = (1..L) \cup {L + 1}
        BY <1>2
    <2>2. QED
        BY <1>1, <1>4, <2>1
<1>6. Injective(q)
    <2>1. \A i \in 1..L : s[i] # item
        BY <1>4
    <2>2. SUFFICES ASSUME NEW a \in 1..(L + 1), NEW b \in 1..(L + 1), q[a] = q[b] PROVE a = b
        BY <1>2 DEF Injective
    <2>3. (a \in 1..L \/ a = L + 1) /\ (b \in 1..L \/ b = L + 1)
        BY <1>2
    <2>4. CASE a \in 1..L /\ b \in 1..L
        BY <1>1, <1>2, <2>2, <2>4 DEF Injective
    <2>5. CASE a = L + 1 \/ b = L + 1
        BY <1>1, <2>1, <2>2, <2>3, <2>5
    <2>6. QED
        BY <2>3, <2>4, <2>5
<1>7. QED
    BY <1>1, <1>3, <1>5, <1>6 DEF q

LEMMA PopItem ==
    ASSUME NEW s \in Seq(ItemType), Injective(s), s # <<>>,
           NEW item, item = s[Len(s)], NEW r, r = SubSeq(s, 1, Len(s) - 1)
    PROVE  /\ item \in Range(s) /\ item \in ItemType /\ r \in Seq(ItemType) /\ Injective(r)
           /\ Range(r) = Range(s) \ {item}
<1> DEFINE L == Len(s)
<1>1. L \in Nat \ {0}
    BY EmptySeq
<1>2. DOMAIN s = 1..L /\ \A i \in 1..L : s[i] \in ItemType
    BY LenProperties, ElementOfSeq
<1>3. item = s[L] /\ r = SubSeq(s, 1, L - 1)
    OBVIOUS
<1> HIDE DEF L
<1>4. r \in Seq(ItemType) /\ Len(r) = L - 1 /\ \A i \in 1..(L - 1) : r[i] = s[i]
    <2>1. 1 \in Int /\ L - 1 \in Int /\ \A i \in 1..(L - 1) : s[i] \in ItemType
        BY <1>1, <1>2
    <2> DEFINE M == L - 1
    <2>2. /\ SubSeq(s, 1, M) \in Seq(ItemType)
          /\ Len(SubSeq(s, 1, M)) = IF 1 <= M THEN M - 1 + 1 ELSE 0
          /\ \A i \in 1..(M - 1 + 1) : SubSeq(s, 1, M)[i] = s[1 + i - 1]
        <3> HIDE DEF M
        <3> QED
            BY <2>1, SubSeqProperties DEF M
    <2>3. M \in Nat /\ M - 1 + 1 = M /\ \A i \in 1..M : 1 + i - 1 = i
        BY <1>1
    <2>4. r = SubSeq(s, 1, M)
        BY <1>3
    <2> HIDE DEF M
    <2>5. r \in Seq(ItemType) /\ Len(r) = M /\ \A i \in 1..M : r[i] = s[i]
        BY <2>2, <2>3, <2>4
    <2>6. QED
        BY <2>5 DEF M
<1>5. DOMAIN r = 1..(L - 1)
    BY <1>4, LenProperties
<1>6. 1..L = (1..(L - 1)) \cup {L} /\ L \notin 1..(L - 1)
    BY <1>1
<1>7. Range(r) = Range(s) \ {item} /\ item \in Range(s) /\ item \in ItemType
    <2>1. Range(s) = {s[i] : i \in 1..L} /\ Range(r) = {r[i] : i \in 1..(L - 1)}
        BY <1>2, <1>5 DEF Range
    <2>2. \A i \in 1..(L - 1) : s[i] # s[L]
        BY <1>2, <1>6 DEF Injective
    <2>3. QED
        BY <1>2, <1>3, <1>4, <1>6, <2>1, <2>2
<1>8. Injective(r)
    BY <1>2, <1>4, <1>5, <1>6 DEF Injective
<1>9. QED
    BY <1>4, <1>7, <1>8

\* A run is started, the last of items, or none is.
Starts(items, item) ==
    /\ item \in Range(items) /\ item \notin executing
    /\ executing' = executing \cup {item}
    /\ active' = active \cup {item.task}
    /\ deque' = SubSeq(items, 1, Len(items) - 1)

LEMMA ProcessNextMove ==
    ASSUME NEW items \in Seq(ItemType), Injective(items), executing \cap Range(items) = {},
           active \subseteq {i.task : i \in executing}, ProcessNext(items)
    PROVE  /\ deque' \in Seq(ItemType) /\ Injective(deque')
           /\ executing' \cap Range(deque') = {}
           /\ executing' \cup Range(deque') = executing \cup Range(items)
           /\ active' \subseteq {i.task : i \in executing'}
           /\ IF HasSlot /\ items # <<>>
              THEN \E item \in ItemType : Starts(items, item)
              ELSE deque' = items /\ active' = active /\ executing' = executing
<1>1. CASE HasSlot /\ items # <<>>
    <2> DEFINE item == items[Len(items)]
               rest == SubSeq(items, 1, Len(items) - 1)
    <2>1. deque' = rest /\ active' = active \cup {item.task} /\ executing' = executing \cup {item}
        BY <1>1 DEF ProcessNext
    <2>2. /\ item \in Range(items) /\ item \in ItemType /\ rest \in Seq(ItemType)
          /\ Injective(rest) /\ Range(rest) = Range(items) \ {item}
        <3> HIDE DEF item, rest
        <3> QED
            BY <1>1, PopItem DEF item, rest
    <2>3. Starts(items, item)
        <3>1. rest = SubSeq(items, 1, Len(items) - 1)
            OBVIOUS
        <3> HIDE DEF item, rest
        <3>2. QED
            BY <2>1, <2>2, <3>1 DEF Starts
    <2> HIDE DEF item, rest
    <2>4. Range(deque') = Range(items) \ {item}
        BY <2>1, <2>2
    <2>5. QED
        BY <1>1, <2>1, <2>2, <2>3, <2>4
<1>2. CASE ~(HasSlot /\ items # <<>>)
    <2>1. deque' = items /\ active' = active /\ executing' = executing
        BY <1>2 DEF ProcessNext
    <2>2. QED
        BY <1>2, <2>1
<1>3. QED
    BY <1>1, <1>2

-----------------------------------------------------------------------------
(* One task moves, and what it makes ready is queued.                      *)

LEMMA TrackedTypes ==
    ASSUME NEW insts \in Seq(WorkflowInstance), NEW out, NEW tims, Tracked(insts, out, tims)
    PROVE  out \subseteq ItemType /\ tims \subseteq ItemType
<1>1. ASSUME NEW i \in out \cup tims
      PROVE  i \in ItemType
    <2>1. Names(insts, i)
        BY DEF Tracked
    <2>2. Len(insts) \in Nat
        BY LenProperties
    <2>3. i.instance \in Nat /\ insts[i.instance] \in WorkflowInstance
        BY <2>1, <2>2, ElementOfSeq DEF Names
    <2>4. QED
        BY <2>1, <2>3, ItemsAreTyped DEF Names
<1>2. QED
    BY <1>1

LEMMA ReplaceTwice ==
    ASSUME NEW insts \in Seq(WorkflowInstance), NEW k \in 1..Len(insts),
           NEW x \in WorkflowInstance, NEW y
    PROVE  [[insts EXCEPT ![k] = x] EXCEPT ![k] = y] = [insts EXCEPT ![k] = y]
BY LenProperties

\* Task t of w has moved, then the tasks of x that it made ready.
MovesOn(w, x, t) ==
    /\ Moves(w, x, t) /\ Completed(w) \subseteq Completed(x)
    /\ x.tasks[t].state \notin {"RUNNING", "RETRYING"}
    /\ x.tasks[t].attempts > MaxRetries => x.tasks[t].state = "FAILED"

With(insts, k, y) == [insts EXCEPT ![k] = y]

\* y is x with the ready tasks marked, in the place of w.
Follows(w, x, y) ==
    /\ y \in WorkflowInstance /\ y.job = w.job /\ Sound(y)
    /\ y.state = x.state /\ Completed(y) = Completed(x)
    /\ \A u \in Tasks(w.job) : y.tasks[u].attempts = x.tasks[u].attempts

LEMMA ReadyFields ==
    ASSUME NEW w \in WorkflowInstance, Sound(w), NEW t \in Tasks(w.job), NEW x, MovesOn(w, x, t),
           NEW y, y = SetRunning(x, GetReadyTasks(x))
    PROVE  Follows(w, x, y)
<1>1. x \in WorkflowInstance /\ x.job = w.job
    BY DEF Moves, MovesOn
<1>2. /\ GetReadyTasks(x) \in SUBSET Tasks(x.job)
      /\ \A u \in GetReadyTasks(x) : x.tasks[u].state = "PENDING"
    BY <1>1, ReadyTasks
<1>3. /\ y \in WorkflowInstance /\ y.job = x.job /\ y.state = x.state
      /\ Completed(y) = Completed(x)
      /\ \A u \in Tasks(x.job) : y.tasks[u].attempts = x.tasks[u].attempts
    BY <1>1, <1>2, SetRunningFields
<1>4. Sound(x)
    BY <1>1, SoundMove DEF MovesOn
<1>5. Sound(y)
    BY <1>1, <1>4, SoundReady
<1>6. QED
    BY <1>1, <1>3, <1>5 DEF Follows

LEMMA MovedAndReady ==
    ASSUME NEW insts \in Seq(WorkflowInstance), NEW out, NEW tims, Tracked(insts, out, tims),
           NEW k \in 1..Len(insts), NEW t \in Tasks(insts[k].job),
           NEW x, MovesOn(insts[k], x, t),
           NEW y, y = SetRunning(x, GetReadyTasks(x)),
           NEW items, items = Items(k, x, GetReadyTasks(x)),
           NEW old, old = Item(k, insts[k], t)
    PROVE  /\ Tracked(With(insts, k, y), (out \ {old}) \cup items, tims \ {old})
           /\ Fresh(items, out \ {old})
<1> DEFINE ready == GetReadyTasks(x)
           mid   == [insts EXCEPT ![k] = x]
           o     == out \ {old}
           m     == tims \ {old}
<1>1. insts[k] \in WorkflowInstance /\ x \in WorkflowInstance
    BY ElementOfSeq DEF Moves, MovesOn
<1>2. /\ ready \in SUBSET Tasks(x.job)
      /\ \A u \in ready : x.tasks[u].state = "PENDING"
    BY <1>1, ReadyTasks
<1>3. Tracked(mid, o, m)
    <2>1. /\ {} = IF x.tasks[t].state = "RETRYING" THEN {Item(k, x, t)} ELSE {}
          /\ Moves(insts[k], x, t) /\ x.tasks[t].state # "RUNNING"
        BY DEF MovesOn
    <2>2. Tracked([insts EXCEPT ![k] = x], out \ {Item(k, insts[k], t)},
                  (tims \ {Item(k, insts[k], t)}) \cup {})
        BY <2>1, TaskMoves
    <2>3. (tims \ {Item(k, insts[k], t)}) \cup {} = m /\ out \ {Item(k, insts[k], t)} = o
        OBVIOUS
    <2>4. QED
        BY <2>2, <2>3
<1>4. mid \in Seq(WorkflowInstance) /\ Len(mid) = Len(insts) /\ mid[k] = x
    BY <1>1, ExceptSeq
<1>5. [mid EXCEPT ![k] = y] = [insts EXCEPT ![k] = y]
    BY <1>1, ReplaceTwice
<1>6. y = SetRunning(x, ready) /\ items = Items(k, x, ready)
    OBVIOUS
<1> HIDE DEF mid, o, m, ready
<1>7. k \in 1..Len(mid) /\ CanRun(mid[k], ready)
    BY <1>2, <1>4 DEF CanRun
<1>8. items = Items(k, mid[k], ready)
    BY <1>4, <1>6
<1>9. Tracked(Marked(mid, k, ready), o \cup items, m)
    BY <1>3, <1>4, <1>7, <1>8, ReadyMove
<1>10. Fresh(items, o)
    BY <1>3, <1>7, <1>8, RunsAreNew
<1>11. Marked(mid, k, ready) = With(insts, k, y)
    BY <1>4, <1>5, <1>6 DEF Marked, With
<1>12. QED
    BY <1>9, <1>10, <1>11 DEF o, m

\* An instance in the place of another of the same job.
LEMMA Replaced ==
    ASSUME Typed, OneEach, AllSound, NEW k \in 1..Len(instances),
           NEW y \in WorkflowInstance, y.job = instances[k].job, Sound(y),
           instances' = [instances EXCEPT ![k] = y], current' = current
    PROVE  /\ instances' \in Seq(WorkflowInstance) /\ Len(instances') = Len(instances)
           /\ instances'[k] = y
           /\ \A l \in 1..Len(instances) : /\ l # k => instances'[l] = instances[l]
                                           /\ instances'[l].job = instances[l].job
           /\ current' \in [Job -> 0..Len(instances')]
           /\ OneEach' /\ AllSound'
<1>1. /\ instances' \in Seq(WorkflowInstance) /\ Len(instances') = Len(instances)
      /\ \A l \in 1..Len(instances) : instances'[l] = IF l = k THEN y ELSE instances[l]
    BY ExceptSeq DEF Typed
<1>2. current' \in [Job -> 0..Len(instances')]
    BY <1>1 DEF Typed
<1>3. \A l \in 1..Len(instances) : instances'[l].job = instances[l].job
    BY <1>1
<1>4. \A j \in Job : current[j] # 0 => current[j] \in 1..Len(instances)
    <2>1. Len(instances) \in Nat
        BY LenProperties DEF Typed
    <2>2. QED
        BY <2>1 DEF Typed
<1>5. OneEach'
    BY <1>1, <1>3, <1>4 DEF OneEach
<1>6. AllSound'
    BY <1>1 DEF AllSound
<1>7. QED
    BY <1>1, <1>2, <1>3, <1>5, <1>6

-----------------------------------------------------------------------------
(* Each action keeps the invariant.  What the actions do to the instances  *)
(* is said once, for the invariant and for the contract.                   *)

\* The steps of the worker move runs from one place to the next.
LEMMA RunsOnlyMove ==
    ASSUME Inv, UNCHANGED <<instances, current, timers, dead>>,
           taskQueue' \cup executing' \cup Range(deque') = Outstanding,
           running' \in BOOLEAN, resuming' \in Nat, stops' \in Nat,
           deque' \in Seq(ItemType), active' \subseteq {i.task : i \in executing'},
           Injective(deque'), executing' \cap Range(deque') = {},
           taskQueue' \cap (executing' \cup Range(deque')) = {}
    PROVE  Inv'
<1>1. Outstanding' = Outstanding
    BY DEF Outstanding
<1>2. Typed' /\ OneEach' /\ AllSound'
    BY DEF Inv, Typed, OneEach, AllSound
<1>3. Tracking'
    BY <1>1 DEF Inv, Tracking
<1>4. Apart'
    BY DEF Apart
<1>5. QED
    BY <1>2, <1>3, <1>4 DEF Inv

\* What becomes of the runs that wait and the runs under way: one that waited may
\* be started.
MayStart ==
    \/ executing' = executing
    \/ \E item \in Outstanding \ executing : executing' = executing \cup {item}

LEMMA DispatchStep ==
    ASSUME Inv, Dispatch
    PROVE  Inv' /\ UNCHANGED <<instances, current>> /\ MayStart
<1>1. PICK item \in taskQueue : PopTask(item) /\ AssignTask(item)
    BY DEF Dispatch
<1> DEFINE q == Append(deque, item)
<1>2. /\ taskQueue' = taskQueue \ {item} /\ UNCHANGED <<instances, current, timers, dead>>
      /\ UNCHANGED <<running, resuming, stops>> /\ ProcessNext(q)
    BY <1>1 DEF PopTask, AssignTask
<1>3. /\ item \notin Range(deque) /\ item \notin executing /\ Injective(deque)
      /\ executing \cap Range(deque) = {} /\ taskQueue \cap (executing \cup Range(deque)) = {}
      /\ deque \in Seq(ItemType) /\ active \subseteq {i.task : i \in executing}
      /\ running \in BOOLEAN /\ resuming \in Nat /\ stops \in Nat
    BY DEF Inv, Apart, Typed
<1>4. item \in ItemType
    BY TrackedTypes DEF Inv, Typed, Tracking, Outstanding
<1>5. /\ q \in Seq(ItemType) /\ q # <<>> /\ Injective(q) /\ Range(q) = Range(deque) \cup {item}
    BY <1>3, <1>4, PushItem
<1> HIDE DEF q
<1>6. executing \cap Range(q) = {}
    BY <1>3, <1>5
<1>7. /\ deque' \in Seq(ItemType) /\ Injective(deque') /\ executing' \cap Range(deque') = {}
      /\ executing' \cup Range(deque') = executing \cup Range(q)
      /\ active' \subseteq {i.task : i \in executing'}
      /\ IF HasSlot /\ q # <<>>
         THEN \E i \in ItemType : Starts(q, i)
         ELSE deque' = q /\ active' = active /\ executing' = executing
    BY <1>2, <1>3, <1>5, <1>6, ProcessNextMove
<1>8. executing' \cup Range(deque') = executing \cup Range(deque) \cup {item}
    BY <1>5, <1>7
<1>9. taskQueue' \cup executing' \cup Range(deque') = Outstanding
    BY <1>2, <1>8 DEF Outstanding
<1>10. taskQueue' \cap (executing' \cup Range(deque')) = {}
    BY <1>2, <1>3, <1>8
<1>11. Inv'
    BY <1>2, <1>3, <1>7, <1>9, <1>10, RunsOnlyMove
<1>12. MayStart
    BY <1>5, <1>7 DEF MayStart, Starts, Outstanding
<1>13. QED
    BY <1>2, <1>11, <1>12

LEMMA ContinueStep ==
    ASSUME Inv, Continue
    PROVE  Inv' /\ UNCHANGED <<instances, current>> /\ MayStart
<1>1. /\ taskQueue' = taskQueue /\ UNCHANGED <<instances, current, timers, dead>>
      /\ UNCHANGED <<running, stops>> /\ ProcessNext(deque)
      /\ resuming > 0 /\ resuming' = resuming - 1
    BY DEF Continue, Resume, schedulerVars
<1>2. /\ Injective(deque) /\ executing \cap Range(deque) = {}
      /\ taskQueue \cap (executing \cup Range(deque)) = {}
      /\ deque \in Seq(ItemType) /\ active \subseteq {i.task : i \in executing}
      /\ running \in BOOLEAN /\ resuming \in Nat /\ stops \in Nat
    BY DEF Inv, Apart, Typed
<1>3. /\ deque' \in Seq(ItemType) /\ Injective(deque') /\ executing' \cap Range(deque') = {}
      /\ executing' \cup Range(deque') = executing \cup Range(deque)
      /\ active' \subseteq {i.task : i \in executing'}
      /\ IF HasSlot /\ deque # <<>>
         THEN \E i \in ItemType : Starts(deque, i)
         ELSE deque' = deque /\ active' = active /\ executing' = executing
    BY <1>1, <1>2, ProcessNextMove
<1>4. taskQueue' \cup executing' \cup Range(deque') = Outstanding
    BY <1>1, <1>3 DEF Outstanding
<1>5. taskQueue' \cap (executing' \cup Range(deque')) = {}
    BY <1>1, <1>2, <1>3
<1>6. resuming' \in Nat
    BY <1>1, <1>2
<1>7. Inv'
    BY <1>1, <1>2, <1>3, <1>4, <1>5, <1>6, RunsOnlyMove
<1>8. MayStart
    BY <1>3 DEF MayStart, Starts, Outstanding
<1>9. QED
    BY <1>1, <1>7, <1>8

LEMMA StopOrStartStep ==
    ASSUME Inv, Stop \/ Start
    PROVE  Inv' /\ UNCHANGED <<instances, current, executing>>
<1>1. /\ taskQueue' = taskQueue /\ UNCHANGED <<instances, current, timers, dead>>
      /\ UNCHANGED <<deque, active, executing, resuming>>
      /\ running' \in BOOLEAN /\ stops' \in {stops, stops + 1}
    BY DEF Stop, Start, StopWorker, StartWorker, schedulerVars
<1>2. /\ Injective(deque) /\ executing \cap Range(deque) = {}
      /\ taskQueue \cap (executing \cup Range(deque)) = {}
      /\ deque \in Seq(ItemType) /\ active \subseteq {i.task : i \in executing}
      /\ resuming \in Nat /\ stops \in Nat
    BY DEF Inv, Apart, Typed
<1>3. taskQueue' \cup executing' \cup Range(deque') = Outstanding
    BY <1>1 DEF Outstanding
<1>4. stops' \in Nat
    BY <1>1, <1>2
<1>5. Inv'
    BY <1>1, <1>2, <1>3, <1>4, RunsOnlyMove
<1>6. QED
    BY <1>1, <1>5

LEMMA CurrentExists ==
    ASSUME Inv, NEW j \in Job, current[j] # 0
    PROVE  current[j] \in 1..Len(instances) /\ instances[current[j]].job = j
<1>1. Len(instances) \in Nat /\ current[j] \in 0..Len(instances)
    BY LenProperties DEF Inv, Typed
<1>2. QED
    BY <1>1 DEF Inv, OneEach

\* The first submission, as SubmittedOnce has it.
LEMMA SubmitStep ==
    ASSUME Inv, SubmittedOnce, NEW j \in Job, Submit(j)
    PROVE  LET k == Len(instances) + 1 IN
           /\ Inv' /\ current[j] = 0 /\ current' = [current EXCEPT ![j] = k]
           /\ \A l \in 1..Len(instances) : instances'[l] = instances[l]
           /\ instances'[k].state = "RUNNING" /\ Completed(instances'[k]) = {}
           /\ \A t \in Tasks(j) : instances'[k].tasks[t].attempts = 0
           /\ UNCHANGED executing
<1> DEFINE L     == Len(instances)
           k     == L + 1
           w     == NewInstance(j)
           insts == Append(instances, w)
           ready == GetReadyTasks(w)
           y     == SetRunning(w, ready)
           items == Items(k, w, ready)
<1>1. /\ Cardinality({i \in DOMAIN instances : instances[i].job = j}) < 1
      /\ current' = [current EXCEPT ![j] = k]
      /\ instances' = [insts EXCEPT ![k] = y]
      /\ taskQueue' = items /\ taskQueue = {}
      /\ UNCHANGED <<timers, dead>> /\ UNCHANGED workerVars
    BY DEF Submit, SubmitWorkflow, ScheduleReadyTasks, Idle, SubmittedOnce, Items
<1>2. instances \in Seq(WorkflowInstance) /\ L \in Nat /\ DOMAIN instances = 1..L
    BY LenProperties DEF Inv, Typed
<1>3. \A l \in 1..L : instances[l].job # j
    <2> DEFINE same == {i \in DOMAIN instances : instances[i].job = j}
    <2>1. same \subseteq 1..L /\ IsFiniteSet(1..L)
        BY <1>2, FS_Interval
    <2>2. IsFiniteSet(same) /\ Cardinality(same) \in Nat /\ Cardinality(same) < 1
        BY <1>1, <2>1, FS_Subset, FS_CardinalityType
    <2>3. same = {}
        <3> HIDE DEF same
        <3> QED
            BY <2>2, FS_EmptySet
    <2>4. QED
        BY <1>2, <2>3
<1>4. /\ w \in WorkflowInstance /\ w.job = j /\ w.state = "RUNNING" /\ Completed(w) = {}
      /\ \A t \in Tasks(j) : w.tasks[t].state = "PENDING" /\ w.tasks[t].attempts = 0
    BY NewInstanceFields
<1>5. Sound(w) /\ Sound(y)
    BY <1>4, SoundStart, SoundReady
<1>6. ready \in SUBSET Tasks(j)
    BY <1>4, ReadyTasks
<1>7. /\ y \in WorkflowInstance /\ y.job = j /\ y.state = "RUNNING" /\ Completed(y) = {}
      /\ \A t \in Tasks(j) : y.tasks[t].attempts = 0
    BY <1>4, <1>6, SetRunningFields
<1>8. Tracked(insts, Outstanding, timers)
    BY <1>2, AppendMove DEF Inv, Tracking
<1> HIDE DEF w
<1>9. /\ insts \in Seq(WorkflowInstance) /\ Len(insts) = k /\ insts[k] = w
      /\ \A l \in 1..L : insts[l] = instances[l]
    BY <1>2, <1>4, AppendProperties
<1> HIDE DEF L, insts, ready, y, items
<1>10. k \in 1..k /\ k \in Nat /\ \A l \in 1..L : l \in 1..k /\ l # k
    BY <1>2
<1>11. /\ instances' \in Seq(WorkflowInstance) /\ Len(instances') = k /\ instances'[k] = y
       /\ \A l \in 1..L : instances'[l] = instances[l]
    <2>1. /\ [insts EXCEPT ![k] = y] \in Seq(WorkflowInstance)
          /\ Len([insts EXCEPT ![k] = y]) = Len(insts)
          /\ \A l \in 1..Len(insts) : [insts EXCEPT ![k] = y][l] = IF l = k THEN y ELSE insts[l]
        BY <1>7, <1>9, <1>10, ExceptSeq
    <2>2. QED
        BY <1>1, <1>9, <1>10, <2>1
<1>12. Tracked(instances', Outstanding \cup items, timers) /\ items \cap Outstanding = {}
    <2>1. k \in 1..Len(insts) /\ CanRun(insts[k], ready)
        BY <1>4, <1>6, <1>9, <1>10 DEF CanRun
    <2>2. items = Items(k, insts[k], ready)
        BY <1>9 DEF items
    <2>3. Tracked(Marked(insts, k, ready), Outstanding \cup items, timers)
        BY <1>8, <1>9, <2>1, <2>2, ReadyMove
    <2>4. Fresh(items, Outstanding)
        BY <1>8, <2>1, <2>2, RunsAreNew
    <2>5. Marked(insts, k, ready) = instances'
        BY <1>1, <1>9 DEF Marked, y
    <2>6. QED
        BY <2>3, <2>4, <2>5 DEF Fresh
<1>13. current[j] = 0
    BY <1>3, CurrentExists DEF L
<1>14. Typed'
    <2>1. UNCHANGED <<running, deque, active, executing, resuming, stops, dead>>
        BY <1>1 DEF workerVars
    <2>2. /\ current \in [Job -> 0..L] /\ dead \in [Task -> 0..L]
          /\ running \in BOOLEAN /\ resuming \in Nat /\ stops \in Nat
          /\ deque \in Seq(ItemType) /\ active \subseteq {i.task : i \in executing}
        BY DEF Inv, Typed, L
    <2>3. current' \in [Job -> 0..k] /\ dead' \in [Task -> 0..k]
        BY <1>1, <1>2, <2>1, <2>2
    <2>4. QED
        BY <1>11, <2>1, <2>2, <2>3 DEF Typed
<1>15. OneEach'
    <2>1. \A l \in 1..k : l \in 1..L \/ l = k
        BY <1>2
    <2>2. \A l \in 1..L : instances[l].job \in Job
        BY <1>2, ElementOfSeq, InstanceFields DEF L
    <2>3. ASSUME NEW l \in 1..k
          PROVE  current'[instances'[l].job] = l
        <3>1. CASE l = k
            BY <1>1, <1>7, <1>11, <3>1 DEF Inv, Typed
        <3>2. CASE l \in 1..L
            <4>1. instances'[l] = instances[l] /\ instances[l].job # j
                BY <1>3, <1>11, <3>2
            <4>2. current'[instances[l].job] = current[instances[l].job]
                BY <1>1, <2>2, <3>2, <4>1 DEF Inv, Typed
            <4>3. QED
                BY <3>2, <4>1, <4>2 DEF Inv, OneEach, L
        <3>3. QED
            BY <2>1, <3>1, <3>2
    <2>4. ASSUME NEW h \in Job, current'[h] # 0
          PROVE  instances'[current'[h]].job = h
        <3>1. CASE h = j
            BY <1>1, <1>7, <1>11, <3>1 DEF Inv, Typed
        <3>2. CASE h # j
            <4>1. current'[h] = current[h]
                BY <1>1, <3>2 DEF Inv, Typed
            <4>2. current[h] \in 1..L /\ instances[current[h]].job = h
                BY <2>4, <4>1, CurrentExists DEF L
            <4>3. QED
                BY <1>11, <4>1, <4>2
        <3>3. QED
            BY <3>1, <3>2
    <2>5. QED
        BY <1>11, <2>3, <2>4 DEF OneEach
<1>16. AllSound'
    <2>1. \A l \in 1..k : l \in 1..L \/ l = k
        BY <1>2
    <2>2. \A l \in 1..L : Sound(instances[l])
        BY DEF Inv, AllSound, L
    <2>3. QED
        BY <1>5, <1>11, <2>1, <2>2 DEF AllSound
<1>17. UNCHANGED <<executing, deque>>
    BY <1>1 DEF workerVars
<1>18. Tracking'
    <2>1. Outstanding' = Outstanding \cup items
        BY <1>1, <1>17 DEF Outstanding
    <2>2. QED
        BY <1>1, <1>12, <2>1 DEF Tracking
<1>19. Apart'
    BY <1>1, <1>12, <1>17 DEF Inv, Apart, Outstanding
<1>20. Inv'
    BY <1>14, <1>15, <1>16, <1>18, <1>19 DEF Inv
<1>21. QED
    BY <1>1, <1>7, <1>11, <1>13, <1>17, <1>20 DEF L

\* The contract sees no difference between w and x.
Alike(w, x) ==
    /\ x.state = w.state /\ Completed(x) = Completed(w)
    /\ \A t \in Tasks(w.job) : x.tasks[t].attempts = w.tasks[t].attempts

LEMMA ItemOf ==
    ASSUME Inv, NEW i \in Outstanding \cup timers
    PROVE  LET k == i.instance
               w == instances[k]
           IN  /\ k \in 1..Len(instances) /\ w \in WorkflowInstance
               /\ i.task \in Tasks(w.job) /\ i = Item(k, w, i.task)
               /\ i.job = w.job /\ i.job \in Job /\ current[i.job] = k
               /\ i \in Outstanding => w.tasks[i.task].state = "RUNNING"
               /\ i \in timers => w.tasks[i.task].state = "RETRYING"
<1>1. /\ Names(instances, i)
      /\ i \in Outstanding => TaskOf(instances, i).state = "RUNNING"
      /\ i \in timers => TaskOf(instances, i).state = "RETRYING"
    BY DEF Inv, Tracking, Tracked
<1>2. /\ i.instance \in 1..Len(instances) /\ instances[i.instance] \in WorkflowInstance
      /\ i.task \in Tasks(instances[i.instance].job)
      /\ i = Item(i.instance, instances[i.instance], i.task)
    BY <1>1, ElementOfSeq DEF Names, Inv, Typed
<1>3. i.job = instances[i.instance].job
    BY <1>2, ItemFields
<1>4. instances[i.instance].job \in Job
    BY <1>2, InstanceFields
<1>5. current[i.job] = i.instance
    BY <1>2, <1>3 DEF Inv, OneEach
<1>6. QED
    BY <1>1, <1>2, <1>3, <1>4, <1>5 DEF TaskOf

LEMMA RetryStep ==
    ASSUME Inv, Retry
    PROVE  /\ Inv' /\ UNCHANGED <<current, executing>>
           /\ \E k \in 1..Len(instances), y \in WorkflowInstance :
                /\ instances' = [instances EXCEPT ![k] = y]
                /\ Alike(instances[k], y)
<1>1. PICK timer \in timers : RetryTimer(timer)
    BY DEF Retry
<1> DEFINE k     == timer.instance
           t     == timer.task
           w     == instances[k]
           x     == [w EXCEPT !.tasks[t].state = "PENDING"]
           ready == GetReadyTasks(x)
           y     == SetRunning(x, ready)
           items == Items(k, x, ready)
<1>2. /\ timers' = timers \ {timer} /\ UNCHANGED <<current, dead>> /\ UNCHANGED workerVars
      /\ taskQueue = {} /\ taskQueue' = items
      /\ instances' = [instances EXCEPT ![k] = y]
    BY <1>1 DEF Retry, RetryTimer, ScheduleReadyTasks, Idle, Items
<1>3. /\ k \in 1..Len(instances) /\ w \in WorkflowInstance /\ t \in Tasks(w.job)
      /\ timer = Item(k, w, t) /\ w.tasks[t].state = "RETRYING" /\ timer \notin Outstanding
    BY ItemOf
<1>4. /\ Moves(w, x, t) /\ x.state = w.state /\ Completed(x) = Completed(w)
      /\ x.tasks[t] = [state |-> "PENDING", attempts |-> w.tasks[t].attempts]
    BY <1>3, PendingMove
<1>5. Sound(w) /\ instances \in Seq(WorkflowInstance)
    BY <1>3 DEF Inv, AllSound, Typed
<1> HIDE DEF x
<1>6. /\ x.tasks[t].state = "PENDING" /\ x.tasks[t].attempts = w.tasks[t].attempts
      /\ ~(w.tasks[t].attempts > MaxRetries)
    BY <1>3, <1>4, <1>5 DEF Sound
<1>7. MovesOn(w, x, t)
    BY <1>4, <1>6 DEF MovesOn
<1>8. items = Items(k, x, GetReadyTasks(x)) /\ y = SetRunning(x, GetReadyTasks(x))
    OBVIOUS
<1>9. w = instances[k]
    OBVIOUS
<1> HIDE DEF ready, items, y, k, t, w
<1>10. Tracked(instances, Outstanding, timers)
    BY DEF Inv, Tracking
<1>11. /\ Tracked(instances', (Outstanding \ {timer}) \cup items, timers \ {timer})
       /\ items \cap (Outstanding \ {timer}) = {}
       /\ y \in WorkflowInstance /\ y.job = w.job /\ Sound(y)
       /\ y.state = x.state /\ Completed(y) = Completed(x)
       /\ \A u \in Tasks(w.job) : y.tasks[u].attempts = x.tasks[u].attempts
    <2>1. /\ Tracked(With(instances, k, y), (Outstanding \ {timer}) \cup items, timers \ {timer})
          /\ Fresh(items, Outstanding \ {timer})
        BY <1>3, <1>5, <1>7, <1>8, <1>9, <1>10, MovedAndReady
    <2>2. /\ y \in WorkflowInstance /\ y.job = w.job /\ Sound(y)
          /\ y.state = x.state /\ Completed(y) = Completed(x)
          /\ \A u \in Tasks(w.job) : y.tasks[u].attempts = x.tasks[u].attempts
        <3>1. w \in WorkflowInstance /\ t \in Tasks(w.job) /\ Sound(w)
            BY <1>3, <1>5
        <3>2. Follows(w, x, y)
            BY <1>7, <1>8, <3>1, ReadyFields
        <3>3. QED
            BY <3>2 DEF Follows
    <2>3. QED
        BY <1>2, <2>1, <2>2 DEF Fresh, With
<1>12. Outstanding \ {timer} = Outstanding
    BY <1>3
<1>13. /\ instances' \in Seq(WorkflowInstance) /\ Len(instances') = Len(instances)
       /\ current' \in [Job -> 0..Len(instances')] /\ OneEach' /\ AllSound'
    BY <1>2, <1>3, <1>9, <1>11, Replaced DEF Inv
<1>14. UNCHANGED <<running, deque, active, executing, resuming, stops>>
    BY <1>2 DEF workerVars
<1>15. Typed'
    BY <1>2, <1>13, <1>14 DEF Inv, Typed
<1>16. Outstanding' = Outstanding \cup items
    BY <1>2, <1>14 DEF Outstanding
<1>17. Tracking'
    BY <1>2, <1>11, <1>12, <1>16 DEF Tracking
<1>18. Apart'
    BY <1>2, <1>11, <1>12, <1>14 DEF Inv, Apart, Outstanding
<1>19. \A u \in Tasks(w.job) : x.tasks[u].attempts = w.tasks[u].attempts
    BY <1>4, <1>6 DEF Moves
<1>20. Alike(w, y)
    BY <1>4, <1>11, <1>19 DEF Alike
<1>21. QED
    BY <1>2, <1>3, <1>9, <1>11, <1>13, <1>14, <1>15, <1>17, <1>18, <1>20 DEF Inv

\* What is left when a run has ended and its result has changed instance k to y.
LEMMA Reported ==
    ASSUME Inv, NEW item \in executing, Idle, Finish(item),
           NEW y \in WorkflowInstance, y.job = instances[item.instance].job, Sound(y),
           instances' = [instances EXCEPT ![item.instance] = y], current' = current,
           dead' \in [Task -> 0..Len(instances)], Fresh(taskQueue', Outstanding \ {item}),
           Tracked(instances', (Outstanding \ {item}) \cup taskQueue', timers')
    PROVE  Inv'
<1>1. item.instance \in 1..Len(instances)
    BY ItemOf DEF Outstanding
<1>2. /\ instances' \in Seq(WorkflowInstance) /\ Len(instances') = Len(instances)
      /\ current' \in [Job -> 0..Len(instances')] /\ OneEach' /\ AllSound'
    BY <1>1, Replaced DEF Inv
<1>3. /\ executing' = executing \ {item} /\ active' = active \ {item.task}
      /\ resuming' = resuming + 1 /\ UNCHANGED <<running, deque, stops>>
      /\ taskQueue = {}
    BY DEF Finish, Idle
<1>4. /\ deque \in Seq(ItemType) /\ active \subseteq {i.task : i \in executing}
      /\ running \in BOOLEAN /\ resuming \in Nat /\ stops \in Nat
      /\ Injective(deque) /\ executing \cap Range(deque) = {}
    BY DEF Inv, Typed, Apart
<1>5. active' \subseteq {i.task : i \in executing'}
    BY <1>3, <1>4
<1>6. resuming' \in Nat
    BY <1>3, <1>4
<1>7. Typed'
    BY <1>2, <1>3, <1>4, <1>5, <1>6 DEF Typed
<1>8. Outstanding' = (Outstanding \ {item}) \cup taskQueue'
    BY <1>3, <1>4 DEF Outstanding
<1>9. Tracking'
    BY <1>8 DEF Tracking
<1>10. Apart'
    BY <1>3, <1>4 DEF Apart, Fresh, Outstanding
<1>11. QED
    BY <1>2, <1>7, <1>9, <1>10 DEF Inv

LEMMA SuccessStep ==
    ASSUME Inv, NEW item \in executing, Report(item, TRUE)
    PROVE  /\ Inv' /\ UNCHANGED current /\ executing' = executing \ {item}
           /\ \E y \in WorkflowInstance :
                LET w == instances[item.instance] IN
                /\ instances' = [instances EXCEPT ![item.instance] = y]
                /\ Completed(y) = Completed(w) \cup {item.task}
                /\ y.state = IF Completed(y) = Tasks(w.job) THEN "COMPLETED" ELSE w.state
                /\ \A t \in Tasks(w.job) : y.tasks[t].attempts = w.tasks[t].attempts
<1> DEFINE k     == item.instance
           t     == item.task
           w     == instances[k]
           x     == MarkTaskCompleted(w, t)
           ready == GetReadyTasks(x)
           y     == SetRunning(x, ready)
           items == Items(k, x, ready)
<1>1. /\ k \in 1..Len(instances) /\ w \in WorkflowInstance /\ t \in Tasks(w.job)
      /\ item = Item(k, w, t) /\ w.tasks[t].state = "RUNNING" /\ item \notin timers
      /\ current[item.job] = k
    <2>1. item \in Outstanding
        BY DEF Outstanding
    <2>2. item \notin timers
        BY <2>1, ItemOf
    <2>3. QED
        BY <2>1, <2>2, ItemOf
<1>2. TaskSucceeded(k, w, t) /\ Finish(item) /\ Idle
    BY <1>1 DEF Report, HandleTaskResult
<1>3. /\ Moves(w, x, t)
      /\ x.tasks[t] = [state |-> "COMPLETED", attempts |-> w.tasks[t].attempts]
      /\ Completed(x) = Completed(w) \cup {t}
      /\ x.state = IF Completed(x) = Tasks(w.job) THEN "COMPLETED" ELSE w.state
    BY <1>1, CompletedMove
<1>4. /\ IF x.state = "COMPLETED"
         THEN instances' = [instances EXCEPT ![k] = x] /\ UNCHANGED taskQueue
         ELSE /\ instances' = [instances EXCEPT ![k] = y]
              /\ taskQueue' = taskQueue \cup items
      /\ UNCHANGED <<current, timers, dead>>
    BY <1>2 DEF TaskSucceeded, ScheduleReadyTasks, Items
<1>5. y = SetRunning(x, GetReadyTasks(x)) /\ items = Items(k, x, GetReadyTasks(x))
    OBVIOUS
<1>6. w = instances[k]
    OBVIOUS
<1>7. k = item.instance /\ t = item.task
    OBVIOUS
<1> HIDE DEF x, ready, y, items, k, t, w
<1>8. x \in WorkflowInstance /\ x.job = w.job
    BY <1>3 DEF Moves
<1>9. instances' = [instances EXCEPT ![k] = y] /\ taskQueue' = items
    <2>1. taskQueue = {}
        BY <1>2 DEF Idle
    <2>2. CASE x.state = "COMPLETED"
        <3>1. GetReadyTasks(x) = {}
            BY <1>8, <2>2, ReadyTasks
        <3>2. items = {}
            BY <1>5, <3>1 DEF Items
        <3>3. y = x
            BY <1>5, <1>8, <3>1, SetRunningFields
        <3>4. QED
            BY <1>4, <2>1, <2>2, <3>2, <3>3
    <2>3. CASE x.state # "COMPLETED"
        BY <1>4, <2>1, <2>3
    <2>4. QED
        BY <2>2, <2>3
<1>10. Sound(w) /\ instances \in Seq(WorkflowInstance) /\ Tracked(instances, Outstanding, timers)
    BY <1>1, <1>6 DEF Inv, AllSound, Typed, Tracking
<1>11. MovesOn(w, x, t)
    <2>1. ~(w.tasks[t].attempts > MaxRetries)
        BY <1>1, <1>10 DEF Sound
    <2>2. x.tasks[t].state = "COMPLETED" /\ x.tasks[t].attempts = w.tasks[t].attempts
        BY <1>3
    <2>3. QED
        BY <1>3, <2>1, <2>2 DEF MovesOn
<1>12. Follows(w, x, y)
    BY <1>1, <1>5, <1>10, <1>11, ReadyFields
<1>13. /\ Tracked(With(instances, k, y), (Outstanding \ {item}) \cup items, timers \ {item})
       /\ Fresh(items, Outstanding \ {item})
    BY <1>1, <1>5, <1>6, <1>10, <1>11, MovedAndReady
<1>14. Tracked(instances', (Outstanding \ {item}) \cup taskQueue', timers')
    <2>1. timers' = timers \ {item} /\ With(instances, k, y) = instances'
        BY <1>1, <1>4, <1>9 DEF With
    <2>2. QED
        BY <1>9, <1>13, <2>1
<1>15. dead' \in [Task -> 0..Len(instances)] /\ current' = current
    BY <1>4 DEF Inv, Typed
<1>16. y \in WorkflowInstance /\ y.job = w.job /\ Sound(y)
    BY <1>12 DEF Follows
<1>17. Inv'
    BY <1>2, <1>6, <1>7, <1>9, <1>13, <1>14, <1>15, <1>16, Reported
<1>18. executing' = executing \ {item}
    BY <1>2 DEF Finish
<1>19. \A u \in Tasks(w.job) : x.tasks[u].attempts = w.tasks[u].attempts
    BY <1>3 DEF Moves
<1>20. /\ Completed(y) = Completed(w) \cup {t}
       /\ y.state = IF Completed(y) = Tasks(w.job) THEN "COMPLETED" ELSE w.state
       /\ \A u \in Tasks(w.job) : y.tasks[u].attempts = w.tasks[u].attempts
    BY <1>3, <1>12, <1>19 DEF Follows
<1>21. QED
    BY <1>6, <1>7, <1>9, <1>15, <1>16, <1>17, <1>18, <1>20

LEMMA FailureStep ==
    ASSUME Inv, NEW item \in executing, Report(item, FALSE)
    PROVE  /\ Inv' /\ UNCHANGED current /\ executing' = executing \ {item}
           /\ \E y \in WorkflowInstance :
                LET w == instances[item.instance]
                    a == w.tasks[item.task].attempts + 1
                IN
                /\ instances' = [instances EXCEPT ![item.instance] = y]
                /\ Completed(y) = Completed(w)
                /\ y.state = IF a <= MaxRetries THEN w.state ELSE "FAILED"
                /\ \A t \in Tasks(w.job) :
                    y.tasks[t].attempts = IF t = item.task THEN a ELSE w.tasks[t].attempts
<1> DEFINE k == item.instance
           t == item.task
           w == instances[k]
           a == w.tasks[t].attempts + 1
           y == MarkTaskFailed(w, t)
           late == IF y.tasks[t].state = "RETRYING" THEN {Item(k, y, t)} ELSE {}
<1>1. /\ k \in 1..Len(instances) /\ w \in WorkflowInstance /\ t \in Tasks(w.job)
      /\ item = Item(k, w, t) /\ w.tasks[t].state = "RUNNING" /\ item \notin timers
      /\ current[item.job] = k
    <2>1. item \in Outstanding
        BY DEF Outstanding
    <2>2. item \notin timers
        BY <2>1, ItemOf
    <2>3. QED
        BY <2>1, <2>2, ItemOf
<1>2. TaskFailed(k, w, t) /\ Finish(item) /\ Idle
    BY <1>1 DEF Report, HandleTaskResult
<1>3. /\ Moves(w, y, t) /\ Completed(y) = Completed(w)
      /\ y.tasks[t] = [state |-> IF a <= MaxRetries THEN "RETRYING" ELSE "FAILED",
                       attempts |-> a]
      /\ y.state = IF a <= MaxRetries THEN w.state ELSE "FAILED"
    BY <1>1, FailedMove
<1>4. /\ instances' = [instances EXCEPT ![k] = y]
      /\ IF y.tasks[t].state = "RETRYING"
         THEN timers' = timers \cup {Item(k, y, t)} /\ UNCHANGED dead
         ELSE dead' = [dead EXCEPT ![t] = k] /\ UNCHANGED timers
      /\ UNCHANGED <<current, taskQueue>>
    BY <1>2 DEF TaskFailed
<1>5. w = instances[k] /\ k = item.instance /\ t = item.task
    OBVIOUS
<1>6. late = IF y.tasks[t].state = "RETRYING" THEN {Item(k, y, t)} ELSE {}
    OBVIOUS
<1>7. a = w.tasks[t].attempts + 1
    OBVIOUS
<1> HIDE DEF k, t, w, y, late, a
<1>8. y \in WorkflowInstance /\ y.job = w.job /\ w.tasks[t].attempts \in Nat /\ w.job \in Job
    BY <1>1, <1>3, InstanceFields DEF Moves
<1>9. /\ y.tasks[t].state = IF a <= MaxRetries THEN "RETRYING" ELSE "FAILED"
      /\ y.tasks[t].attempts = a /\ a \in Nat
    BY <1>3, <1>7, <1>8
<1>10. Sound(w) /\ instances \in Seq(WorkflowInstance) /\ Tracked(instances, Outstanding, timers)
    BY <1>1, <1>5 DEF Inv, AllSound, Typed, Tracking
<1>11. Sound(y)
    <2>1. y.tasks[t].state # "RUNNING"
        BY <1>9
    <2>2. y.tasks[t].attempts > MaxRetries => y.tasks[t].state = "FAILED"
        BY <1>9
    <2>3. QED
        BY <1>1, <1>3, <1>10, <2>1, <2>2, SoundMove
<1>12. Tracked([instances EXCEPT ![k] = y],
               Outstanding \ {Item(k, instances[k], t)},
               (timers \ {Item(k, instances[k], t)}) \cup late)
    <2>1. y.tasks[t].state # "RUNNING"
        BY <1>9
    <2>2. QED
        BY <1>1, <1>3, <1>5, <1>6, <1>10, <2>1, TaskMoves
<1>13. timers' = (timers \ {item}) \cup late
    BY <1>1, <1>4, <1>6
<1>14. taskQueue' = {}
    BY <1>2, <1>4 DEF Idle
<1>15. Tracked(instances', (Outstanding \ {item}) \cup taskQueue', timers')
    <2>1. Item(k, instances[k], t) = item
        BY <1>1, <1>5
    <2>2. (Outstanding \ {item}) \cup taskQueue' = Outstanding \ {item}
        BY <1>14
    <2>3. QED
        BY <1>4, <1>12, <1>13, <2>1, <2>2
<1>16. dead' \in [Task -> 0..Len(instances)]
    <2>1. dead \in [Task -> 0..Len(instances)] /\ Len(instances) \in Nat
        BY LenProperties DEF Inv, Typed
    <2>2. k \in 0..Len(instances)
        BY <1>1, <2>1
    <2>3. QED
        BY <1>4, <2>1, <2>2
<1>17. Fresh(taskQueue', Outstanding \ {item})
    BY <1>14 DEF Fresh
<1>18. Inv'
    BY <1>2, <1>4, <1>5, <1>8, <1>11, <1>15, <1>16, <1>17, Reported
<1>19. executing' = executing \ {item}
    BY <1>2 DEF Finish
<1>20. \A u \in Tasks(w.job) : y.tasks[u].attempts = IF u = t THEN a ELSE w.tasks[u].attempts
    BY <1>3, <1>9 DEF Moves
<1>21. /\ y \in WorkflowInstance /\ instances' = [instances EXCEPT ![k] = y]
       /\ Completed(y) = Completed(w) /\ y.state = IF a <= MaxRetries THEN w.state ELSE "FAILED"
       /\ \A u \in Tasks(w.job) : y.tasks[u].attempts = IF u = t THEN a ELSE w.tasks[u].attempts
    BY <1>3, <1>4, <1>8, <1>20
<1>22. Inv' /\ UNCHANGED current /\ executing' = executing \ {item}
    BY <1>4, <1>18, <1>19
<1> HIDE DEF Inv
<1>23. QED
    BY <1>21, <1>22 DEF k, t, w, a

-----------------------------------------------------------------------------
(* Runs and types, of every behaviour.                                     *)

LEMMA InvInit == Init => Inv
<1> SUFFICES ASSUME Init PROVE Inv
    OBVIOUS
<1>1. /\ instances = <<>> /\ current = [j \in Job |-> 0] /\ dead = [t \in Task |-> 0]
      /\ taskQueue = {} /\ timers = {} /\ running = TRUE /\ deque = <<>> /\ active = {}
      /\ executing = {} /\ resuming = 0 /\ stops = 0
    BY DEF Init, SchedulerInit, WorkerInit
<1>2. Len(<<>>) = 0 /\ 1..0 = {} /\ DOMAIN <<>> = {}
    OBVIOUS
<1>3. Range(deque) = {}
    BY <1>1, <1>2 DEF Range
<1>4. Typed
    BY <1>1, <1>2 DEF Typed
<1>5. OneEach /\ AllSound
    BY <1>1, <1>2 DEF OneEach, AllSound
<1>6. Apart
    BY <1>1, <1>2, <1>3 DEF Apart, Injective
<1>7. Outstanding = {}
    BY <1>1, <1>3 DEF Outstanding
<1>8. Tracking
    BY <1>1, <1>2, <1>7 DEF Tracking, Tracked
<1>9. QED
    BY <1>4, <1>5, <1>6, <1>8 DEF Inv

LEMMA InvNext ==
    ASSUME SubmittedOnce, Inv, [Next]_vars
    PROVE  Inv'
<1>1. ASSUME NEW j \in Job, Submit(j) PROVE Inv'
    BY <1>1, SubmitStep
<1>2. CASE Dispatch
    BY <1>2, DispatchStep
<1>3. ASSUME NEW item \in executing, NEW succeeded \in BOOLEAN, Report(item, succeeded)
      PROVE  Inv'
    <2>1. CASE succeeded = TRUE
        BY <1>3, <2>1, SuccessStep
    <2>2. CASE succeeded = FALSE
        BY <1>3, <2>2, FailureStep
    <2>3. QED
        BY <2>1, <2>2
<1>4. CASE Continue
    BY <1>4, ContinueStep
<1>5. CASE Retry
    BY <1>5, RetryStep
<1>6. CASE Stop \/ Start
    BY <1>6, StopOrStartStep
<1>7. CASE UNCHANGED vars
    <2>1. UNCHANGED <<instances, current, taskQueue, timers, dead>>
        BY <1>7 DEF vars, schedulerVars
    <2>2. UNCHANGED <<running, deque, active, executing, resuming, stops>>
        BY <1>7 DEF vars, workerVars
    <2>3. Outstanding' = Outstanding
        BY <2>1, <2>2 DEF Outstanding
    <2>4. QED
        BY <2>1, <2>2, <2>3 DEF Inv, Typed, OneEach, AllSound, Apart, Tracking
<1>8. QED
    BY <1>1, <1>2, <1>3, <1>4, <1>5, <1>6, <1>7 DEF Next

LEMMA InvAlways ==
    ASSUME SubmittedOnce
    PROVE  Spec => []Inv
<1>1. Inv /\ [Next]_vars => Inv'
    BY InvNext
<1>2. QED
    BY <1>1, InvInit, PTL DEF Spec

\* The types of the state of scheduler and worker; and the map of active tasks
\* holds only ids of tasks whose child process runs.
THEOREM TypeCorrect ==
    ASSUME SubmittedOnce
    PROVE  Spec => []TypeOK
<1>1. Inv => TypeOK
    <2> SUFFICES ASSUME Inv PROVE TypeOK
        OBVIOUS
    <2>1. /\ instances \in Seq(WorkflowInstance) /\ DOMAIN instances = 1..Len(instances)
          /\ current \in [Job -> 0..Len(instances)] /\ dead \in [Task -> 0..Len(instances)]
          /\ running \in BOOLEAN /\ resuming \in Nat /\ stops \in Nat
          /\ deque \in Seq(ItemType) /\ active \subseteq {i.task : i \in executing}
        BY LenProperties DEF Inv, Typed
    <2>2. Outstanding \subseteq ItemType /\ timers \subseteq ItemType
        BY <2>1, TrackedTypes DEF Inv, Tracking
    <2>3. \A w \in WorkflowInstance : IsInstance(w)
        BY InstanceFields DEF IsInstance, TaskRecord
    <2>4. \A w \in Range(instances) : IsInstance(w)
        BY <2>1, <2>3, ElementOfSeq DEF Range
    <2>5. QED
        BY <2>1, <2>2, <2>4 DEF TypeOK, Outstanding
<1>2. QED
    BY <1>1, InvAlways, PTL

\* A task is RUNNING as long as exactly one run of it is queued, assigned or
\* executed, and RETRYING as long as exactly one timer of it is set: between the
\* heap of the scheduler, the deque and the slots no run is lost or made twice.
THEOREM EveryRunIsTracked ==
    ASSUME SubmittedOnce
    PROVE  Spec => []RunsAreTracked
<1>1. Inv => RunsAreTracked
    <2>1. SUFFICES ASSUME Inv, NEW k \in DOMAIN instances, NEW t \in DOMAIN instances[k].tasks
                   PROVE  LET mine(items) == {i \in items : i.instance = k /\ i.task = t}
                              task == instances[k].tasks[t]
                          IN  /\ Cardinality(mine(Outstanding))
                                    = IF task.state = "RUNNING" THEN 1 ELSE 0
                              /\ Cardinality(mine(timers))
                                    = IF task.state = "RETRYING" THEN 1 ELSE 0
        BY DEF RunsAreTracked
    <2>2. k \in 1..Len(instances) /\ t \in Tasks(instances[k].job)
        <3>1. instances \in Seq(WorkflowInstance)
            BY <2>1 DEF Inv, Typed
        <3>2. k \in 1..Len(instances)
            BY <3>1, LenProperties
        <3>3. instances[k] \in WorkflowInstance
            BY <3>1, <3>2, ElementOfSeq
        <3>4. QED
            BY <3>2, <3>3, InstanceFields
    <2> DEFINE mine(items) == {i \in items : i.instance = k /\ i.task = t}
    <2> DEFINE task == instances[k].tasks[t]
               item == Item(k, instances[k], t)
    <2>3. /\ task.state = "RUNNING" => item \in Outstanding
          /\ task.state = "RETRYING" => item \in timers
          /\ item.instance = k /\ item.task = t
        BY <2>1, <2>2, ItemFields DEF Inv, Tracking, Tracked
    <2>4. \A i \in Outstanding : i.instance = k /\ i.task = t =>
                                    i = item /\ task.state = "RUNNING"
        BY <2>1, ItemOf
    <2>5. \A i \in timers : i.instance = k /\ i.task = t => i = item /\ task.state = "RETRYING"
        BY <2>1, ItemOf
    <2>6. mine(Outstanding) = IF task.state = "RUNNING" THEN {item} ELSE {}
        BY <2>3, <2>4
    <2>7. mine(timers) = IF task.state = "RETRYING" THEN {item} ELSE {}
        BY <2>3, <2>5
    <2>8. Cardinality({item}) = 1 /\ Cardinality({}) = 0
        BY FS_Singleton, FS_EmptySet
    <2>9. QED
        BY <2>6, <2>7, <2>8
<1>2. QED
    BY <1>1, InvAlways, PTL

-----------------------------------------------------------------------------
(* The slots, when two jobs never use the same id of a task: the map of    *)
(* active tasks then counts the child processes.                           *)

DistinctTasks == \A i, j \in Job : i # j => Tasks(i) \cap Tasks(j) = {}

Slots ==
    /\ IsFiniteSet(executing) /\ IsFiniteSet(active)
    /\ active = {i.task : i \in executing}
    /\ Cardinality(executing) = Cardinality(active)
    /\ Cardinality(active) <= Concurrency

\* What waits in the deque waits for a slot, or for a finished run that has yet to
\* look for its successor.
Served ==
    stops = 0 => running /\ (deque # <<>> => Cardinality(active) + resuming >= Concurrency)

SlotInv == Slots /\ Served

LEMMA TaskNamesRun ==
    ASSUME Inv, DistinctTasks, NEW i \in Outstanding, NEW j \in Outstanding, i.task = j.task
    PROVE  i = j
<1>1. /\ i.task \in Tasks(instances[i.instance].job) /\ i.job = instances[i.instance].job
      /\ i.job \in Job /\ current[i.job] = i.instance
      /\ i = Item(i.instance, instances[i.instance], i.task)
    BY ItemOf
<1>2. /\ j.task \in Tasks(instances[j.instance].job) /\ j.job = instances[j.instance].job
      /\ j.job \in Job /\ current[j.job] = j.instance
      /\ j = Item(j.instance, instances[j.instance], j.task)
    BY ItemOf
<1>3. i.job = j.job
    BY <1>1, <1>2 DEF DistinctTasks
<1>4. i.instance = j.instance
    BY <1>1, <1>2, <1>3
<1>5. QED
    BY <1>1, <1>2, <1>4

LEMMA ProcessNextSlots ==
    ASSUME Slots, NEW items \in Seq(ItemType), Injective(items),
           executing \cap Range(items) = {}, ProcessNext(items),
           \A i \in executing, j \in Range(items) : i.task # j.task
    PROVE  /\ Slots'
           /\ \/ /\ deque' = SubSeq(items, 1, Len(items) - 1)
                 /\ Cardinality(active') = Cardinality(active) + 1
              \/ /\ deque' = items /\ UNCHANGED active
                 /\ running /\ items # <<>> => Cardinality(active) >= Concurrency
<1>1. active \subseteq {i.task : i \in executing}
    BY DEF Slots
<1>2. IF HasSlot /\ items # <<>>
      THEN \E item \in ItemType : Starts(items, item)
      ELSE deque' = items /\ active' = active /\ executing' = executing
    BY <1>1, ProcessNextMove
<1>3. /\ Cardinality(executing) \in Nat /\ Cardinality(active) \in Nat
      /\ IsFiniteSet(executing) /\ IsFiniteSet(active) /\ Concurrency \in Nat
      /\ Cardinality(executing) = Cardinality(active) /\ Cardinality(active) <= Concurrency
      /\ active = {i.task : i \in executing}
    BY FS_CardinalityType DEF Slots
<1>4. CASE HasSlot /\ items # <<>>
    <2>1. PICK item \in ItemType : Starts(items, item)
        BY <1>2, <1>4
    <2>2. /\ executing' = executing \cup {item} /\ active' = active \cup {item.task}
          /\ item \notin executing /\ item.task \notin active
          /\ deque' = SubSeq(items, 1, Len(items) - 1)
        BY <1>3, <2>1 DEF Starts
    <2>3. /\ IsFiniteSet(executing') /\ Cardinality(executing') = Cardinality(executing) + 1
          /\ IsFiniteSet(active') /\ Cardinality(active') = Cardinality(active) + 1
        BY <1>3, <2>2, FS_AddElement
    <2>4. active' = {i.task : i \in executing'}
        BY <1>3, <2>2
    <2>5. Cardinality(active) < Concurrency
        BY <1>4 DEF HasSlot
    <2>6. Slots'
        BY <1>3, <2>3, <2>4, <2>5 DEF Slots
    <2>7. QED
        BY <2>2, <2>3, <2>6
<1>5. CASE ~(HasSlot /\ items # <<>>)
    <2>1. deque' = items /\ active' = active /\ executing' = executing
        BY <1>2, <1>5
    <2>2. Slots'
        BY <2>1 DEF Slots
    <2>3. running /\ items # <<>> => Cardinality(active) >= Concurrency
        BY <1>3, <1>5 DEF HasSlot
    <2>4. QED
        BY <2>1, <2>2, <2>3
<1>6. QED
    BY <1>4, <1>5

LEMMA SlotInvNext ==
    ASSUME DistinctTasks, Inv, SlotInv, [Next]_vars
    PROVE  SlotInv'
<1>1. /\ IsFiniteSet(executing) /\ IsFiniteSet(active) /\ Slots
      /\ Cardinality(active) \in Nat /\ Concurrency \in Nat /\ Concurrency > 0
      /\ resuming \in Nat /\ stops \in Nat /\ deque \in Seq(ItemType) /\ Injective(deque)
      /\ executing \cap (taskQueue \cup Range(deque)) = {} /\ taskQueue \cap Range(deque) = {}
    BY FS_CardinalityType DEF SlotInv, Slots, Inv, Typed, Apart
<1>2. \A i \in executing, j \in taskQueue \cup Range(deque) : i.task # j.task
    <2>1. ASSUME NEW i \in executing, NEW j \in taskQueue \cup Range(deque), i.task = j.task
          PROVE  FALSE
        BY <1>1, <2>1, TaskNamesRun DEF Outstanding
    <2>2. QED
        BY <2>1
<1>3. CASE UNCHANGED workerVars
    BY <1>3 DEF workerVars, SlotInv, Slots, Served
<1>4. CASE Dispatch
    <2>1. PICK item \in taskQueue : AssignTask(item)
        BY <1>4 DEF Dispatch
    <2> DEFINE q == Append(deque, item)
    <2>2. ProcessNext(q) /\ UNCHANGED <<running, resuming, stops>>
        BY <2>1 DEF AssignTask
    <2>3. item \in ItemType /\ item \notin Range(deque)
        BY <1>1, TrackedTypes DEF Inv, Typed, Tracking, Outstanding
    <2>4. /\ q \in Seq(ItemType) /\ q # <<>> /\ Injective(q) /\ Range(q) = Range(deque) \cup {item}
          /\ SubSeq(q, 1, Len(q) - 1) = deque
        BY <1>1, <2>3, PushItem
    <2> HIDE DEF q
    <2>5. executing \cap Range(q) = {} /\ \A i \in executing, j \in Range(q) : i.task # j.task
        BY <1>1, <1>2, <2>4
    <2>6. /\ Slots'
          /\ \/ /\ deque' = SubSeq(q, 1, Len(q) - 1)
                /\ Cardinality(active') = Cardinality(active) + 1
             \/ /\ deque' = q /\ UNCHANGED active
                /\ running /\ q # <<>> => Cardinality(active) >= Concurrency
        BY <1>1, <2>2, <2>4, <2>5, ProcessNextSlots
    <2>7. Served'
        <3>1. CASE deque' = deque /\ Cardinality(active') = Cardinality(active) + 1
            BY <1>1, <2>2, <3>1 DEF SlotInv, Served
        <3>2. CASE active' = active /\ (running => Cardinality(active) >= Concurrency)
            BY <1>1, <2>2, <3>2 DEF SlotInv, Served
        <3>3. QED
            BY <2>4, <2>6, <3>1, <3>2
    <2>8. QED
        BY <2>6, <2>7 DEF SlotInv
<1>5. ASSUME NEW item \in executing, Finish(item)
      PROVE  SlotInv'
    <2>1. /\ executing' = executing \ {item} /\ active' = active \ {item.task}
          /\ resuming' = resuming + 1 /\ UNCHANGED <<running, deque, stops>>
        BY <1>5 DEF Finish
    <2>2. active = {i.task : i \in executing} /\ item.task \in active
        BY <1>1 DEF Slots
    <2>3. \A i \in executing : i.task = item.task => i = item
        BY TaskNamesRun DEF Outstanding
    <2>4. active' = {i.task : i \in executing'}
        BY <2>1, <2>2, <2>3
    <2>5. /\ IsFiniteSet(executing') /\ Cardinality(executing') = Cardinality(executing) - 1
          /\ IsFiniteSet(active') /\ Cardinality(active') = Cardinality(active) - 1
        BY <1>1, <2>1, <2>2, FS_RemoveElement
    <2>6. Slots'
        BY <1>1, <2>4, <2>5 DEF Slots
    <2>7. Served'
        BY <1>1, <2>1, <2>5 DEF SlotInv, Served
    <2>8. QED
        BY <2>6, <2>7 DEF SlotInv
<1>6. CASE Continue
    <2>1. /\ ProcessNext(deque) /\ UNCHANGED <<running, stops>>
          /\ resuming > 0 /\ resuming' = resuming - 1
        BY <1>6 DEF Continue, Resume
    <2>2. /\ Slots'
          /\ \/ /\ deque' = SubSeq(deque, 1, Len(deque) - 1)
                /\ Cardinality(active') = Cardinality(active) + 1
             \/ /\ deque' = deque /\ UNCHANGED active
                /\ running /\ deque # <<>> => Cardinality(active) >= Concurrency
        <3>1. executing \cap Range(deque) = {}
            BY <1>1
        <3>2. \A i \in executing, j \in Range(deque) : i.task # j.task
            BY <1>2
        <3>3. QED
            BY <1>1, <2>1, <3>1, <3>2, ProcessNextSlots
    <2>3. Served'
        <3>1. CASE Cardinality(active') = Cardinality(active) + 1 /\ deque # <<>>
            BY <1>1, <2>1, <3>1 DEF SlotInv, Served
        <3>2. CASE deque = <<>> /\ deque' = <<>>
            BY <2>1, <3>2 DEF SlotInv, Served
        <3>3. CASE /\ deque' = deque /\ active' = active
                   /\ running /\ deque # <<>> => Cardinality(active) >= Concurrency
            BY <1>1, <2>1, <3>3 DEF SlotInv, Served
        <3>4. deque = <<>> => SubSeq(deque, 1, Len(deque) - 1) = <<>>
            OBVIOUS
        <3>5. QED
            BY <2>2, <3>1, <3>2, <3>3, <3>4
    <2>4. QED
        BY <2>2, <2>3 DEF SlotInv
<1>7. CASE Stop
    BY <1>1, <1>7 DEF Stop, StopWorker, SlotInv, Slots, Served
<1>8. CASE Start
    BY <1>1, <1>8 DEF Start, StartWorker, SlotInv, Slots, Served
<1>9. QED
    BY <1>3, <1>4, <1>5, <1>6, <1>7, <1>8 DEF Next, Submit, Report, Retry, vars

LEMMA SlotInvInit == Init => SlotInv
<1>1. {} = {i.task : i \in {}}
    OBVIOUS
<1>2. QED
    BY <1>1, FS_EmptySet DEF Init, WorkerInit, SlotInv, Slots, Served

\* There are never more child processes than slots, though the worker counts a
\* map whose keys are the ids of tasks.
THEOREM SlotsAreRespected ==
    ASSUME SubmittedOnce, DistinctTasks
    PROVE  Spec => []SlotsRespected
<1>1. Inv /\ SlotInv /\ [Next]_vars => SlotInv'
    BY SlotInvNext
<1>2. SlotInv => SlotsRespected
    BY DEF SlotInv, Slots, SlotsRespected
<1>3. QED
    BY <1>1, <1>2, SlotInvInit, InvAlways, PTL DEF Spec

\* A worker that was never stopped leaves no task waiting beside a free slot, once
\* its finished runs have looked for the next.
THEOREM NoSlotIsIdle ==
    ASSUME SubmittedOnce, DistinctTasks
    PROVE  Spec => []NoIdleSlot
<1>1. Inv /\ SlotInv /\ [Next]_vars => SlotInv'
    BY SlotInvNext
<1>2. Inv /\ SlotInv => NoIdleSlot
    <2>1. ASSUME Inv, SlotInv, stops = 0, resuming = 0, deque # <<>>
          PROVE  Cardinality(active) >= Concurrency
        <3>1. Cardinality(active) \in Nat /\ Concurrency \in Nat
            BY <2>1, FS_CardinalityType DEF SlotInv, Slots
        <3>2. QED
            BY <2>1, <3>1 DEF SlotInv, Served
    <2>2. QED
        BY <2>1 DEF NoIdleSlot
<1>3. QED
    BY <1>1, <1>2, SlotInvInit, InvAlways, PTL DEF Spec

-----------------------------------------------------------------------------
(* What is over.                                                           *)

\* A workflow is over for a reason that stays.
Over(w) ==
    /\ w.state = "COMPLETED" => Completed(w) = Tasks(w.job)
    /\ w.state = "FAILED" => \E t \in Tasks(w.job) : w.tasks[t].attempts > MaxRetries

AllOver == \A k \in 1..Len(instances) : Over(instances[k])

Keeps(old, new) ==
    /\ old.state # "RUNNING" => new.state = old.state
    /\ Completed(old) \subseteq Completed(new)

LEMMA SameJob ==
    ASSUME Inv, Inv', UNCHANGED current, NEW k \in 1..Len(instances), NEW y \in WorkflowInstance,
           instances' = [instances EXCEPT ![k] = y]
    PROVE  y.job = instances[k].job
<1>1. instances'[k] = y /\ k # 0
    BY ExceptSeq DEF Inv, Typed
<1>2. instances[k].job \in Job /\ current[instances[k].job] = k
    BY ElementOfSeq, InstanceFields DEF Inv, Typed, OneEach
<1>3. instances'[current'[instances[k].job]].job = instances[k].job
    BY <1>1, <1>2 DEF Inv, OneEach
<1>4. QED
    BY <1>1, <1>2, <1>3

LEMMA ReplacedIsOver ==
    ASSUME Inv, AllOver, NEW k \in 1..Len(instances), NEW y \in WorkflowInstance,
           Over(y), Keeps(instances[k], y), instances' = [instances EXCEPT ![k] = y]
    PROVE  AllOver' /\ \A l \in 1..Len(instances) : Keeps(instances[l], instances'[l])
<1>1. /\ Len(instances') = Len(instances)
      /\ \A l \in 1..Len(instances) : instances'[l] = IF l = k THEN y ELSE instances[l]
    BY ExceptSeq DEF Inv, Typed
<1>2. \A w : Keeps(w, w)
    BY DEF Keeps
<1>3. QED
    BY <1>1, <1>2 DEF AllOver

LEMMA OverNext ==
    ASSUME SubmittedOnce, Inv, AllOver, [Next]_vars
    PROVE  AllOver' /\ \A k \in 1..Len(instances) : Keeps(instances[k], instances'[k])
<1>1. CASE UNCHANGED instances
    BY <1>1 DEF AllOver, Keeps
<1>2. ASSUME NEW j \in Job, Submit(j)
      PROVE  AllOver' /\ \A k \in 1..Len(instances) : Keeps(instances[k], instances'[k])
    <2> DEFINE L == Len(instances)
    <2>1. /\ \A l \in 1..L : instances'[l] = instances[l]
          /\ instances'[L + 1].state = "RUNNING"
        BY <1>2, SubmitStep
    <2>2. Len(instances') = L + 1 /\ L \in Nat
        <3>1. L \in Nat /\ NewInstance(j) \in WorkflowInstance /\ instances \in Seq(WorkflowInstance)
            BY LenProperties, NewInstanceFields DEF Inv, Typed
        <3>2. PICK x : instances' = [Append(instances, NewInstance(j)) EXCEPT ![L + 1] = x]
            BY <1>2 DEF Submit, SubmitWorkflow, ScheduleReadyTasks
        <3>3. Len(Append(instances, NewInstance(j))) = L + 1
            BY <3>1, AppendProperties
        <3>4. Len([Append(instances, NewInstance(j)) EXCEPT ![L + 1] = x]) = L + 1
            BY <3>1, <3>3
        <3>5. QED
            BY <3>1, <3>2, <3>4
    <2>3. \A l \in 1..(L + 1) : l \in 1..L \/ l = L + 1
        BY <2>2
    <2> HIDE DEF L
    <2>4. AllOver'
        <3>1. \A l \in 1..L : Over(instances[l])
            BY DEF AllOver, L
        <3>2. \A l \in 1..(L + 1) : Over(instances'[l])
            BY <2>1, <2>3, <3>1 DEF Over
        <3>3. QED
            BY <2>2, <3>2 DEF AllOver
    <2>5. \A l \in 1..L : Keeps(instances[l], instances'[l])
        BY <2>1 DEF Keeps
    <2>6. QED
        BY <2>4, <2>5 DEF L
<1>3. ASSUME NEW item \in executing, NEW succeeded \in BOOLEAN, Report(item, succeeded)
      PROVE  AllOver' /\ \A k \in 1..Len(instances) : Keeps(instances[k], instances'[k])
    <2> DEFINE k == item.instance
               t == item.task
               w == instances[k]
               a == w.tasks[t].attempts + 1
    <2>1. /\ k \in 1..Len(instances) /\ w \in WorkflowInstance /\ t \in Tasks(w.job)
          /\ w.tasks[t].state = "RUNNING"
        BY ItemOf DEF Outstanding
    <2>2. /\ Over(w) /\ Sound(w) /\ DOMAIN w.tasks = Tasks(w.job) /\ a \in Nat
        <3>1. Over(w) /\ Sound(w)
            BY <2>1 DEF AllOver, Inv, AllSound
        <3>2. DOMAIN w.tasks = Tasks(w.job) /\ w.tasks[t].attempts \in Nat
            BY <2>1, InstanceFields
        <3>3. QED
            BY <3>1, <3>2
    <2>3. t \notin Completed(w) /\ Completed(w) \subseteq Tasks(w.job)
        BY <2>1, <2>2 DEF Completed
    <2>4. w.state # "COMPLETED"
        BY <2>1, <2>2, <2>3 DEF Over
    <2>5. \A u \in Tasks(w.job) : w.tasks[u].attempts > MaxRetries => u \notin Completed(w) /\ u # t
        BY <2>1, <2>2 DEF Sound, Completed
    <2>6. \E y \in WorkflowInstance : /\ instances' = [instances EXCEPT ![k] = y]
                                      /\ Over(y) /\ Keeps(w, y)
        <3>1. CASE succeeded = TRUE
            <4>1. PICK y \in WorkflowInstance :
                    /\ instances' = [instances EXCEPT ![k] = y]
                    /\ Completed(y) = Completed(w) \cup {t}
                    /\ y.state = IF Completed(y) = Tasks(w.job) THEN "COMPLETED" ELSE w.state
                    /\ \A u \in Tasks(w.job) : y.tasks[u].attempts = w.tasks[u].attempts
                BY <1>3, <3>1, SuccessStep
            <4>2. y.job = w.job
                <5>1. Inv' /\ UNCHANGED current
                    BY <1>3, <3>1, SuccessStep
                <5>2. QED
                    BY <2>1, <4>1, <5>1, SameJob
            <4> HIDE DEF k, t, w, a
            <4>3. CASE Completed(y) = Tasks(w.job)
                <5>1. w.state # "FAILED"
                    BY <2>2, <2>5, <4>1, <4>3 DEF Over
                <5>2. w.state = "RUNNING"
                    BY <2>1, <2>4, <5>1, InstanceFields
                <5>3. QED
                    BY <4>1, <4>2, <4>3, <5>2 DEF Over, Keeps
            <4>4. CASE Completed(y) # Tasks(w.job)
                BY <2>2, <2>4, <4>1, <4>2, <4>4 DEF Over, Keeps
            <4>5. QED
                BY <4>1, <4>3, <4>4
        <3>2. CASE succeeded = FALSE
            <4>1. PICK y \in WorkflowInstance :
                    /\ instances' = [instances EXCEPT ![k] = y]
                    /\ Completed(y) = Completed(w)
                    /\ y.state = IF a <= MaxRetries THEN w.state ELSE "FAILED"
                    /\ \A u \in Tasks(w.job) :
                            y.tasks[u].attempts = IF u = t THEN a ELSE w.tasks[u].attempts
                BY <1>3, <3>2, FailureStep
            <4>2. y.job = w.job
                <5>1. Inv' /\ UNCHANGED current
                    BY <1>3, <3>2, FailureStep
                <5>2. QED
                    BY <2>1, <4>1, <5>1, SameJob
            <4> HIDE DEF k, t, w, a
            <4>3. y.tasks[t].attempts = a
                BY <2>1, <4>1
            <4>4. CASE a <= MaxRetries
                <5>1. y.state = w.state
                    BY <4>1, <4>4
                <5>2. w.state = "FAILED" => \E u \in Tasks(w.job) : y.tasks[u].attempts > MaxRetries
                    BY <2>2, <2>5, <4>1 DEF Over
                <5>3. QED
                    BY <2>4, <4>1, <4>2, <5>1, <5>2 DEF Over, Keeps
            <4>5. CASE ~(a <= MaxRetries)
                <5>1. y.state = "FAILED" /\ y.tasks[t].attempts > MaxRetries
                    BY <2>2, <4>1, <4>3, <4>5
                <5>2. w.state \in {"RUNNING", "FAILED"}
                    BY <2>1, <2>4, InstanceFields
                <5>3. QED
                    BY <2>1, <4>1, <4>2, <5>1, <5>2 DEF Over, Keeps
            <4>6. QED
                BY <4>1, <4>4, <4>5
        <3>3. QED
            BY <3>1, <3>2
    <2> HIDE DEF k, t
    <2>7. QED
        BY <2>1, <2>6, ReplacedIsOver
<1>4. CASE Dispatch \/ Continue
    BY <1>1, <1>4, DispatchStep, ContinueStep
<1>5. CASE Retry
    <2>1. PICK k \in 1..Len(instances), y \in WorkflowInstance :
                instances' = [instances EXCEPT ![k] = y] /\ Alike(instances[k], y)
        BY <1>5, RetryStep
    <2>2. y.job = instances[k].job
        <3>1. Inv' /\ UNCHANGED current
            BY <1>5, RetryStep
        <3>2. QED
            BY <2>1, <3>1, SameJob
    <2>3. Over(instances[k])
        BY DEF AllOver
    <2>4. Over(y) /\ Keeps(instances[k], y)
        BY <2>1, <2>2, <2>3 DEF Alike, Over, Keeps
    <2>5. QED
        BY <2>1, <2>4, ReplacedIsOver
<1>6. CASE Stop \/ Start
    BY <1>1, <1>6, StopOrStartStep
<1>7. CASE UNCHANGED vars
    BY <1>1, <1>7 DEF vars, schedulerVars
<1>8. QED
    BY <1>2, <1>3, <1>4, <1>5, <1>6, <1>7 DEF Next

\* A task that completed stays so and a workflow that is over stays as it is,
\* whatever results and retries of its other tasks come later: the handlers look at
\* neither.
THEOREM OverStaysOver ==
    ASSUME SubmittedOnce
    PROVE  Spec => OverIsOver
<1>1. Init => AllOver
    BY DEF Init, SchedulerInit, AllOver
<1>2. Inv /\ AllOver /\ [Next]_vars => AllOver'
    BY OverNext
<1>3. Inv /\ AllOver /\ [Next]_vars =>
            [\A k \in DOMAIN instances :
                LET old == instances[k]
                    new == instances'[k]
                IN  /\ old.state # "RUNNING" => new.state = old.state
                    /\ Completed(old) \subseteq Completed(new)]_vars
    <2> SUFFICES ASSUME Inv, AllOver, [Next]_vars, NEW k \in DOMAIN instances
                 PROVE  /\ instances[k].state # "RUNNING" => instances'[k].state = instances[k].state
                        /\ Completed(instances[k]) \subseteq Completed(instances'[k])
        OBVIOUS
    <2>1. k \in 1..Len(instances)
        BY LenProperties DEF Inv, Typed
    <2>2. QED
        BY <2>1, OverNext DEF Keeps
<1>4. QED
    BY <1>1, <1>2, <1>3, InvAlways, PTL DEF Spec, OverIsOver

-----------------------------------------------------------------------------
(* The contract.                                                           *)

Becomes(k, y) == instances' = [instances EXCEPT ![k] = y] /\ UNCHANGED current

\* What the contract sees when the instance w of job j becomes y.
Seen(j, w, y) ==
    /\ JobStates' = [JobStates EXCEPT ![j] = y.state]
    /\ JobsDone' = [JobsDone EXCEPT ![j] = Completed(y)]
    /\ JobsFailed' = [JobsFailed EXCEPT ![j] = [t \in Tasks(j) |-> y.tasks[t].attempts]]
    /\ JobStates[j] = w.state /\ JobsDone[j] = Completed(w)
    /\ JobsFailed[j] = [t \in Tasks(j) |-> w.tasks[t].attempts]

LEMMA ContractView ==
    ASSUME Inv, NEW k \in 1..Len(instances), NEW y \in WorkflowInstance, NEW j, j = instances[k].job,
           Becomes(k, y)
    PROVE  j \in Job /\ Seen(j, instances[k], y)
<1>1. /\ instances \in Seq(WorkflowInstance) /\ j \in Job /\ current[j] = k /\ k # 0
    <2>1. instances \in Seq(WorkflowInstance) /\ instances[k] \in WorkflowInstance
        BY ElementOfSeq DEF Inv, Typed
    <2>2. QED
        BY <2>1, InstanceFields DEF Inv, OneEach
<1>2. /\ instances'[k] = y
      /\ \A l \in 1..Len(instances) : l # k => instances'[l] = instances[l]
    BY <1>1, ExceptSeq DEF Becomes
<1>3. \A h \in Job : h # j /\ current[h] # 0 => InstanceOf(h)' = InstanceOf(h)
    <2>1. ASSUME NEW h \in Job, h # j, current[h] # 0
          PROVE  InstanceOf(h)' = InstanceOf(h)
        <3>1. current[h] \in 1..Len(instances) /\ current[h] # k
            BY <1>1, <2>1, CurrentExists
        <3>2. QED
            BY <1>2, <3>1 DEF InstanceOf, Becomes
    <2>2. QED
        BY <2>1
<1>4. InstanceOf(j)' = y /\ InstanceOf(j) = instances[k] /\ current'[j] # 0 /\ current[j] # 0
    BY <1>1, <1>2 DEF InstanceOf, Becomes
<1>5. JobStates' = [JobStates EXCEPT ![j] = y.state] /\ JobStates[j] = instances[k].state
    BY <1>1, <1>3, <1>4 DEF JobStates, Becomes
<1>6. JobsDone' = [JobsDone EXCEPT ![j] = Completed(y)] /\ JobsDone[j] = Completed(instances[k])
    BY <1>1, <1>3, <1>4 DEF JobsDone, Becomes
<1>7. /\ JobsFailed' = [JobsFailed EXCEPT ![j] = [t \in Tasks(j) |-> y.tasks[t].attempts]]
      /\ JobsFailed[j] = [t \in Tasks(j) |-> instances[k].tasks[t].attempts]
    <2>1. JobsFailed'[j] = [t \in Tasks(j) |-> y.tasks[t].attempts]
        BY <1>1, <1>4 DEF JobsFailed, Becomes
    <2>2. JobsFailed[j] = [t \in Tasks(j) |-> instances[k].tasks[t].attempts]
        BY <1>1, <1>4 DEF JobsFailed
    <2>3. \A h \in Job : h # j => JobsFailed'[h] = JobsFailed[h]
        BY <1>3 DEF JobsFailed, Becomes
    <2>4. JobsFailed = [h \in Job |-> JobsFailed[h]] /\ JobsFailed' = [h \in Job |-> JobsFailed'[h]]
        BY DEF JobsFailed
    <2> HIDE DEF JobsFailed
    <2>5. QED
        BY <2>1, <2>2, <2>3, <2>4
<1>8. QED
    BY <1>1, <1>5, <1>6, <1>7 DEF Seen

LEMMA SameView ==
    ASSUME UNCHANGED <<instances, current, executing>>
    PROVE  UNCHANGED Contract!vars
BY DEF Contract!vars, JobStates, JobsDone, JobsFailed, JobsRun, InstanceOf

LEMMA RunIsAllowed ==
    ASSUME Inv, UNCHANGED <<instances, current>>, MayStart
    PROVE  [Contract!Next]_(Contract!vars)
<1>1. CASE executing' = executing
    BY <1>1, SameView
<1>2. ASSUME NEW item \in Outstanding \ executing, executing' = executing \cup {item}
      PROVE  Contract!Next
    <2> DEFINE j == item.job
               t == item.task
               k == item.instance
               w == instances[k]
    <2>1. /\ k \in 1..Len(instances) /\ w \in WorkflowInstance /\ t \in Tasks(j)
          /\ item = Item(k, w, t) /\ j = w.job /\ j \in Job /\ current[j] = k
          /\ w.tasks[t].state = "RUNNING"
        BY ItemOf
    <2>2. JobStates[j] = w.state /\ JobsDone[j] = Completed(w) /\ JobsFailed[j][t] = w.tasks[t].attempts
        <3>1. InstanceOf(j) = w /\ current[j] # 0
            BY <2>1 DEF InstanceOf
        <3> HIDE DEF j, t, w
        <3>2. JobStates[j] = w.state /\ JobsDone[j] = Completed(w)
            BY <2>1, <3>1 DEF JobStates, JobsDone
        <3>3. JobsFailed[j][t] = w.tasks[t].attempts
            BY <2>1, <3>1 DEF JobsFailed
        <3>4. QED
            BY <3>2, <3>3
    <2>3. /\ w.state \in {"RUNNING", "COMPLETED", "FAILED"} /\ w.tasks[t].attempts \in Nat
          /\ Deps[j][t] \subseteq Completed(w) /\ ~(w.tasks[t].attempts > MaxRetries)
        BY <2>1, InstanceFields DEF Inv, AllSound, Sound
    <2>4. t \notin Completed(w)
        BY <2>1 DEF Completed
    <2>5. \A e \in executing : e.job = j => e.task # t
        <3>1. ASSUME NEW e \in executing, e.job = j, e.task = t
              PROVE  FALSE
            <4>1. e \in Outstanding
                BY DEF Outstanding
            <4>2. current[e.job] = e.instance /\ e = Item(e.instance, instances[e.instance], e.task)
                BY <4>1, ItemOf
            <4>3. e = item
                BY <2>1, <3>1, <4>2
            <4>4. QED
                BY <1>2, <4>3
        <3>2. QED
            BY <3>1
    <2>6. t \notin JobsRun[j]
        BY <2>1, <2>5 DEF JobsRun
    <2>7. JobsRun' = [JobsRun EXCEPT ![j] = @ \cup {t}]
        <3>1. JobsRun'[j] = JobsRun[j] \cup {t}
            BY <1>2, <2>1 DEF JobsRun
        <3>2. \A h \in Job : h # j => JobsRun'[h] = JobsRun[h]
            BY <1>2 DEF JobsRun
        <3>3. JobsRun = [h \in Job |-> JobsRun[h]] /\ JobsRun' = [h \in Job |-> JobsRun'[h]]
            BY DEF JobsRun
        <3> HIDE DEF j, t
        <3>4. QED
            BY <3>1, <3>2, <3>3
    <2>8. UNCHANGED <<JobStates, JobsDone, JobsFailed>>
        BY DEF JobStates, JobsDone, JobsFailed, InstanceOf
    <2> HIDE DEF j, t, k, w
    <2>9. Contract!Run(j, t)
        BY <2>1, <2>2, <2>3, <2>4, <2>6, <2>7, <2>8 DEF Contract!Run, Contract!Tasks, Tasks
    <2>10. QED
        BY <2>1, <2>9 DEF Contract!Next, Contract!Tasks, Tasks
<1>3. QED
    BY <1>1, <1>2 DEF MayStart

LEMMA EndedRun ==
    ASSUME Inv, NEW item \in executing, executing' = executing \ {item}
    PROVE  /\ item.job \in Job /\ item.task \in Tasks(item.job) /\ item.task \in JobsRun[item.job]
           /\ JobsRun' = [JobsRun EXCEPT ![item.job] = @ \ {item.task}]
           /\ item.instance \in 1..Len(instances) /\ item.job = instances[item.instance].job
<1> DEFINE j == item.job
           t == item.task
<1>1. /\ j \in Job /\ t \in Tasks(j) /\ item = Item(item.instance, instances[item.instance], t)
      /\ current[j] = item.instance
      /\ item.instance \in 1..Len(instances) /\ j = instances[item.instance].job
    BY ItemOf DEF Outstanding
<1>2. \A e \in executing : e.job = j /\ e.task = t => e = item
    <2>1. ASSUME NEW e \in executing, e.job = j, e.task = t
          PROVE  e = item
        <3>1. current[e.job] = e.instance /\ e = Item(e.instance, instances[e.instance], e.task)
            BY ItemOf DEF Outstanding
        <3>2. QED
            BY <1>1, <2>1, <3>1
    <2>2. QED
        BY <2>1
<1>3. t \in JobsRun[j]
    BY <1>1 DEF JobsRun
<1>4. JobsRun'[j] = JobsRun[j] \ {t}
    BY <1>1, <1>2 DEF JobsRun
<1>5. \A h \in Job : h # j => JobsRun'[h] = JobsRun[h]
    BY DEF JobsRun
<1>6. JobsRun = [h \in Job |-> JobsRun[h]] /\ JobsRun' = [h \in Job |-> JobsRun'[h]]
    BY DEF JobsRun
<1> HIDE DEF j, t
<1>7. JobsRun' = [JobsRun EXCEPT ![j] = @ \ {t}]
    BY <1>1, <1>4, <1>5, <1>6
<1>8. QED
    BY <1>1, <1>3, <1>7 DEF j, t

LEMMA SuccessIsAllowed ==
    ASSUME Inv, NEW item \in executing, Report(item, TRUE)
    PROVE  Contract!Next
<1> DEFINE j == item.job
           t == item.task
           k == item.instance
           w == instances[k]
<1>1. UNCHANGED current /\ executing' = executing \ {item}
    BY SuccessStep
<1>2. PICK y \in WorkflowInstance :
            /\ instances' = [instances EXCEPT ![k] = y]
            /\ Completed(y) = Completed(w) \cup {t}
            /\ y.state = IF Completed(y) = Tasks(w.job) THEN "COMPLETED" ELSE w.state
            /\ \A u \in Tasks(w.job) : y.tasks[u].attempts = w.tasks[u].attempts
    BY SuccessStep
<1>3. /\ j \in Job /\ t \in Tasks(j) /\ t \in JobsRun[j]
      /\ JobsRun' = [JobsRun EXCEPT ![j] = @ \ {t}]
      /\ k \in 1..Len(instances) /\ j = w.job
    BY <1>1, EndedRun
<1>4. w = instances[k]
    OBVIOUS
<1> HIDE DEF j, t, k, w
<1>5. /\ JobStates' = [JobStates EXCEPT ![j] = y.state]
      /\ JobsDone' = [JobsDone EXCEPT ![j] = Completed(y)]
      /\ JobsFailed' = [JobsFailed EXCEPT ![j] = [u \in Tasks(j) |-> y.tasks[u].attempts]]
      /\ JobStates[j] = w.state /\ JobsDone[j] = Completed(w)
      /\ JobsFailed[j] = [u \in Tasks(j) |-> w.tasks[u].attempts]
    <2>1. Becomes(k, y)
        BY <1>1, <1>2 DEF Becomes
    <2>2. Seen(j, w, y)
        BY <1>3, <1>4, <2>1, ContractView
    <2>3. QED
        BY <2>2 DEF Seen
<1>6. JobsDone' = [JobsDone EXCEPT ![j] = @ \cup {t}]
    BY <1>2, <1>5
<1>7. JobsDone'[j] = Completed(y)
    BY <1>3, <1>5 DEF JobsDone
<1>8. JobStates' = [JobStates EXCEPT ![j] = IF JobsDone'[j] = Tasks(j) THEN "COMPLETED" ELSE @]
    BY <1>2, <1>3, <1>5, <1>7
<1>9. JobsFailed' = JobsFailed
    <2>1. [u \in Tasks(j) |-> y.tasks[u].attempts] = JobsFailed[j]
        BY <1>2, <1>3, <1>5
    <2>2. JobsFailed' = [JobsFailed EXCEPT ![j] = JobsFailed[j]]
        BY <1>5, <2>1
    <2>3. JobsFailed = [h \in Job |-> JobsFailed[h]]
        BY DEF JobsFailed
    <2>4. QED
        BY <2>2, <2>3
<1>10. Contract!Complete(j, t)
    BY <1>3, <1>6, <1>8, <1>9 DEF Contract!Complete, Contract!Tasks, Tasks
<1>11. QED
    BY <1>3, <1>10 DEF Contract!Next, Contract!Tasks, Tasks

LEMMA FailureIsAllowed ==
    ASSUME Inv, NEW item \in executing, Report(item, FALSE)
    PROVE  Contract!Next
<1> DEFINE j == item.job
           t == item.task
           k == item.instance
           w == instances[k]
           a == w.tasks[t].attempts + 1
<1>1. UNCHANGED current /\ executing' = executing \ {item}
    BY FailureStep
<1>2. PICK y \in WorkflowInstance :
            /\ instances' = [instances EXCEPT ![k] = y]
            /\ Completed(y) = Completed(w)
            /\ y.state = IF a <= MaxRetries THEN w.state ELSE "FAILED"
            /\ \A u \in Tasks(w.job) : y.tasks[u].attempts = IF u = t THEN a ELSE w.tasks[u].attempts
    BY FailureStep
<1>3. /\ j \in Job /\ t \in Tasks(j) /\ t \in JobsRun[j]
      /\ JobsRun' = [JobsRun EXCEPT ![j] = @ \ {t}]
      /\ k \in 1..Len(instances) /\ j = w.job
    BY <1>1, EndedRun
<1>4. w = instances[k] /\ a = w.tasks[t].attempts + 1
    OBVIOUS
<1> HIDE DEF j, t, k, w, a
<1>5. /\ JobStates' = [JobStates EXCEPT ![j] = y.state]
      /\ JobsDone' = [JobsDone EXCEPT ![j] = Completed(y)]
      /\ JobsFailed' = [JobsFailed EXCEPT ![j] = [u \in Tasks(j) |-> y.tasks[u].attempts]]
      /\ JobStates[j] = w.state /\ JobsDone[j] = Completed(w)
      /\ JobsFailed[j] = [u \in Tasks(j) |-> w.tasks[u].attempts]
    <2>1. Becomes(k, y)
        BY <1>1, <1>2 DEF Becomes
    <2>2. Seen(j, w, y)
        BY <1>3, <1>4, <2>1, ContractView
    <2>3. QED
        BY <2>2 DEF Seen
<1>6. a \in Nat
    <2>1. w \in WorkflowInstance
        BY <1>3, <1>4, ElementOfSeq DEF Inv, Typed
    <2>2. w.tasks[t].attempts \in Nat
        BY <1>3, <2>1, InstanceFields
    <2>3. QED
        BY <1>4, <2>2
<1>7. JobsDone' = JobsDone
    <2>1. JobsDone' = [JobsDone EXCEPT ![j] = JobsDone[j]]
        BY <1>2, <1>5
    <2>2. JobsDone = [h \in Job |-> JobsDone[h]]
        BY DEF JobsDone
    <2>3. QED
        BY <2>1, <2>2
<1>8. JobsFailed' = [JobsFailed EXCEPT ![j][t] = @ + 1]
    <2>1. [u \in Tasks(j) |-> y.tasks[u].attempts] = [JobsFailed[j] EXCEPT ![t] = @ + 1]
        <3>1. JobsFailed[j][t] + 1 = a
            BY <1>3, <1>4, <1>5
        <3>2. \A u \in Tasks(j) : y.tasks[u].attempts = IF u = t THEN a ELSE JobsFailed[j][u]
            BY <1>2, <1>3, <1>5
        <3>3. DOMAIN JobsFailed[j] = Tasks(j)
            BY <1>5
        <3>4. JobsFailed[j] = [u \in Tasks(j) |-> JobsFailed[j][u]]
            BY <1>5
        <3>5. QED
            BY <1>3, <3>1, <3>2, <3>3, <3>4
    <2>2. QED
        BY <1>5, <2>1
<1>9. JobsFailed'[j][t] = a
    <2>1. JobsFailed'[j] = [u \in Tasks(j) |-> y.tasks[u].attempts]
        BY <1>3, <1>5 DEF JobsFailed
    <2>2. QED
        BY <1>2, <1>3, <2>1
<1>10. JobStates' = [JobStates EXCEPT ![j] = IF JobsFailed'[j][t] > MaxRetries THEN "FAILED" ELSE @]
    <2>1. CASE a <= MaxRetries
        <3>1. y.state = JobStates[j] /\ ~(JobsFailed'[j][t] > MaxRetries)
            BY <1>2, <1>5, <1>6, <1>9, <2>1
        <3>2. QED
            BY <1>5, <3>1
    <2>2. CASE ~(a <= MaxRetries)
        <3>1. y.state = "FAILED" /\ JobsFailed'[j][t] > MaxRetries
            BY <1>2, <1>6, <1>9, <2>2
        <3>2. QED
            BY <1>5, <3>1
    <2>3. QED
        BY <2>1, <2>2
<1>11. Contract!Fail(j, t)
    BY <1>3, <1>7, <1>8, <1>10 DEF Contract!Fail
<1>12. QED
    BY <1>3, <1>11 DEF Contract!Next, Contract!Tasks, Tasks

LEMMA SubmissionIsAllowed ==
    ASSUME Inv, SubmittedOnce, NEW j \in Job, Submit(j)
    PROVE  Contract!Next
<1> DEFINE k == Len(instances) + 1
<1>1. /\ current[j] = 0 /\ current' = [current EXCEPT ![j] = k]
      /\ \A l \in 1..Len(instances) : instances'[l] = instances[l]
      /\ instances'[k].state = "RUNNING" /\ Completed(instances'[k]) = {}
      /\ \A t \in Tasks(j) : instances'[k].tasks[t].attempts = 0
      /\ UNCHANGED executing
    BY SubmitStep
<1>2. k # 0 /\ current \in [Job -> 0..Len(instances)]
    BY LenProperties DEF Inv, Typed
<1> HIDE DEF k
<1>3. current'[j] = k /\ InstanceOf(j)' = instances'[k]
    BY <1>1, <1>2 DEF InstanceOf
<1>4. \A h \in Job : h # j => /\ current'[h] = current[h]
                              /\ current[h] # 0 => InstanceOf(h)' = InstanceOf(h)
    BY <1>1, <1>2, CurrentExists DEF InstanceOf
<1>5. JobStates[j] = "NONE" /\ JobStates' = [JobStates EXCEPT ![j] = "RUNNING"]
    <2>1. JobStates'[j] = "RUNNING" /\ JobStates[j] = "NONE"
        BY <1>1, <1>2, <1>3 DEF JobStates
    <2>2. \A h \in Job : h # j => JobStates'[h] = JobStates[h]
        BY <1>4 DEF JobStates
    <2>3. JobStates = [h \in Job |-> JobStates[h]] /\ JobStates' = [h \in Job |-> JobStates'[h]]
        BY DEF JobStates
    <2> HIDE DEF JobStates
    <2>4. QED
        BY <2>1, <2>2, <2>3
<1>6. UNCHANGED JobsDone
    BY <1>1, <1>2, <1>3, <1>4 DEF JobsDone
<1>7. UNCHANGED JobsFailed
    <2>1. JobsFailed'[j] = [t \in Tasks(j) |-> 0] /\ JobsFailed[j] = [t \in Tasks(j) |-> 0]
        BY <1>1, <1>2, <1>3 DEF JobsFailed
    <2>2. \A h \in Job : h # j => JobsFailed'[h] = JobsFailed[h]
        BY <1>4 DEF JobsFailed
    <2>3. JobsFailed = [h \in Job |-> JobsFailed[h]] /\ JobsFailed' = [h \in Job |-> JobsFailed'[h]]
        BY DEF JobsFailed
    <2> HIDE DEF JobsFailed
    <2>4. QED
        BY <2>1, <2>2, <2>3
<1>8. UNCHANGED JobsRun
    BY <1>1 DEF JobsRun
<1>9. Contract!Submit(j)
    BY <1>5, <1>6, <1>7, <1>8 DEF Contract!Submit
<1>10. QED
    BY <1>9 DEF Contract!Next

LEMMA ContractNext ==
    ASSUME SubmittedOnce, Inv, [Next]_vars
    PROVE  [Contract!Next]_(Contract!vars)
<1>1. ASSUME NEW j \in Job, Submit(j) PROVE Contract!Next
    BY <1>1, SubmissionIsAllowed
<1>2. CASE Dispatch \/ Continue
    BY <1>2, DispatchStep, ContinueStep, RunIsAllowed
<1>3. ASSUME NEW item \in executing, NEW succeeded \in BOOLEAN, Report(item, succeeded)
      PROVE  Contract!Next
    <2>1. CASE succeeded = TRUE
        BY <1>3, <2>1, SuccessIsAllowed
    <2>2. CASE succeeded = FALSE
        BY <1>3, <2>2, FailureIsAllowed
    <2>3. QED
        BY <2>1, <2>2
<1>4. CASE Retry
    <2>1. UNCHANGED <<current, executing>>
        BY <1>4, RetryStep
    <2>2. PICK k \in 1..Len(instances), y \in WorkflowInstance :
                instances' = [instances EXCEPT ![k] = y] /\ Alike(instances[k], y)
        BY <1>4, RetryStep
    <2>3. PICK w, j : w = instances[k] /\ j = w.job
        OBVIOUS
    <2>4. Becomes(k, y)
        BY <2>1, <2>2 DEF Becomes
    <2>5. j \in Job /\ Seen(j, w, y)
        BY <2>3, <2>4, ContractView
    <2>6. /\ JobStates' = [JobStates EXCEPT ![j] = JobStates[j]]
          /\ JobsDone' = [JobsDone EXCEPT ![j] = JobsDone[j]]
        BY <2>2, <2>3, <2>5 DEF Seen, Alike
    <2>7. JobsFailed' = [JobsFailed EXCEPT ![j] = JobsFailed[j]]
        <3>1. [t \in Tasks(j) |-> y.tasks[t].attempts] = [t \in Tasks(j) |-> w.tasks[t].attempts]
            BY <2>2, <2>3 DEF Alike
        <3>2. QED
            BY <2>5, <3>1 DEF Seen
    <2>8. /\ JobStates = [h \in Job |-> JobStates[h]] /\ JobsDone = [h \in Job |-> JobsDone[h]]
          /\ JobsFailed = [h \in Job |-> JobsFailed[h]]
        BY DEF JobStates, JobsDone, JobsFailed
    <2>9. UNCHANGED JobsRun
        BY <2>1 DEF JobsRun
    <2>10. QED
        BY <2>6, <2>7, <2>8, <2>9 DEF Contract!vars
<1>5. CASE Stop \/ Start
    BY <1>5, StopOrStartStep, SameView
<1>6. CASE UNCHANGED vars
    <2>1. UNCHANGED <<instances, current, executing>>
        BY <1>6 DEF vars, schedulerVars, workerVars
    <2>2. QED
        BY <2>1, SameView
<1>7. QED
    BY <1>1, <1>2, <1>3, <1>4, <1>5, <1>6 DEF Next

\* Scheduler and worker together do what a client may expect: a task is run after
\* its dependencies, by one child process at a time and not again once it has
\* completed, after a failure MaxRetries times more; the job is completed with its
\* last task, and failed with the last run of a task.
THEOREM EngineKeepsContract ==
    ASSUME SubmittedOnce
    PROVE  Spec => KeepsContract
<1>1. Init => Contract!Init
    <2> SUFFICES ASSUME Init PROVE Contract!Init
        OBVIOUS
    <2>1. current = [j \in Job |-> 0] /\ executing = {}
        BY DEF Init, SchedulerInit, WorkerInit
    <2>2. JobStates = [j \in Job |-> "NONE"] /\ JobsDone = [j \in Job |-> {}]
        BY <2>1 DEF JobStates, JobsDone
    <2>3. JobsRun = [j \in Job |-> {}]
        BY <2>1 DEF JobsRun
    <2>4. JobsFailed = [j \in Job |-> [t \in Tasks(j) |-> 0]]
        BY <2>1 DEF JobsFailed
    <2>5. QED
        BY <2>2, <2>3, <2>4 DEF Contract!Init, Contract!Tasks, Tasks
<1>2. Inv /\ [Next]_vars => [Contract!Next]_(Contract!vars)
    BY ContractNext
<1>3. QED
    BY <1>1, <1>2, InvAlways, PTL DEF Spec, KeepsContract, Contract!Spec
=============================================================================
