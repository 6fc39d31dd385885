----------------------------- MODULE LocalProofs -----------------------------
(***************************************************************************)
(* Theorems about the parts of one process: compiler, supervisor, saga,    *)
(* snapshots and deque, each for its own specification, and all seven      *)
(* parts together.                                                         *)
(***************************************************************************)
EXTENDS MCLocal, LsmProofs, PartitionProofs

-----------------------------------------------------------------------------
(* The compiler of jobs.                                                   *)

\* No task names a dependency twice: one that is counts twice in the degree, but once
\* among those who wait for it, so that the code refuses the job as cyclic.
NamedOnceOnly ==
    \A list \in DependencyLists : \A i, j \in DOMAIN list : i # j => list[i] # list[j]

Placed == UNION Range(stages)

\* A degree is the number of dependencies not yet in a stage, and the next stage is of
\* the tasks that have none and are not in one; each waits for one of the last stage.
DegreesCount ==
    /\ \A t \in Task : Needed(t) \subseteq Task
    /\ \A t \in Task : inDegree[t] = Cardinality(Needed(t) \ Placed)
    /\ stage = {t \in Task : Needed(t) \subseteq Placed} \ Placed
    /\ \A t \in stage : stages # <<>> => Needed(t) \cap stages[Len(stages)] # {}

Compiling == result \in {"running", "compiled", "cycle"}

CompileInv ==
    /\ deps \in [Task -> DependencyLists]
    /\ inDegree \in [Task -> Nat] /\ stage \subseteq Task
    /\ stages \in Seq(SUBSET Task)
    /\ result \in {"none", "running", "unknown", "compiled", "cycle"}
    /\ \A i, j \in DOMAIN stages : i # j => stages[i] \cap stages[j] = {}
    /\ Compiling => DegreesCount
    /\ ~Compiling => stages = <<>> /\ stage = {}
    /\ result \in {"compiled", "cycle"} => stage = {} /\ (result = "compiled" <=> AllSorted)
    /\ StagesAreDepths

LEMMA NeededType ==
    ASSUME CompileInv, NEW t \in Task
    PROVE  /\ deps[t] \in Seq(Task \cup Unknown) /\ deps[t] \in DependencyLists
           /\ Needed(t) \subseteq Task \cup Unknown
<1>1. deps[t] \in DependencyLists
    BY DEF CompileInv
<1>2. deps[t] \in Seq(Task \cup Unknown)
    BY <1>1, InputAssumption
<1>3. QED
    BY <1>1, <1>2, RangeOfSeq DEF Needed

LEMMA NeededCounts ==
    ASSUME NamedOnceOnly, CompileInv, NEW t \in Task
    PROVE  IsFiniteSet(Needed(t)) /\ Cardinality(Needed(t)) = Len(deps[t])
<1>1. /\ deps[t] \in Seq(Task \cup Unknown) /\ deps[t] \in DependencyLists
    BY NeededType
<1>2. QED
    BY <1>1, LengthOfDistinct DEF Needed, NamedOnceOnly

LEMMA PlacedType ==
    ASSUME CompileInv
    PROVE  Placed \subseteq Task /\ IsFiniteSet(Placed)
           /\ \A d : d \in Placed <=> \E i \in 1..Len(stages) : d \in stages[i]
<1>1. stages \in Seq(SUBSET Task) /\ DOMAIN stages = 1..Len(stages)
    BY LenProperties DEF CompileInv
<1>2. \A d : d \in Placed <=> \E i \in 1..Len(stages) : d \in stages[i]
    BY <1>1 DEF Placed, Range
<1>3. Placed \subseteq Task
    BY <1>1, <1>2, ElementOfSeq
<1>4. QED
    BY <1>2, <1>3, FS_Subset, InputAssumption

\* The first turn counts.
LEMMA CountEdgesKeeps ==
    ASSUME NamedOnceOnly, CompileInv, CountEdges
    PROVE  CompileInv'
<1>1. stages = <<>> /\ result = "none" /\ stages' = stages /\ deps' = deps
    BY DEF CountEdges, CompileInv, Compiling
<1>2. Placed = {} /\ Placed' = {}
    BY <1>1 DEF Placed, Range
<1>3. CASE \E t \in Task : ~(Needed(t) \subseteq Task)
    BY <1>1, <1>3 DEF CountEdges, CompileInv, Compiling, StagesAreDepths, Needed
<1>4. CASE \A t \in Task : Needed(t) \subseteq Task
    <2>1. /\ result' = "running" /\ inDegree' = [t \in Task |-> Len(deps[t])]
          /\ stage' = {t \in Task : inDegree'[t] = 0}
        BY <1>4 DEF CountEdges
    <2>2. \A t \in Task : /\ inDegree'[t] = Cardinality(Needed(t)) /\ inDegree'[t] \in Nat
                          /\ inDegree'[t] = 0 <=> Needed(t) = {}
        BY <2>1, NeededCounts, FS_EmptySet, FS_CardinalityType
    <2>3. \A t : Needed(t)' = Needed(t)
        BY <1>1 DEF Needed
    <2>4. DegreesCount'
        BY <1>1, <1>2, <1>4, <2>1, <2>2, <2>3 DEF DegreesCount
    <2>5. StagesAreDepths'
        BY <1>1 DEF StagesAreDepths
    <2>6. inDegree' \in [Task -> Nat]
        BY <2>1, <2>2
    <2>7. QED
        BY <1>1, <2>1, <2>4, <2>5, <2>6 DEF CompileInv, Compiling
<1>5. QED
    BY <1>3, <1>4

\* A turn of the loop.
LEMMA MakeStageKeeps ==
    ASSUME CompileInv, MakeStage, NamedOnceOnly
    PROVE  CompileInv'
<1> DEFINE n == Len(stages)
<1>1. /\ result = "running" /\ stage # {} /\ result' = result /\ deps' = deps
      /\ stages' = Append(stages, stage)
      /\ inDegree' = [t \in Task |-> inDegree[t] - Cardinality({d \in stage : t \in Outgoing(d)})]
      /\ stage' = {t \in Task : inDegree[t] > 0 /\ inDegree'[t] = 0}
    BY DEF MakeStage, Ready
<1>2. DegreesCount /\ stages \in Seq(SUBSET Task) /\ stage \subseteq Task /\ inDegree \in [Task -> Nat]
    BY <1>1 DEF CompileInv, Compiling
<1>3. /\ n \in Nat /\ DOMAIN stages = 1..n /\ DOMAIN stages' = 1..n + 1
      /\ stages' \in Seq(SUBSET Task) /\ Len(stages') = n + 1
      /\ \A i \in 1..n : stages'[i] = stages[i]
      /\ stages'[n + 1] = stage
    BY <1>1, <1>2, AppendProperties, LenProperties
<1> HIDE DEF n
<1>4. \A d : d \in Placed <=> \E i \in 1..n : d \in stages[i]
    BY PlacedType DEF n
<1>5. Placed' = Placed \cup stage
    <2>1. \A d : d \in Placed' <=> \E i \in 1..n + 1 : d \in stages'[i]
        BY <1>3 DEF Placed, Range
    <2>2. \A d : d \in Placed' <=> d \in Placed \/ d \in stage
        BY <1>3, <1>4, <2>1
    <2>3. QED
        BY <2>2
<1>6. \A t : Needed(t)' = Needed(t)
    BY <1>1 DEF Needed
<1>7. stage \cap Placed = {}
    BY <1>2 DEF DegreesCount
<1>8. \A t \in Task : /\ inDegree'[t] \in Nat
                      /\ inDegree'[t] = Cardinality(Needed(t) \ Placed')
                      /\ inDegree[t] = 0 <=> Needed(t) \subseteq Placed
                      /\ inDegree'[t] = 0 <=> Needed(t) \subseteq Placed'
    <2> TAKE t \in Task
    <2> DEFINE before == Needed(t) \ Placed
               after == Needed(t) \ Placed'
               gone == {d \in stage : t \in Outgoing(d)}
    <2>1. gone = before \cap stage
        BY <1>7 DEF Outgoing
    <2>2. after = before \ gone /\ gone \subseteq before
        BY <1>5, <2>1
    <2>3. IsFiniteSet(before)
        BY NeededCounts, FS_Subset
    <2>4. inDegree[t] = Cardinality(before)
        BY <1>2 DEF DegreesCount
    <2>5. inDegree'[t] = inDegree[t] - Cardinality(gone)
        BY <1>1
    <2>6. before = {} <=> Needed(t) \subseteq Placed
        OBVIOUS
    <2>7. after = {} <=> Needed(t) \subseteq Placed'
        OBVIOUS
    <2> HIDE DEF before, after, gone
    <2>8. IsFiniteSet(after) /\ IsFiniteSet(gone) /\ before \cap gone = gone
        BY <2>2, <2>3, FS_Subset
    <2>9. Cardinality(after) = Cardinality(before) - Cardinality(gone)
        <3>1. Cardinality(before \ gone) = Cardinality(before) - Cardinality(before \cap gone)
            BY <2>3, FS_Difference
        <3>2. QED
            BY <2>2, <2>8, <3>1
    <2>10. /\ Cardinality(after) \in Nat /\ Cardinality(before) \in Nat
           /\ Cardinality(after) = 0 <=> after = {}
           /\ Cardinality(before) = 0 <=> before = {}
        BY <2>3, <2>8, FS_CardinalityType, FS_EmptySet
    <2>11. inDegree'[t] = Cardinality(after)
        BY <2>4, <2>5, <2>9
    <2>12. QED
        BY <2>4, <2>6, <2>7, <2>10, <2>11 DEF after
<1>9. stage' = {t \in Task : Needed(t) \subseteq Placed'} \ Placed'
    <2>1. ASSUME NEW t \in Task
          PROVE  t \in stage' <=> Needed(t) \subseteq Placed' /\ t \notin Placed'
        <3>1. t \in stage' <=> inDegree[t] # 0 /\ inDegree'[t] = 0
            <4>1. inDegree[t] \in Nat
                BY <1>2
            <4>2. QED
                BY <1>1, <4>1
        <3>2. t \in stage' <=> ~(Needed(t) \subseteq Placed) /\ Needed(t) \subseteq Placed'
            BY <1>8, <3>1
        <3>3. t \in stage <=> Needed(t) \subseteq Placed /\ t \notin Placed
            BY <1>2 DEF DegreesCount
        <3>4. t \in Placed => Needed(t) \subseteq Placed
            <4>1. SUFFICES ASSUME t \in Placed PROVE Needed(t) \subseteq Placed
                OBVIOUS
            <4>2. PICK i \in 1..n : t \in stages[i]
                BY <1>4, <4>1
            <4>3. Needed(t) \subseteq UNION {stages[j] : j \in 1..(i - 1)}
                BY <1>3, <4>2 DEF CompileInv, StagesAreDepths
            <4>4. \A j \in 1..(i - 1) : j \in 1..n
                BY <1>3
            <4>5. QED
                BY <1>4, <4>3, <4>4
        <3>5. QED
            BY <1>5, <3>2, <3>3, <3>4
    <2>2. stage' \subseteq Task
        BY <1>1
    <2>3. QED
        BY <2>1, <2>2
<1>10. \A t \in stage' : Needed(t) \cap stages'[Len(stages')] # {}
    <2> TAKE t \in stage'
    <2>1. t \in Task /\ inDegree[t] # 0 /\ inDegree'[t] = 0
        BY <1>1, <1>2
    <2>2. ~(Needed(t) \subseteq Placed) /\ Needed(t) \subseteq Placed \cup stage
        BY <1>5, <1>8, <2>1
    <2>3. QED
        BY <1>3, <2>2
<1>11. DegreesCount'
    BY <1>2, <1>6, <1>8, <1>9, <1>10 DEF DegreesCount
<1>12. StagesAreDepths'
    <2>1. SUFFICES ASSUME NEW i \in 1..n + 1, NEW t \in stages'[i]
                   PROVE  /\ Needed(t) \subseteq UNION {stages'[j] : j \in 1..(i - 1)}
                          /\ i > 1 => Needed(t) \cap stages'[i - 1] # {}
        BY <1>3, <1>6 DEF StagesAreDepths
    <2>2. CASE i \in 1..n
        <3>1. /\ Needed(t) \subseteq UNION {stages[j] : j \in 1..(i - 1)}
              /\ i > 1 => Needed(t) \cap stages[i - 1] # {}
            BY <1>3, <2>2 DEF CompileInv, StagesAreDepths
        <3>2. \A j \in 1..(i - 1) : stages'[j] = stages[j]
            BY <1>3, <2>2
        <3>3. i > 1 => i - 1 \in 1..n
            BY <1>3, <2>2
        <3>4. QED
            BY <1>3, <3>1, <3>2, <3>3
    <2>3. CASE i = n + 1
        <3>1. t \in stage /\ Needed(t) \subseteq Placed
            BY <1>2, <1>3, <2>3 DEF DegreesCount
        <3>2. Needed(t) \subseteq UNION {stages'[j] : j \in 1..(i - 1)}
            BY <1>3, <1>4, <2>3, <3>1
        <3>3. ASSUME i > 1 PROVE Needed(t) \cap stages'[i - 1] # {}
            <4>1. n \in 1..n /\ stages # <<>>
                BY <1>3, <2>3, <3>3 DEF n
            <4>2. Needed(t) \cap stages[n] # {}
                BY <1>2, <3>1, <4>1 DEF DegreesCount, n
            <4>3. QED
                BY <1>3, <2>3, <4>1, <4>2
        <3>4. QED
            BY <3>2, <3>3
    <2>4. QED
        BY <1>3, <2>2, <2>3
<1>13. \A i, j \in DOMAIN stages' : i # j => stages'[i] \cap stages'[j] = {}
    <2>1. \A i \in 1..n : stages[i] \cap stage = {}
        BY <1>4, <1>7
    <2>2. \A i, j \in 1..n : i # j => stages[i] \cap stages[j] = {}
        BY <1>3 DEF CompileInv
    <2>3. \A i \in 1..n + 1 : i \in 1..n \/ i = n + 1
        BY <1>3
    <2>4. QED
        BY <1>3, <2>1, <2>2, <2>3
<1>14. inDegree' \in [Task -> Nat] /\ stage' \subseteq Task
    BY <1>1, <1>8
<1>15. QED
    BY <1>1, <1>3, <1>11, <1>12, <1>13, <1>14 DEF CompileInv, Compiling

\* The end: tasks that wait for each other are left, or none.
LEMMA CheckCycleKeeps ==
    ASSUME CompileInv, CheckCycle
    PROVE  CompileInv'
<1>1. /\ result = "running" /\ stage = {} /\ UNCHANGED <<deps, inDegree, stages, stage>>
      /\ result' = IF AllSorted THEN "compiled" ELSE "cycle"
    BY DEF CheckCycle
<1>2. AllSorted' = AllSorted /\ DegreesCount' = DegreesCount /\ StagesAreDepths' = StagesAreDepths
    BY <1>1 DEF AllSorted, DegreesCount, StagesAreDepths, Needed, Placed
<1>3. DegreesCount /\ result' \in {"compiled", "cycle"} /\ (result' = "compiled" <=> AllSorted)
    BY <1>1 DEF CompileInv, Compiling
<1>4. QED
    BY <1>1, <1>2, <1>3 DEF CompileInv, Compiling

LEMMA CompileInvStep ==
    ASSUME NamedOnceOnly, CompileInv, [DagNext]_dagVars
    PROVE  CompileInv'
<1>1. CASE UNCHANGED dagVars
    <2>1. \A t : Needed(t)' = Needed(t)
        BY <1>1 DEF dagVars, Needed
    <2>2. Placed' = Placed /\ AllSorted' = AllSorted
        BY <1>1 DEF dagVars, Placed, AllSorted
    <2>3. QED
        BY <1>1, <2>1, <2>2 DEF dagVars, CompileInv, Compiling, DegreesCount, StagesAreDepths
<1>2. QED
    BY <1>1, CountEdgesKeeps, MakeStageKeeps, CheckCycleKeeps DEF DagNext

LEMMA CompileInvInit == DagInit => CompileInv
BY DEF DagInit, CompileInv, Compiling, StagesAreDepths

\* All tasks are in a stage if and only if no set of them waits for itself: the
\* first of such a set in the stages would wait for an earlier one.
LEMMA SortedUnlessCyclic ==
    ASSUME CompileInv, Compiling, stage = {}
    PROVE  AllSorted <=> ~Cyclic
<1>1. Placed \subseteq Task /\ IsFiniteSet(Placed) /\ IsFiniteSet(Task)
    BY PlacedType, InputAssumption
<1>2. AllSorted <=> Placed = Task
    <2>1. /\ Cardinality(Placed) \in Nat /\ Cardinality(Task) \in Nat
          /\ Cardinality(Placed) <= Cardinality(Task)
          /\ Cardinality(Placed) = Cardinality(Task) => Placed = Task
        BY <1>1, FS_Subset, FS_CardinalityType
    <2>2. AllSorted <=> Cardinality(Placed) >= Cardinality(Task)
        BY DEF AllSorted, Placed
    <2>3. QED
        BY <2>1, <2>2
<1>3. ASSUME Placed # Task PROVE Cyclic
    <2> DEFINE left == Task \ Placed
    <2>1. left # {} /\ left \in SUBSET Task
        BY <1>1, <1>3
    <2>2. ASSUME NEW t \in left PROVE Needed(t) \cap left # {}
        <3>1. Needed(t) \subseteq Task /\ ~(Needed(t) \subseteq Placed)
            BY DEF CompileInv, DegreesCount
        <3>2. QED
            BY <3>1
    <2>3. QED
        BY <2>1, <2>2 DEF Cyclic
<1>4. ASSUME Placed = Task, Cyclic PROVE FALSE
    <2>1. PICK ts \in (SUBSET Task) \ {{}} : \A t \in ts : Needed(t) \cap ts # {}
        BY <1>4 DEF Cyclic
    <2> DEFINE Met == {i \in 1..Len(stages) : stages[i] \cap ts # {}}
    <2>2. Met \in SUBSET Nat /\ Met # {}
        <3>1. PICK t \in ts : TRUE
            BY <2>1
        <3>2. PICK i \in 1..Len(stages) : t \in stages[i]
            BY <1>4, <2>1, <3>1, PlacedType
        <3>3. QED
            BY <3>1, <3>2
    <2>3. PICK i \in Met : \A j \in Met : i <= j
        <3> HIDE DEF Met
        <3>1. QED
            BY <2>2, LeastNatural
    <2>4. PICK t \in ts : t \in stages[i]
        BY <2>3
    <2>5. i \in DOMAIN stages
        BY <2>3, LenProperties DEF CompileInv
    <2>6. Needed(t) \subseteq UNION {stages[j] : j \in 1..(i - 1)}
        BY <2>4, <2>5 DEF CompileInv, StagesAreDepths
    <2>7. PICK d \in ts : d \in Needed(t)
        BY <2>1, <2>4
    <2>8. PICK j \in 1..(i - 1) : d \in stages[j]
        BY <2>6, <2>7
    <2>9. Len(stages) \in Nat
        BY LenProperties DEF CompileInv
    <2>10. j \in Met /\ j < i
        BY <2>3, <2>7, <2>8, <2>9
    <2>11. QED
        BY <2>3, <2>10
<1>5. QED
    BY <1>2, <1>3, <1>4

LEMMA CompileInvGives ==
    ASSUME CompileInv
    PROVE  RefusedIfCyclic /\ StagesAreDepths /\ DagTypeOK
<1>2. RefusedIfCyclic
    <2>1. ASSUME result \in {"compiled", "cycle"} PROVE result = "cycle" <=> Cyclic
        <3>1. stage = {} /\ (result = "compiled" <=> AllSorted) /\ Compiling
            BY <2>1 DEF CompileInv, Compiling
        <3>2. QED
            BY <2>1, <3>1, SortedUnlessCyclic
    <2>2. QED
        BY <2>1 DEF RefusedIfCyclic
<1>3. DagTypeOK
    <2>1. ASSUME Compiling
          PROVE  /\ stage \subseteq {t \in Task : inDegree[t] = 0}
                 /\ \A i \in DOMAIN stages : stages[i] \subseteq Task \ stage
        <3>1. stage = {t \in Task : Needed(t) \subseteq Placed} \ Placed
              /\ \A t \in Task : inDegree[t] = Cardinality(Needed(t) \ Placed)
            BY <2>1 DEF CompileInv, DegreesCount
        <3>2. stage \subseteq {t \in Task : inDegree[t] = 0}
            <4>1. ASSUME NEW t \in stage PROVE t \in Task /\ inDegree[t] = 0
                <5>1. Needed(t) \ Placed = {} /\ t \in Task
                    BY <3>1
                <5>2. QED
                    BY <3>1, <5>1, FS_EmptySet
            <4>2. QED
                BY <4>1
        <3>3. \A i \in DOMAIN stages : stages[i] \subseteq Task \ stage
            <4>1. stages \in Seq(SUBSET Task) /\ DOMAIN stages = 1..Len(stages)
                BY LenProperties DEF CompileInv
            <4>2. \A i \in DOMAIN stages : stages[i] \subseteq Task /\ stages[i] \subseteq Placed
                BY <4>1, PlacedType, ElementOfSeq
            <4>3. QED
                BY <3>1, <4>2
        <3>4. QED
            BY <3>2, <3>3
    <2>2. ASSUME ~Compiling
          PROVE  /\ stage \subseteq {t \in Task : inDegree[t] = 0}
                 /\ \A i \in DOMAIN stages : stages[i] \subseteq Task \ stage
        BY <2>2 DEF CompileInv
    <2>3. QED
        BY <2>1, <2>2 DEF CompileInv, DagTypeOK
<1>4. QED
    BY <1>2, <1>3 DEF CompileInv

\* The types; a task is in one stage at most, and ready with no degree left.
THEOREM DagTypes == ASSUME NamedOnceOnly PROVE DagSpec => []DagTypeOK
BY CompileInvInit, CompileInvStep, CompileInvGives, PTL DEF DagSpec

\* A job is refused for a cycle if it has one, and only then.
THEOREM CyclesAreRefused == ASSUME NamedOnceOnly PROVE DagSpec => []RefusedIfCyclic
BY CompileInvInit, CompileInvStep, CompileInvGives, PTL DEF DagSpec

\* Every stage is as early as it can be.
THEOREM StagesAreEarliest == ASSUME NamedOnceOnly PROVE DagSpec => []StagesAreDepths
BY CompileInvInit, CompileInvStep, CompileInvGives, PTL DEF DagSpec

-----------------------------------------------------------------------------
(* The supervisor of child processes.                                      *)

\* What is known of a run whose promise is settled, and of one not begun.
SupInv ==
    /\ SupTypeOK
    /\ \A r \in Run : /\ outcome[r] # "pending" => child[r] = "closed"
                      /\ child[r] = "none" => ~watchdog[r] /\ ~timedOut[r]

\* A signal ends a child that lives, or does nothing.
KillKeeps(r) ==
    /\ child' \in {child, [child EXCEPT ![r] = "exited"]}
    /\ child' # child => child[r] = "alive"
    /\ exitCode' \in [Run -> {"zero", "other", "null"}]
    /\ killed' \in [Run -> BOOLEAN]

LEMMA KillMoves ==
    ASSUME SupTypeOK, NEW r \in Run, NEW heard, Kill(r, heard)
    PROVE  KillKeeps(r)
<1>1. killed \in [Run -> BOOLEAN] /\ exitCode \in [Run -> {"zero", "other", "null"}]
    BY DEF SupTypeOK
<1>2. CASE child[r] = "alive"
    <2>1. killed' = [killed EXCEPT ![r] = TRUE]
        BY <1>2 DEF Kill
    <2>2. killed' \in [Run -> BOOLEAN]
        BY <1>1, <2>1
    <2>3. \/ child' = [child EXCEPT ![r] = "exited"] /\ exitCode' = [exitCode EXCEPT ![r] = "null"]
          \/ child' = child /\ exitCode' = exitCode
        BY <1>2 DEF Kill, End
    <2>4. QED
        BY <1>1, <1>2, <2>2, <2>3 DEF KillKeeps
<1>3. CASE child[r] # "alive"
    BY <1>1, <1>3 DEF Kill, KillKeeps
<1>4. QED
    BY <1>2, <1>3

LEMMA SupInvStep ==
    ASSUME SupInv, [SupNext]_supVars
    PROVE  SupInv' /\ (TimeoutIsFailure => TimeoutIsFailure')
<1> USE DEF SupInv, SupTypeOK, TimeoutIsFailure
<1>1. CASE UNCHANGED supVars
    BY <1>1 DEF supVars
<1>2. ASSUME NEW r \in Run, Spawn(r) PROVE SupInv' /\ (TimeoutIsFailure => TimeoutIsFailure')
    BY <1>2 DEF Spawn
<1>3. ASSUME NEW r \in Run, SpawnError(r) PROVE SupInv' /\ (TimeoutIsFailure => TimeoutIsFailure')
    BY <1>3 DEF SpawnError
<1>4. ASSUME NEW r \in Run, Exit(r) PROVE SupInv' /\ (TimeoutIsFailure => TimeoutIsFailure')
    BY <1>4 DEF Exit, End
<1>5. ASSUME NEW r \in Run, Close(r) PROVE SupInv' /\ (TimeoutIsFailure => TimeoutIsFailure')
    BY <1>5 DEF Close, Outcome
<1>6. ASSUME NEW r \in Run, Timeout(r) PROVE SupInv' /\ (TimeoutIsFailure => TimeoutIsFailure')
    <2>1. /\ watchdog[r] /\ watchdog' = [watchdog EXCEPT ![r] = FALSE]
          /\ timedOut' = [timedOut EXCEPT ![r] = TRUE]
          /\ escalation' = [escalation EXCEPT ![r] = TRUE]
          /\ deaf' = deaf /\ outcome' = outcome /\ Kill(r, ~deaf[r])
        BY <1>6 DEF Timeout
    <2>2. KillKeeps(r)
        BY <2>1, KillMoves
    <2>3. {deaf', watchdog', escalation', timedOut', killed'} \subseteq [Run -> BOOLEAN]
        <3>1. killed' \in [Run -> BOOLEAN]
            BY <2>2 DEF KillKeeps
        <3>2. \A f \in [Run -> BOOLEAN] : /\ [f EXCEPT ![r] = TRUE] \in [Run -> BOOLEAN]
                                         /\ [f EXCEPT ![r] = FALSE] \in [Run -> BOOLEAN]
            BY Zenon
        <3>3. /\ deaf \in [Run -> BOOLEAN] /\ watchdog \in [Run -> BOOLEAN]
              /\ escalation \in [Run -> BOOLEAN] /\ timedOut \in [Run -> BOOLEAN]
            OBVIOUS
        <3>4. /\ deaf' \in [Run -> BOOLEAN] /\ watchdog' \in [Run -> BOOLEAN]
              /\ escalation' \in [Run -> BOOLEAN] /\ timedOut' \in [Run -> BOOLEAN]
            BY <2>1, <3>2, <3>3, Zenon
        <3>5. QED
            BY <3>1, <3>4, Zenon
    <2>4. child[r] # "closed" /\ outcome[r] = "pending"
        BY <2>1
    <2>5. QED
        BY <2>1, <2>2, <2>3, <2>4 DEF KillKeeps
<1>7. ASSUME NEW r \in Run, Escalate(r) PROVE SupInv' /\ (TimeoutIsFailure => TimeoutIsFailure')
    <2>1. /\ escalation[r] /\ escalation' = [escalation EXCEPT ![r] = FALSE]
          /\ UNCHANGED <<deaf, watchdog, timedOut, outcome>>
          /\ UNCHANGED <<child, exitCode, killed>> \/ Kill(r, TRUE)
        BY <1>7 DEF Escalate
    <2>2. KillKeeps(r)
        BY <2>1, KillMoves DEF KillKeeps
    <2>3. {deaf', watchdog', escalation', timedOut', killed'} \subseteq [Run -> BOOLEAN]
        <3>1. killed' \in [Run -> BOOLEAN]
            BY <2>2 DEF KillKeeps
        <3>2. \A f \in [Run -> BOOLEAN] : /\ [f EXCEPT ![r] = TRUE] \in [Run -> BOOLEAN]
                                         /\ [f EXCEPT ![r] = FALSE] \in [Run -> BOOLEAN]
            BY Zenon
        <3>3. /\ deaf \in [Run -> BOOLEAN] /\ watchdog \in [Run -> BOOLEAN]
              /\ escalation \in [Run -> BOOLEAN] /\ timedOut \in [Run -> BOOLEAN]
            OBVIOUS
        <3>4. /\ deaf' \in [Run -> BOOLEAN] /\ watchdog' \in [Run -> BOOLEAN]
              /\ escalation' \in [Run -> BOOLEAN] /\ timedOut' \in [Run -> BOOLEAN]
            BY <2>1, <3>2, <3>3, Zenon
        <3>5. QED
            BY <3>1, <3>4, Zenon
    <2>4. QED
        BY <2>1, <2>2, <2>3 DEF KillKeeps
<1>8. QED
    BY <1>1, <1>2, <1>3, <1>4, <1>5, <1>6, <1>7 DEF SupNext

LEMMA SupInvInit == SupInit => SupInv /\ TimeoutIsFailure
BY DEF SupInit, SupInv, SupTypeOK, TimeoutIsFailure

\* A run whose watchdog fired never counts as a success.
THEOREM TimeoutsFail == SupSpec => [](SupTypeOK /\ TimeoutIsFailure)
<1>1. SupInv => SupTypeOK
    BY DEF SupInv
<1>2. QED
    BY <1>1, SupInvInit, SupInvStep, PTL DEF SupSpec

-----------------------------------------------------------------------------
(* Sagas.                                                                  *)

\* The steps executed are the first n, of which the last k are undone; a step beyond
\* them threw if the saga goes backward.
SagaInv ==
    LET n == Len(executedSteps)
        k == Len(undone)
    IN  /\ SagaTypeOK /\ n <= Steps /\ k <= n
        /\ \A i \in 1 .. n : executedSteps[i] = i
        /\ \A s \in 1 .. n - k : effect[s] = "all"
        /\ \A s \in n - k + 1 .. n : s \in broken \/ effect[s] = "none"
        /\ \A s \in n + 1 .. Steps : effect[s] = "none" \/ (s = n + 1 /\ s \in broken)
        /\ phase \in {"forward", "succeeded"} => k = 0
        /\ phase = "succeeded" => n = Steps
        /\ phase = "failed" => k = n

LEMMA SagaInvInit == SagaInit => SagaInv
BY SagaAssumption DEF SagaInit, SagaInv, SagaTypeOK

LEMMA SagaInvGives ==
    ASSUME SagaInv
    PROVE  SagaTypeOK /\ UndoneInReverse
<1> DEFINE n == Len(executedSteps)
           k == Len(undone)
<1>1. n \in Nat /\ k \in Nat /\ SagaTypeOK /\ Steps \in Nat
    BY LenProperties, SagaAssumption DEF SagaInv, SagaTypeOK
<1>2. /\ n <= Steps /\ k <= n
      /\ \A s \in 1 .. n - k : effect[s] = "all"
      /\ \A s \in n - k + 1 .. n : s \in broken \/ effect[s] = "none"
      /\ \A s \in n + 1 .. Steps : effect[s] = "none" \/ s \in broken
      /\ phase \in {"forward", "succeeded"} => k = 0
      /\ phase = "succeeded" => n = Steps
      /\ phase = "failed" => k = n
    BY DEF SagaInv
<1> HIDE DEF n, k
<1>3. \A s \in 1 .. Steps : s \in 1 .. n - k \/ s \in n - k + 1 .. n \/ s \in n + 1 .. Steps
    BY <1>1, <1>2
<1>4. ASSUME NEW s \in 1 .. Steps, NEW t \in 1 .. Steps, s < t, effect[t] # "none", t \notin broken
      PROVE  effect[s] = "all"
    <2>1. t \in 1 .. n - k
        BY <1>2, <1>3, <1>4
    <2>2. s \in 1 .. n - k
        BY <1>1, <1>2, <1>4, <2>1
    <2>3. QED
        BY <1>2, <2>2
<1>5. phase = "succeeded" => \A s \in 1 .. Steps : effect[s] = "all"
    BY <1>1, <1>2
<1>6. phase = "failed" => \A s \in 1 .. Steps \ broken : effect[s] = "none"
    <2>1. phase = "failed" => \A s \in 1 .. Steps : s \notin 1 .. n - k
        BY <1>1, <1>2
    <2>2. QED
        BY <1>2, <1>3, <2>1
<1>7. QED
    BY <1>1, <1>4, <1>5, <1>6 DEF UndoneInReverse

LEMMA SagaInvStep ==
    ASSUME SagaInv, [SagaNext]_sagaVars
    PROVE  SagaInv'
<1> DEFINE n == Len(executedSteps)
           k == Len(undone)
<1>1. n \in Nat /\ k \in Nat /\ SagaTypeOK /\ Steps \in Nat
    BY LenProperties, SagaAssumption DEF SagaInv, SagaTypeOK
<1>2. /\ n <= Steps /\ k <= n
      /\ \A i \in 1 .. n : executedSteps[i] = i
      /\ \A s \in 1 .. n - k : effect[s] = "all"
      /\ \A s \in n - k + 1 .. n : s \in broken \/ effect[s] = "none"
      /\ \A s \in n + 1 .. Steps : effect[s] = "none" \/ (s = n + 1 /\ s \in broken)
      /\ phase \in {"forward", "succeeded"} => k = 0
      /\ phase = "succeeded" => n = Steps
      /\ phase = "failed" => k = n
    BY DEF SagaInv
<1>3. CASE UNCHANGED sagaVars
    BY <1>3 DEF sagaVars, SagaInv, SagaTypeOK
<1>4. CASE ExecuteStep
    <2>1. /\ executedSteps' = Append(executedSteps, n + 1) /\ effect' = [effect EXCEPT ![n + 1] = "all"]
          /\ phase' = phase /\ undone' = undone /\ broken' = broken /\ n + 1 <= Steps /\ k = 0
          /\ phase = "forward"
        BY <1>2, <1>4 DEF ExecuteStep, Current
    <2>2. /\ Len(executedSteps') = n + 1 /\ executedSteps' \in Seq(1 .. Steps)
          /\ \A i \in 1 .. n : executedSteps'[i] = executedSteps[i]
          /\ executedSteps'[n + 1] = n + 1
        BY <1>1, <2>1, AppendProperties DEF SagaTypeOK
    <2> HIDE DEF n
    <2>3. \A i \in 1 .. n + 1 : executedSteps'[i] = i
        BY <1>1, <1>2, <2>2
    <2>4. \A s \in 1 .. Steps : effect'[s] = IF s = n + 1 THEN "all" ELSE effect[s]
        BY <1>1, <2>1 DEF SagaTypeOK
    <2>5. SagaTypeOK'
        BY <1>1, <2>1, <2>2 DEF SagaTypeOK
    <2>6. \A s \in 1 .. n + 1 : effect'[s] = "all"
        BY <1>1, <1>2, <2>1, <2>4
    <2>7. \A s \in n + 2 .. Steps : effect'[s] = "none"
        BY <1>1, <1>2, <2>4
    <2>8. Len(undone') = 0
        BY <2>1 DEF k
    <2>9. QED
        BY <1>1, <1>2, <2>1, <2>2, <2>3, <2>5, <2>6, <2>7, <2>8 DEF SagaInv
<1>5. CASE StepThrows
    <2>1. /\ executedSteps' = executedSteps /\ undone' = undone /\ phase' = "backward"
          /\ broken' = broken \cup {n + 1} /\ n + 1 <= Steps /\ k = 0
        BY <1>2, <1>5 DEF StepThrows, Current
    <2>2. PICK left \in {"none", "part"} : effect' = [effect EXCEPT ![n + 1] = left]
        BY <1>5 DEF StepThrows, Current
    <2>3. Len(executedSteps') = n /\ Len(undone') = k
        BY <2>1
    <2> HIDE DEF n, k
    <2>4. \A s \in 1 .. Steps : effect'[s] = IF s = n + 1 THEN left ELSE effect[s]
        BY <1>1, <2>2 DEF SagaTypeOK
    <2>5. SagaTypeOK'
        BY <1>1, <2>1, <2>2 DEF SagaTypeOK
    <2>6. \A s \in 1 .. n : effect'[s] = "all"
        BY <1>1, <1>2, <2>1, <2>4
    <2>7. \A s \in n + 1 .. Steps : effect'[s] = "none" \/ (s = n + 1 /\ s \in broken')
        BY <1>1, <1>2, <2>1, <2>4
    <2>8. QED
        BY <1>1, <1>2, <2>1, <2>3, <2>5, <2>6, <2>7 DEF SagaInv
<1>6. CASE Succeed
    BY <1>1, <1>2, <1>6 DEF Succeed, Current, SagaInv, SagaTypeOK
<1>7. CASE Fail
    BY <1>1, <1>2, <1>7 DEF Fail, SagaInv, SagaTypeOK
<1>8. ASSUME NEW throws \in BOOLEAN, Compensate(throws) PROVE SagaInv'
    <2>1. NextToUndo = n - k /\ n - k \in 1 .. n
        <3>1. k < n
            BY <1>8 DEF Compensate
        <3>2. k + 1 \in 1 .. n /\ (n - (k + 1)) + 1 = n - k /\ n - k \in 1 .. n
            BY <1>1, <3>1
        <3>3. Reverse(executedSteps)[k + 1] = executedSteps[(n - (k + 1)) + 1]
            BY <3>2 DEF Reverse
        <3>4. QED
            BY <1>2, <3>2, <3>3 DEF NextToUndo
    <2>2. /\ undone' = Append(undone, n - k) /\ executedSteps' = executedSteps /\ phase' = phase
          /\ phase = "backward" /\ k < n
        BY <1>8, <2>1 DEF Compensate
    <2>3. n - k \in 1 .. Steps
        BY <1>1, <1>2, <2>1
    <2>4. Len(undone') = k + 1 /\ undone' \in Seq(1 .. Steps) /\ Len(executedSteps') = n
        BY <1>1, <2>2, <2>3, AppendProperties DEF SagaTypeOK
    <2>5. \/ broken' = broken \cup {n - k} /\ effect' = effect
          \/ broken' = broken /\ effect' = [effect EXCEPT ![n - k] = "none"]
        BY <1>8, <2>1 DEF Compensate
    <2> HIDE DEF n, k
    <2>6. SagaTypeOK'
        BY <1>1, <2>2, <2>3, <2>4, <2>5 DEF SagaTypeOK
    <2>7. \A s \in 1 .. Steps : /\ s # n - k => effect'[s] = effect[s]
                                /\ n - k \in broken' \/ effect'[n - k] = "none"
                                /\ s \in broken => s \in broken'
        BY <1>1, <2>3, <2>5 DEF SagaTypeOK
    <2>8. \A s \in 1 .. n - (k + 1) : effect'[s] = "all"
        BY <1>1, <1>2, <2>2, <2>7
    <2>9. \A s \in n - (k + 1) + 1 .. n : s \in broken' \/ effect'[s] = "none"
        BY <1>1, <1>2, <2>2, <2>7
    <2>10. \A s \in n + 1 .. Steps : effect'[s] = "none" \/ (s = n + 1 /\ s \in broken')
        BY <1>1, <1>2, <2>2, <2>7
    <2>11. QED
        BY <1>1, <1>2, <2>2, <2>4, <2>6, <2>8, <2>9, <2>10 DEF SagaInv
<1>9. QED
    BY <1>3, <1>4, <1>5, <1>6, <1>7, <1>8 DEF SagaNext

\* Nothing is undone while a later step stands on it, and what ended is all or nothing.
THEOREM SagasUndoInReverse == SagaSpec => [](SagaTypeOK /\ UndoneInReverse)
BY SagaInvInit, SagaInvStep, SagaInvGives, PTL DEF SagaSpec

-----------------------------------------------------------------------------
(* Snapshots.                                                              *)

\* The n-th chunk of the snapshot with index i.
ChunkOf(i, n) == [index |-> i,
                  part |-> IF n - 1 < Chunks[i] THEN <<i, n - 1>> ELSE <<0, 0>>,
                  done |-> n >= Chunks[i]]

\* The newest snapshot is in the directory, an open manager serves it, and a stream
\* is of chunks at their places, the last of which only is done.
SnapInv ==
    /\ snapFiles \subseteq Index /\ snapPc \in {"ready", "cleanup"}
    /\ \/ newest = 0 /\ snapFiles = {}
       \/ newest \in snapFiles /\ \A i \in snapFiles : i <= newest
    /\ latest = IF snapOpen THEN newest ELSE 0
    /\ snapPc = "cleanup" => snapOpen
    /\ stream \in Seq([index : Index, part : (Index \cup {0}) \X Nat, done : BOOLEAN])
    /\ \A n \in 1 .. Len(stream) : \E i \in Index : stream[n] = ChunkOf(i, n)
    /\ \A n \in 1 .. Len(stream) - 1 : ~stream[n].done

LEMMA IndexType == \A i \in Index : i \in Nat \ {0} /\ Chunks[i] \in Nat \ {0}
BY SnapshotAssumption DEF Index

LEMMA SnapInvInit == SnapInit => SnapInv
BY DEF SnapInit, SnapInv

LEMMA NewestIsMax ==
    ASSUME SnapInv
    PROVE  /\ snapFiles # {} => Max(snapFiles) = newest
           /\ snapFiles = {} => newest = 0
           /\ newest \in Index \cup {0}
<1>1. \A i \in snapFiles : i \in Nat \ {0}
    BY IndexType DEF SnapInv
<1>2. ASSUME newest \in snapFiles, \A i \in snapFiles : i <= newest
      PROVE  Max(snapFiles) = newest
    <2>1. \A x \in snapFiles : (\A y \in snapFiles : x >= y) => x = newest
        BY <1>1, <1>2
    <2>2. \A y \in snapFiles : newest >= y
        BY <1>1, <1>2
    <2>3. QED
        BY <1>2, <2>1, <2>2 DEF Max
<1>3. QED
    BY <1>2 DEF SnapInv

LEMMA SendChunkKeeps ==
    ASSUME SnapInv, SendChunk
    PROVE  SnapInv'
<1> DEFINE m == Len(stream)
           Chunk == [index : Index, part : (Index \cup {0}) \X Nat, done : BOOLEAN]
<1>1. /\ snapOpen /\ latest \in Index /\ (stream # <<>> => ~stream[m].done)
      /\ stream' = Append(stream, SnapshotChunk(m))
      /\ UNCHANGED <<snapFiles, latest, snapOpen, snapPc, newest>>
    BY NewestIsMax DEF SendChunk, SnapInv, Last
<1>2. m \in Nat /\ stream \in Seq(Chunk)
    BY LenProperties DEF SnapInv
<1>3. Chunks[latest] \in Nat \ {0}
    BY <1>1, IndexType
<1>4. SnapshotChunk(m) = ChunkOf(latest, m + 1)
    BY <1>2, <1>3 DEF SnapshotChunk, ChunkOf
<1>5. SnapshotChunk(m) \in Chunk
    BY <1>1, <1>2, <1>3 DEF SnapshotChunk
<1>6. /\ stream' \in Seq(Chunk) /\ Len(stream') = m + 1
      /\ \A n \in 1 .. m : stream'[n] = stream[n]
      /\ stream'[m + 1] = ChunkOf(latest, m + 1)
    BY <1>1, <1>2, <1>4, <1>5, AppendProperties
<1>7. \A n \in 1 .. Len(stream') : \E i \in Index : stream'[n] = ChunkOf(i, n)
    <2>1. \A n \in 1 .. m : \E i \in Index : stream[n] = ChunkOf(i, n)
        BY DEF SnapInv
    <2> HIDE DEF m
    <2>2. \A n \in 1 .. m + 1 : n \in 1 .. m \/ n = m + 1
        BY <1>2
    <2>3. QED
        BY <1>1, <1>6, <2>1, <2>2
<1>8. \A n \in 1 .. Len(stream') - 1 : ~stream'[n].done
    <2>1. \A n \in 1 .. m - 1 : ~stream[n].done
        BY DEF SnapInv
    <2>2. m > 0 => ~stream[m].done
        BY <1>1
    <2> HIDE DEF m
    <2>3. \A n \in 1 .. m : n \in 1 .. m - 1 \/ (n = m /\ m > 0)
        BY <1>2
    <2>4. \A n \in 1 .. m : ~stream[n].done
        BY <2>1, <2>2, <2>3
    <2>5. Len(stream') - 1 = m
        BY <1>2, <1>6
    <2>6. \A n \in 1 .. m : ~stream'[n].done
        BY <1>6, <2>4
    <2>7. QED
        BY <2>5, <2>6
<1>9. QED
    BY <1>1, <1>6, <1>7, <1>8 DEF SnapInv

LEMMA SnapInvStep ==
    ASSUME SnapInv, [SnapNext]_snapVars
    PROVE  SnapInv'
<1>1. \A i \in Index : i \in Nat \ {0}
    BY IndexType
<1>2. CASE UNCHANGED snapVars
    BY <1>2 DEF snapVars, SnapInv
<1>3. CASE OpenSnapshots
    BY <1>3, NewestIsMax DEF OpenSnapshots, SnapInv
<1>4. CASE SnapshotsDie
    BY <1>4 DEF SnapshotsDie, SnapInv
<1>5. CASE SendChunk
    BY <1>5, SendChunkKeeps
<1>6. CASE Restart
    BY <1>6 DEF Restart, SnapInv
<1>7. ASSUME NEW i \in Index, SaveSnapshot(i) PROVE SnapInv'
    <2>1. \A j \in snapFiles \cup {i} : j <= i
        BY <1>1, <1>7, NewestIsMax DEF SaveSnapshot, SnapInv
    <2>2. QED
        BY <1>7, <2>1 DEF SaveSnapshot, SnapInv
<1>8. ASSUME NEW i \in Index, RemoveOld(i) PROVE SnapInv'
    <2>1. newest \in snapFiles \ {i} /\ \A j \in snapFiles \ {i} : j <= newest
        BY <1>8 DEF RemoveOld, SnapInv
    <2>2. QED
        BY <1>8, <2>1 DEF RemoveOld, SnapInv
<1>9. QED
    BY <1>2, <1>3, <1>4, <1>5, <1>6, <1>7, <1>8 DEF SnapNext

\* The chunks of one index, the last of which is done, are those of its snapshot.
LEMMA SnapInvGives ==
    ASSUME SnapInv
    PROVE  SnapTypeOK /\ StreamsAreWhole
<1> DEFINE m == Len(stream)
           i == stream[1].index
<1>1. m \in Nat /\ DOMAIN stream = 1 .. m
    BY LenProperties DEF SnapInv
<1>2. ASSUME stream # <<>>, Last(stream).done, \A n \in DOMAIN stream : stream[n].index = i
      PROVE  stream = [n \in 1 .. Chunks[i] |->
                         [index |-> i, part |-> <<i, n - 1>>, done |-> n = Chunks[i]]]
    <2>1. m \in 1 .. m /\ 1 \in 1 .. m /\ stream[m].done
        BY <1>1, <1>2 DEF Last
    <2>2. \A n \in 1 .. m : \E j \in Index : stream[n] = ChunkOf(j, n)
        BY DEF SnapInv
    <2>3. \A n \in 1 .. m - 1 : ~stream[n].done
        BY DEF SnapInv
    <2>4. \A n \in 1 .. m : stream[n] = ChunkOf(i, n) /\ i \in Index
        BY <1>1, <1>2, <2>2 DEF ChunkOf
    <2>5. Chunks[i] \in Nat \ {0}
        BY <2>1, <2>4, IndexType
    <2>6. \A n \in 1 .. m : /\ stream[n].done <=> n >= Chunks[i]
                            /\ stream[n] = [index |-> i,
                                            part |-> IF n - 1 < Chunks[i] THEN <<i, n - 1>> ELSE <<0, 0>>,
                                            done |-> n >= Chunks[i]]
        <3> TAKE n \in 1 .. m
        <3>1. stream[n] = ChunkOf(i, n)
            BY <2>4
        <3>2. ChunkOf(i, n).done <=> n >= Chunks[i]
            BY Zenon DEF ChunkOf
        <3>3. ChunkOf(i, n) = [index |-> i,
                               part |-> IF n - 1 < Chunks[i] THEN <<i, n - 1>> ELSE <<0, 0>>,
                               done |-> n >= Chunks[i]]
            BY Zenon DEF ChunkOf
        <3>4. QED
            BY <3>1, <3>2, <3>3, Zenon
    <2> HIDE DEF m, i
    <2>7. m = Chunks[i]
        <3>1. m >= Chunks[i]
            BY <2>1, <2>6
        <3>2. m > Chunks[i] => Chunks[i] \in 1 .. m - 1 /\ Chunks[i] \in 1 .. m
            BY <1>1, <2>5
        <3>3. QED
            BY <1>1, <2>3, <2>5, <2>6, <3>1, <3>2
    <2>8. \A n \in 1 .. m : /\ n - 1 < Chunks[i]
                            /\ (n >= Chunks[i]) = (n = Chunks[i])
        BY <1>1, <2>5, <2>7
    <2>9. \A n \in 1 .. m : stream[n] = [index |-> i, part |-> <<i, n - 1>>, done |-> n = Chunks[i]]
        BY <2>6, <2>8
    <2>10. stream = [n \in 1 .. m |-> stream[n]]
        BY <1>1, LenProperties DEF SnapInv
    <2>11. QED
        BY <2>7, <2>9, <2>10
<1>3. SnapTypeOK
    BY NewestIsMax DEF SnapInv, SnapTypeOK
<1>4. QED
    BY <1>2, <1>3 DEF StreamsAreWhole, SnapInv

\* The newest snapshot is served, and a complete stream of one index is its snapshot.
THEOREM CompleteStreamsAreWhole == SnapSpec => [](SnapTypeOK /\ StreamsAreWhole)
BY SnapInvInit, SnapInvStep, SnapInvGives, PTL DEF SnapSpec

-----------------------------------------------------------------------------
(* The deque.                                                              *)

\* Two numbers closer than c have different places in a ring of c.
LEMMA PlacesDiffer ==
    ASSUME NEW c \in Nat \ {0}, NEW a \in Nat, NEW b \in Nat, a < b, b < a + c
    PROVE  a % c # b % c
<1> DEFINE p == a \div c
           q == b \div c
           r == a % c
<1>1. SUFFICES ASSUME b % c = r PROVE FALSE
    OBVIOUS
<1>2. a % c = a - c * (a \div c) /\ b % c = b - c * (b \div c)
    BY SMT
<1>3. p \in Int /\ q \in Int /\ r \in Int /\ r = a - c * p /\ r = b - c * q
    BY <1>1, <1>2
<1> HIDE DEF p, q, r
<1>4. c * (q - p) = b - a
    BY <1>3
<1>5. /\ q - p <= 0 => c * (q - p) <= 0
      /\ q - p >= 1 => c * (q - p) >= c
    BY <1>3
<1>6. QED
    BY <1>3, <1>4, <1>5

LEMMA PlaceType ==
    ASSUME NEW c \in Nat \ {0}, NEW a \in Nat
    PROVE  a % c \in 0 .. c - 1
OBVIOUS

\* A ring is of consecutive slots from 0.
Ring(b) == /\ Capacity(b) \in Nat \ {0} /\ DOMAIN b = 0 .. Capacity(b) - 1
           /\ b \in [0 .. Capacity(b) - 1 -> Item \cup {Nothing}]

DequeInv ==
    /\ top \in Nat /\ bottom \in Nat /\ top <= bottom
    /\ Ring(buffer) /\ bottom - top <= Capacity(buffer)

LEMMA RingOf ==
    ASSUME NEW c \in Nat \ {0}, NEW b \in [0 .. c - 1 -> Item \cup {Nothing}]
    PROVE  Ring(b) /\ Capacity(b) = c
<1>1. IsFiniteSet(0 .. c - 1) /\ Cardinality(0 .. c - 1) = c
    BY FS_Interval
<1>2. QED
    BY <1>1 DEF Ring, Capacity

LEMMA RingSlots ==
    ASSUME NEW b, Ring(b), NEW i \in Nat
    PROVE  Slot(b, i) \in 0 .. Capacity(b) - 1 /\ Slot(b, i) \in DOMAIN b /\ b[Slot(b, i)] \in Item \cup {Nothing}
<1>1. Slot(b, i) \in 0 .. Capacity(b) - 1
    BY PlaceType DEF Ring, Slot
<1>2. QED
    BY <1>1 DEF Ring

LEMMA SlotsDiffer ==
    ASSUME NEW b, Ring(b), NEW i \in Nat, NEW j \in Nat, i # j,
           i < j + Capacity(b), j < i + Capacity(b)
    PROVE  Slot(b, i) # Slot(b, j)
<1>1. Capacity(b) \in Nat \ {0}
    BY DEF Ring
<1>2. CASE i < j
    BY <1>1, <1>2, PlacesDiffer DEF Slot
<1>3. CASE j < i
    BY <1>1, <1>3, PlacesDiffer DEF Slot
<1>4. QED
    BY <1>2, <1>3

\* The wider ring has the tasks at their new places.
LEMMA GrownKeeps ==
    ASSUME NEW b, Ring(b), NEW t \in Nat, NEW n \in Nat, t <= n, n - t <= Capacity(b)
    PROVE  /\ Ring(Grown(b, t, n)) /\ Capacity(Grown(b, t, n)) = 2 * Capacity(b)
           /\ \A i \in t .. n - 1 : Grown(b, t, n)[Slot(Grown(b, t, n), i)] = b[Slot(b, i)]
<1> DEFINE w == 2 * Capacity(b)
           g == Grown(b, t, n)
           held(s) == {i \in t .. n - 1 : i % w = s}
<1>1. Capacity(b) \in Nat \ {0} /\ w \in Nat \ {0} /\ n - t < w
    BY DEF Ring
<1>2. g = [s \in 0 .. w - 1 |-> IF held(s) = {} THEN Nothing
                                ELSE b[Slot(b, CHOOSE i \in held(s) : TRUE)]]
    BY DEF Grown
<1>3. ASSUME NEW s, held(s) # {} PROVE (CHOOSE i \in held(s) : TRUE) \in held(s)
    BY <1>3
<1>4. g \in [0 .. w - 1 -> Item \cup {Nothing}]
    <2>1. ASSUME NEW s \in 0 .. w - 1, held(s) # {}
          PROVE  b[Slot(b, CHOOSE i \in held(s) : TRUE)] \in Item \cup {Nothing}
        <3>1. (CHOOSE i \in held(s) : TRUE) \in Nat
            BY <1>3, <2>1
        <3>2. QED
            BY <3>1, RingSlots
    <2> HIDE DEF held, w, g
    <2>2. \A s \in 0 .. w - 1 : (IF held(s) = {} THEN Nothing
                                ELSE b[Slot(b, CHOOSE i \in held(s) : TRUE)]) \in Item \cup {Nothing}
        BY <2>1
    <2>3. QED
        BY <1>2, <2>2
<1>5. Ring(g) /\ Capacity(g) = w
    <2> HIDE DEF w, g
    <2>1. QED
        BY <1>1, <1>4, RingOf
<1>6. ASSUME NEW i \in t .. n - 1 PROVE g[Slot(g, i)] = b[Slot(b, i)]
    <2>1. i \in Nat /\ i % w \in 0 .. w - 1
        <3>1. i \in Nat
            OBVIOUS
        <3> HIDE DEF w
        <3>2. QED
            BY <1>1, <3>1, PlaceType
    <2>2. \A j \in held(i % w) : j = i
        <3>1. ASSUME NEW j \in held(i % w), j # i PROVE FALSE
            <4>1. j \in t .. n - 1 /\ j \in Nat /\ j % w = i % w
                BY <3>1
            <4> HIDE DEF w
            <4>2. i < j \/ j < i
                BY <2>1, <3>1, <4>1
            <4>3. i < j + w /\ j < i + w
                BY <1>1, <4>1
            <4>4. QED
                BY <1>1, <2>1, <4>1, <4>2, <4>3, PlacesDiffer
        <3>2. QED
            BY <3>1
    <2>3. i \in held(i % w)
        OBVIOUS
    <2>4. (CHOOSE j \in held(i % w) : TRUE) = i
        BY <1>3, <2>2, <2>3
    <2>5. g[i % w] = b[Slot(b, i)]
        <3> HIDE DEF held, w
        <3>1. QED
            BY <1>2, <2>1, <2>3, <2>4
    <2>6. QED
        BY <1>5, <2>5 DEF Slot
<1>7. QED
    BY <1>5, <1>6

\* What a ring holds between two indices.
ItemsOf(b, t, n) == [i \in 1 .. n - t |-> b[Slot(b, t + i - 1)]]

ItemsTyped(b, t, n) ==
    /\ Len(ItemsOf(b, t, n)) = n - t /\ n - t \in Nat
    /\ ItemsOf(b, t, n) \in Seq(Item \cup {Nothing})
    /\ \A i \in 1 .. n - t : ItemsOf(b, t, n)[i] = b[Slot(b, t + i - 1)]
    /\ n = t => ItemsOf(b, t, n) = <<>>

LEMMA ItemsOfType ==
    ASSUME NEW b, Ring(b), NEW t \in Nat, NEW n \in Nat, t <= n
    PROVE  ItemsTyped(b, t, n)
<1>1. \A i \in 1 .. n - t : b[Slot(b, t + i - 1)] \in Item \cup {Nothing}
    <2> TAKE i \in 1 .. n - t
    <2>1. t + i - 1 \in Nat
        OBVIOUS
    <2>2. QED
        BY <2>1, RingSlots
<1>2. n - t \in Nat
    OBVIOUS
<1>3. QED
    BY <1>1, <1>2 DEF ItemsOf, ItemsTyped

LEMMA DequeInvInit == DequeInit => DequeInv /\ Sequential!Init
<1>1. SUFFICES ASSUME DequeInit PROVE DequeInv /\ Sequential!Init
    OBVIOUS
<1>2. InitialCapacity \in Nat \ {0} /\ top = 0 /\ bottom = 0 /\ taken = Nothing
      /\ buffer \in [0 .. InitialCapacity - 1 -> Item \cup {Nothing}]
    BY <1>1, DequeAssumption DEF DequeInit
<1>3. Ring(buffer)
    BY <1>2, RingOf
<1>4. Items = <<>>
    BY <1>2, <1>3 DEF Items
<1>5. QED
    BY <1>2, <1>3, <1>4 DEF DequeInv, Ring, Sequential!Init

\* The slots of a ring that is only written outside of them.
LEMMA PushKeeps ==
    ASSUME DequeInv, NEW task \in Item, PushBottom(task)
    PROVE  DequeInv' /\ Sequential!Push
<1> DEFINE room == IF bottom - top >= Capacity(buffer) - 1
                   THEN Grown(buffer, top, bottom) ELSE buffer
           c == Capacity(room)
<1>1. /\ top \in Nat /\ bottom \in Nat /\ top <= bottom /\ Ring(buffer)
      /\ bottom - top <= Capacity(buffer) /\ Capacity(buffer) \in Nat \ {0}
    BY DEF DequeInv, Ring
<1>2. /\ buffer' = [room EXCEPT ![Slot(room, bottom)] = task]
      /\ bottom' = bottom + 1 /\ top' = top /\ taken' = Nothing
    BY DEF PushBottom
<1>3. /\ Ring(room) /\ c \in Nat \ {0} /\ bottom - top < c
      /\ \A i \in top .. bottom - 1 : room[Slot(room, i)] = buffer[Slot(buffer, i)]
    <2>1. CASE bottom - top >= Capacity(buffer) - 1
        <3>1. room = Grown(buffer, top, bottom)
            BY <2>1
        <3>2. Ring(room) /\ c = 2 * Capacity(buffer)
              /\ \A i \in top .. bottom - 1 : room[Slot(room, i)] = buffer[Slot(buffer, i)]
            BY <1>1, <3>1, GrownKeeps
        <3>3. QED
            BY <1>1, <3>2
    <2>2. CASE ~(bottom - top >= Capacity(buffer) - 1)
        <3>1. room = buffer
            BY <2>2
        <3>2. QED
            BY <1>1, <2>2, <3>1
    <2>3. QED
        BY <2>1, <2>2
<1> HIDE DEF room
<1>4. Slot(room, bottom) \in 0 .. c - 1
    BY <1>1, <1>3, RingSlots
<1>5. Ring(buffer') /\ Capacity(buffer') = c
    <2>1. buffer' \in [0 .. c - 1 -> Item \cup {Nothing}]
        BY <1>2, <1>3, <1>4 DEF Ring
    <2> HIDE DEF c
    <2>2. QED
        BY <1>3, <2>1, RingOf
<1>6. \A i \in Nat : Slot(buffer', i) = Slot(room, i)
    BY <1>5 DEF Slot
<1>7. buffer'[Slot(buffer', bottom)] = task
    BY <1>1, <1>2, <1>3, <1>4, <1>6 DEF Ring
<1>8. \A i \in top .. bottom - 1 : buffer'[Slot(buffer', i)] = buffer[Slot(buffer, i)]
    <2> TAKE i \in top .. bottom - 1
    <2>1. i \in Nat /\ i # bottom /\ i < bottom + c /\ bottom < i + c
        <3> HIDE DEF c
        <3>1. QED
            BY <1>1, <1>3
    <2>2. Slot(room, i) # Slot(room, bottom) /\ Slot(room, i) \in DOMAIN room
        BY <1>1, <1>3, <2>1, SlotsDiffer, RingSlots
    <2>3. buffer'[Slot(room, i)] = room[Slot(room, i)]
        BY <1>2, <2>2
    <2>4. QED
        BY <1>3, <1>6, <2>1, <2>3
<1>9. Items' = Append(Items, task)
    <2> DEFINE old == ItemsOf(buffer, top, bottom)
               new == ItemsOf(buffer', top, bottom + 1)
               d == bottom - top
    <2>1. Items = old /\ Items' = new
        BY <1>2 DEF Items, ItemsOf
    <2>2. /\ old \in Seq(Item \cup {Nothing}) /\ Len(old) = d /\ d \in Nat
          /\ \A i \in 1 .. d : old[i] = buffer[Slot(buffer, top + i - 1)]
        <3>1. Ring(buffer) /\ top \in Nat /\ bottom \in Nat /\ top <= bottom
            BY <1>1
        <3> HIDE DEF old, c
        <3>2. /\ ItemsOf(buffer, top, bottom) \in Seq(Item \cup {Nothing})
              /\ Len(ItemsOf(buffer, top, bottom)) = bottom - top /\ bottom - top \in Nat
              /\ \A i \in 1 .. bottom - top :
                    ItemsOf(buffer, top, bottom)[i] = buffer[Slot(buffer, top + i - 1)]
            BY <3>1, ItemsOfType DEF ItemsTyped
        <3>3. QED
            BY <3>2 DEF old
    <2>3. /\ new \in Seq(Item \cup {Nothing}) /\ Len(new) = d + 1
          /\ \A i \in 1 .. d + 1 : new[i] = buffer'[Slot(buffer', top + i - 1)]
        <3>1. bottom + 1 \in Nat /\ top <= bottom + 1 /\ (bottom + 1) - top = d + 1
            BY <1>1
        <3> DEFINE e == bottom + 1
        <3>2. new = ItemsOf(buffer', top, e) /\ e - top = d + 1 /\ e \in Nat /\ top <= e
            BY <3>1
        <3> HIDE DEF d, e, new, old, c
        <3>3. Ring(buffer') /\ top \in Nat /\ e \in Nat /\ top <= e
            BY <1>1, <1>5, <3>2
        <3>4. /\ ItemsOf(buffer', top, e) \in Seq(Item \cup {Nothing})
              /\ Len(ItemsOf(buffer', top, e)) = e - top
              /\ \A i \in 1 .. e - top :
                    ItemsOf(buffer', top, e)[i] = buffer'[Slot(buffer', top + i - 1)]
            BY <3>3, ItemsOfType DEF ItemsTyped
        <3>5. QED
            BY <3>2, <3>4
    <2> HIDE DEF old, new
    <2>4. \A i \in 1 .. d : new[i] = old[i]
        <3> TAKE i \in 1 .. d
        <3>1. top + i - 1 \in top .. bottom - 1 /\ i \in 1 .. d + 1
            BY <1>1
        <3> HIDE DEF d
        <3>2. QED
            BY <1>8, <2>2, <2>3, <3>1
    <2>5. new[d + 1] = task
        <3>1. top + (d + 1) - 1 = bottom
            BY <1>1
        <3> HIDE DEF d
        <3>2. d + 1 \in 1 .. d + 1
            BY <2>2
        <3>3. QED
            BY <1>7, <2>3, <3>1, <3>2
    <2> HIDE DEF d
    <2>6. Append(old, task) \in Seq(Item \cup {Nothing}) /\ Len(Append(old, task)) = d + 1
          /\ Append(old, task)[d + 1] = task
          /\ \A i \in 1 .. d : Append(old, task)[i] = old[i]
        BY <2>2, AppendProperties
    <2>7. \A i \in 1 .. d + 1 : i \in 1 .. d \/ i = d + 1
        BY <2>2
    <2>8. \A i \in 1 .. Len(new) : new[i] = Append(old, task)[i]
        BY <2>3, <2>4, <2>5, <2>6, <2>7
    <2>9. new = Append(old, task)
        BY <2>3, <2>6, <2>8, SeqEqual
    <2>10. QED
        BY <2>1, <2>9
<1>10. DequeInv'
    <2> HIDE DEF c
    <2>1. bottom' - top' <= Capacity(buffer')
        BY <1>1, <1>2, <1>3, <1>5
    <2>2. QED
        BY <1>1, <1>2, <1>5, <2>1 DEF DequeInv
<1>11. QED
    BY <1>2, <1>9, <1>10 DEF Sequential!Push

\* A part of what is held, if nobody wrote there.
SameSlots(k, b, u, m) == \A i \in u .. m - 1 : k[Slot(k, i)] = b[Slot(b, i)]
IsPart(k, u, m, b, t, n) == ItemsOf(k, u, m) = SubSeq(ItemsOf(b, t, n), u - t + 1, m - t)

LEMMA PartOfItems ==
    ASSUME NEW b, Ring(b), NEW k, Ring(k), NEW t \in Nat, NEW n \in Nat, NEW u \in Nat, NEW m \in Nat,
           t <= u, u <= m, m <= n, SameSlots(k, b, u, m)
    PROVE  IsPart(k, u, m, b, t, n)
<1> DEFINE old == ItemsOf(b, t, n)
           new == ItemsOf(k, u, m)
           sub == SubSeq(old, u - t + 1, m - t)
<1>1. /\ old \in Seq(Item \cup {Nothing}) /\ Len(old) = n - t
      /\ \A i \in 1 .. n - t : old[i] = b[Slot(b, t + i - 1)]
    <2>1. t <= n
        OBVIOUS
    <2>2. ItemsTyped(b, t, n)
        BY <2>1, ItemsOfType
    <2>3. QED
        BY <2>2 DEF ItemsTyped
<1>2. /\ new \in Seq(Item \cup {Nothing}) /\ Len(new) = m - u
      /\ \A i \in 1 .. m - u : new[i] = k[Slot(k, u + i - 1)]
    <2>1. ItemsTyped(k, u, m)
        BY ItemsOfType
    <2>2. QED
        BY <2>1 DEF ItemsTyped
<1> HIDE DEF old, new
<1>3. \A i \in u - t + 1 .. m - t : i \in 1 .. n - t
    OBVIOUS
<1>4. /\ sub \in Seq(Item \cup {Nothing}) /\ Len(sub) = m - u
      /\ \A i \in 1 .. m - u : sub[i] = old[u - t + i]
    <2> DEFINE x == u - t + 1
               y == m - t
    <2>1. x \in Nat \ {0} /\ y \in Int /\ y - x + 1 = m - u /\ y <= Len(old) /\ y >= x - 1
        BY <1>1
    <2>2. \A i \in x .. y : old[i] \in Item \cup {Nothing}
        BY <1>1, <1>3, ElementOfSeq
    <2>3. \A i \in 1 .. m - u : x + i - 1 = u - t + i
        OBVIOUS
    <2> HIDE DEF x, y
    <2>4. /\ SubSeq(old, x, y) \in Seq(Item \cup {Nothing})
          /\ Len(SubSeq(old, x, y)) = (IF x <= y THEN y - x + 1 ELSE 0)
          /\ \A i \in 1 .. y - x + 1 : SubSeq(old, x, y)[i] = old[x + i - 1]
        BY <2>1, <2>2, SubSeqProperties
    <2>5. (IF x <= y THEN y - x + 1 ELSE 0) = m - u
        BY <2>1
    <2>6. QED
        BY <2>1, <2>3, <2>4, <2>5 DEF x, y
<1> HIDE DEF sub
<1>5. \A i \in 1 .. m - u : new[i] = sub[i]
    <2> TAKE i \in 1 .. m - u
    <2>1. u + i - 1 \in u .. m - 1 /\ u - t + i \in 1 .. n - t /\ t + (u - t + i) - 1 = u + i - 1
        OBVIOUS
    <2>2. QED
        BY <1>1, <1>2, <1>4, <2>1 DEF SameSlots
<1>6. new = sub
    BY <1>2, <1>4, <1>5, SeqEqual
<1>7. QED
    BY <1>6 DEF IsPart, new, sub, old

LEMMA ItemsNow ==
    ASSUME DequeInv
    PROVE  /\ Items = ItemsOf(buffer, top, bottom) /\ Items \in Seq(Item \cup {Nothing})
           /\ Len(Items) = bottom - top /\ (Items = <<>> <=> bottom = top)
           /\ bottom > top => /\ Items[1] = buffer[Slot(buffer, top)] /\ Head(Items) = Items[1]
                              /\ Items[Len(Items)] = buffer[Slot(buffer, bottom - 1)]
<1>1. Ring(buffer) /\ top \in Nat /\ bottom \in Nat /\ top <= bottom
    BY DEF DequeInv
<1>2. Items = ItemsOf(buffer, top, bottom)
    BY DEF Items, ItemsOf
<1>3. /\ Items \in Seq(Item \cup {Nothing}) /\ Len(Items) = bottom - top
      /\ \A i \in 1 .. bottom - top : Items[i] = buffer[Slot(buffer, top + i - 1)]
      /\ bottom = top => Items = <<>>
    <2>1. ItemsTyped(buffer, top, bottom)
        BY <1>1, ItemsOfType
    <2>2. QED
        BY <1>2, <2>1 DEF ItemsTyped
<1>4. Items = <<>> => bottom = top
    BY <1>1, <1>3
<1>5. ASSUME bottom > top
      PROVE  /\ Items[1] = buffer[Slot(buffer, top)] /\ Head(Items) = Items[1]
             /\ Items[Len(Items)] = buffer[Slot(buffer, bottom - 1)]
    <2>1. /\ 1 \in 1 .. bottom - top /\ bottom - top \in 1 .. bottom - top
          /\ top + 1 - 1 = top /\ top + (bottom - top) - 1 = bottom - 1
        BY <1>1, <1>5
    <2>2. Head(Items) = Items[1]
        BY <1>3, <1>4, <1>5
    <2>3. QED
        BY <1>3, <2>1, <2>2
<1>6. QED
    BY <1>2, <1>3, <1>4, <1>5

LEMMA PopKeeps ==
    ASSUME DequeInv, PopBottom
    PROVE  DequeInv' /\ Sequential!Pop
<1>1. Ring(buffer) /\ top \in Nat /\ bottom \in Nat /\ top <= bottom
      /\ bottom - top <= Capacity(buffer) /\ Capacity(buffer) \in Nat \ {0}
    BY DEF DequeInv, Ring
<1>2. CASE bottom = top
    <2>1. taken' = Nothing /\ bottom' = bottom /\ buffer' = buffer /\ top' = top
        BY <1>1, <1>2 DEF PopBottom
    <2>2. Items' = Items
        BY <2>1 DEF Items
    <2>3. QED
        BY <1>2, <2>1, <2>2, ItemsNow DEF DequeInv, Sequential!Pop
<1>3. CASE bottom # top
    <2>1. bottom > top /\ ~(bottom - 1 < top) /\ bottom - 1 \in Nat
        BY <1>1, <1>3
    <2>2. /\ taken' = buffer[Slot(buffer, bottom - 1)]
          /\ buffer' = [buffer EXCEPT ![Slot(buffer, bottom - 1)] = Nothing]
          /\ IF bottom - 1 > top THEN bottom' = bottom - 1 /\ top' = top
             ELSE top' = top + 1 /\ bottom' = top + 1
        BY <2>1 DEF PopBottom
    <2>3. Slot(buffer, bottom - 1) \in 0 .. Capacity(buffer) - 1
        BY <1>1, <2>1, RingSlots
    <2>4. Ring(buffer') /\ Capacity(buffer') = Capacity(buffer)
        <3>1. buffer' \in [0 .. Capacity(buffer) - 1 -> Item \cup {Nothing}]
            BY <1>1, <2>2, <2>3 DEF Ring
        <3>2. QED
            BY <1>1, <3>1, RingOf
    <2>5. \A i \in top .. bottom - 2 : buffer'[Slot(buffer', i)] = buffer[Slot(buffer, i)]
        <3> TAKE i \in top .. bottom - 2
        <3>1. /\ i \in Nat /\ i # bottom - 1
              /\ i < (bottom - 1) + Capacity(buffer) /\ bottom - 1 < i + Capacity(buffer)
            BY <1>1
        <3>2. Slot(buffer, i) # Slot(buffer, bottom - 1) /\ Slot(buffer, i) \in DOMAIN buffer
            BY <1>1, <2>1, <3>1, SlotsDiffer, RingSlots
        <3>3. Slot(buffer', i) = Slot(buffer, i)
            BY <2>4 DEF Slot
        <3>4. QED
            BY <2>2, <3>2, <3>3
    <2>6. ItemsOf(buffer', top, bottom - 1) = SubSeq(Items, 1, Len(Items) - 1)
        <3> DEFINE m == bottom - 1
        <3>1. m \in Nat /\ top <= m /\ m <= bottom /\ top - top + 1 = 1 /\ m - top = Len(Items) - 1
              /\ \A i \in top .. m - 1 : i \in top .. bottom - 2
            BY <1>1, <2>1, ItemsNow
        <3> HIDE DEF m
        <3>2. ItemsOf(buffer', top, m) = SubSeq(ItemsOf(buffer, top, bottom), top - top + 1, m - top)
            <4>1. SameSlots(buffer', buffer, top, m)
                BY <2>5, <3>1 DEF SameSlots
            <4>2. Ring(buffer) /\ Ring(buffer') /\ top \in Nat /\ bottom \in Nat /\ m \in Nat
                  /\ top <= top /\ top <= m /\ m <= bottom
                BY <1>1, <2>4, <3>1
            <4>3. IsPart(buffer', top, m, buffer, top, bottom)
                BY <4>1, <4>2, PartOfItems
            <4>4. QED
                BY <4>3 DEF IsPart
        <3>3. QED
            BY <3>1, <3>2, ItemsNow DEF m
    <2>7. Items' = ItemsOf(buffer', top, bottom - 1)
        <3>1. Items' = ItemsOf(buffer', top', bottom')
            BY DEF Items, ItemsOf
        <3>2. CASE bottom - 1 > top
            BY <2>2, <3>1, <3>2
        <3>3. CASE ~(bottom - 1 > top)
            <4>1. bottom' = top + 1 /\ top' = top + 1 /\ top + 1 \in Nat /\ bottom - 1 = top
                BY <1>1, <2>1, <2>2, <3>3
            <4>2. ItemsOf(buffer', top + 1, top + 1) = <<>> /\ ItemsOf(buffer', top, top) = <<>>
                <5>1. ItemsTyped(buffer', top + 1, top + 1) /\ ItemsTyped(buffer', top, top)
                    BY <1>1, <2>4, <4>1, ItemsOfType
                <5>2. QED
                    BY <5>1 DEF ItemsTyped
            <4>3. QED
                BY <3>1, <4>1, <4>2
        <3>4. QED
            BY <3>2, <3>3
    <2>8. DequeInv'
        <3>1. /\ top' \in Nat /\ bottom' \in Nat /\ top' <= bottom'
              /\ bottom' - top' <= bottom - top
            BY <1>1, <2>1, <2>2
        <3>2. bottom' - top' <= Capacity(buffer')
            <4>1. Capacity(buffer) \in Nat /\ bottom - top <= Capacity(buffer)
                  /\ Capacity(buffer') = Capacity(buffer)
                BY <1>1, <2>4
            <4>2. bottom' - top' \in Int /\ bottom - top \in Int
                BY <1>1, <3>1
            <4>3. bottom' - top' <= bottom - top
                BY <3>1
            <4> DEFINE c == Capacity(buffer)
                       d == bottom - top
                       e == bottom' - top'
            <4>4. c \in Int /\ d \in Int /\ e \in Int /\ d <= c /\ e <= d
                BY <4>1, <4>2, <4>3
            <4> HIDE DEF c, d, e
            <4>5. e <= c
                BY <4>4
            <4>6. QED
                BY <4>1, <4>5 DEF c, d, e
        <3>3. QED
            BY <2>4, <3>1, <3>2 DEF DequeInv
    <2>9. Items # <<>> /\ taken' = Items[Len(Items)]
        BY <1>3, <2>1, <2>2, ItemsNow
    <2>10. QED
        BY <2>6, <2>7, <2>8, <2>9 DEF Sequential!Pop
<1>4. QED
    BY <1>2, <1>3

LEMMA StealKeeps ==
    ASSUME DequeInv, StealTop
    PROVE  DequeInv' /\ Sequential!Steal
<1>1. Ring(buffer) /\ top \in Nat /\ bottom \in Nat /\ top <= bottom
      /\ bottom - top <= Capacity(buffer) /\ Capacity(buffer) \in Nat \ {0}
      /\ buffer' = buffer /\ bottom' = bottom
    BY DEF DequeInv, Ring, StealTop
<1>2. CASE bottom = top
    <2>1. taken' = Nothing /\ top' = top
        BY <1>1, <1>2 DEF StealTop
    <2>2. Items' = Items
        BY <1>1, <2>1 DEF Items
    <2>3. QED
        BY <1>1, <1>2, <2>1, <2>2, ItemsNow DEF DequeInv, Sequential!Steal
<1>3. CASE bottom # top
    <2>1. bottom > top /\ taken' = buffer[Slot(buffer, top)] /\ top' = top + 1
        BY <1>1, <1>3 DEF StealTop
    <2>2. ItemsOf(buffer, top + 1, bottom) = SubSeq(Items, 2, Len(Items))
        <3> DEFINE u == top + 1
        <3>1. u \in Nat /\ top <= u /\ u <= bottom /\ u - top + 1 = 2 /\ bottom - top = Len(Items)
            BY <1>1, <2>1, ItemsNow
        <3> HIDE DEF u
        <3>2. ItemsOf(buffer, u, bottom) = SubSeq(ItemsOf(buffer, top, bottom), u - top + 1, bottom - top)
            <4>1. SameSlots(buffer, buffer, u, bottom)
                BY DEF SameSlots
            <4>2. Ring(buffer) /\ top \in Nat /\ bottom \in Nat /\ u \in Nat
                  /\ top <= u /\ u <= bottom /\ bottom <= bottom
                BY <1>1, <3>1
            <4>3. IsPart(buffer, u, bottom, buffer, top, bottom)
                BY <4>1, <4>2, PartOfItems
            <4>4. QED
                BY <4>3 DEF IsPart
        <3>3. QED
            BY <3>1, <3>2, ItemsNow DEF u
    <2>3. Items' = SubSeq(Items, 2, Len(Items))
        <3>1. Items' = ItemsOf(buffer, top + 1, bottom)
            BY <1>1, <2>1 DEF Items, ItemsOf
        <3>2. QED
            BY <2>2, <3>1
    <2>4. Tail(Items) = SubSeq(Items, 2, Len(Items))
        BY <1>3, ItemsNow, TailIsSubSeq
    <2>5. Items # <<>> /\ taken' = Head(Items)
        BY <1>3, <2>1, ItemsNow
    <2>6. DequeInv'
        BY <1>1, <2>1 DEF DequeInv
    <2>7. QED
        BY <2>3, <2>4, <2>5, <2>6 DEF Sequential!Steal
<1>4. QED
    BY <1>2, <1>3

LEMMA DequeInvStep ==
    ASSUME DequeInv, [DequeNext]_dequeVars
    PROVE  DequeInv' /\ [Sequential!Next]_Sequential!vars
<1>1. CASE UNCHANGED dequeVars
    <2>1. Items' = Items /\ taken' = taken
        BY <1>1 DEF dequeVars, Items
    <2>2. QED
        BY <1>1, <2>1 DEF dequeVars, DequeInv, Sequential!vars
<1>2. ASSUME NEW task \in Item, PushBottom(task) PROVE DequeInv' /\ [Sequential!Next]_Sequential!vars
    BY <1>2, PushKeeps DEF Sequential!Next
<1>3. CASE PopBottom
    BY <1>3, PopKeeps DEF Sequential!Next
<1>4. CASE StealTop
    BY <1>4, StealKeeps DEF Sequential!Next
<1>5. QED
    BY <1>1, <1>2, <1>3, <1>4 DEF DequeNext

\* The slots between the indices are within the ring, for any capacity to begin with.
THEOREM DequeTypes == DequeSpec => []DequeTypeOK
<1>1. DequeInv => DequeTypeOK
    BY DEF DequeInv, Ring, DequeTypeOK
<1>2. QED
    BY <1>1, DequeInvInit, DequeInvStep, PTL DEF DequeSpec

\* Ring, indices and growth implement a sequence with two ends.
THEOREM DequeRefines == DequeSpec => DequeIsSequence
BY DequeInvInit, DequeInvStep, PTL DEF DequeSpec, DequeIsSequence, Sequential!Spec

-----------------------------------------------------------------------------
(* The parts together.                                                     *)

\* A behaviour of all parts, of which one moves, is a behaviour of each.
LEMMA PartsBegin ==
    Init => /\ DagInit /\ SupInit /\ SagaInit /\ DequeInit
            /\ LsmInit /\ LogInit /\ SnapInit
BY DEF Init

LEMMA PartsStep ==
    [Next]_vars =>
        /\ [DagNext]_dagVars /\ [SupNext]_supVars /\ [SagaNext]_sagaVars /\ [DequeNext]_dequeVars
        /\ [LsmNext]_lsmVars /\ [LogNext]_logVars /\ [SnapNext]_snapVars
<1> USE DEF NotDag, NotSup, NotSaga, NotDeque, NotLsm, NotLog, NotSnap, vars
<1> SUFFICES ASSUME [Next]_vars
             PROVE  /\ [DagNext]_dagVars /\ [SupNext]_supVars /\ [SagaNext]_sagaVars
                    /\ [DequeNext]_dequeVars /\ [LsmNext]_lsmVars /\ [LogNext]_logVars
                    /\ [SnapNext]_snapVars
    OBVIOUS
<1>1. CASE DagNext /\ UNCHANGED NotDag
    BY <1>1
<1>2. CASE SupNext /\ UNCHANGED NotSup
    BY <1>2
<1>3. CASE SagaNext /\ UNCHANGED NotSaga
    BY <1>3
<1>4. CASE DequeNext /\ UNCHANGED NotDeque
    BY <1>4
<1>5. CASE LsmNext /\ UNCHANGED NotLsm
    BY <1>5
<1>6. CASE LogNext /\ UNCHANGED NotLog
    BY <1>6
<1>7. CASE SnapNext /\ UNCHANGED NotSnap
    BY <1>7
<1>8. CASE UNCHANGED vars
    BY <1>8
<1>9. QED
    BY <1>1, <1>2, <1>3, <1>4, <1>5, <1>6, <1>7, <1>8 DEF Next

\* What is proved of the parts holds of the state they share a run in: every part keeps
\* its types, whatever the others do.
THEOREM TypesStay == ASSUME NamedOnceOnly PROVE FairSpec => []TypesOK
<1>1. FairSpec => /\ DagSpec /\ SupSpec /\ SagaSpec /\ DequeSpec
                  /\ LsmSpec /\ LogSpec /\ SnapSpec
    BY PartsBegin, PartsStep, PTL
       DEF FairSpec, DagSpec, SupSpec, SagaSpec, DequeSpec, LsmSpec, LogSpec, SnapSpec
<1>2. DagTypeOK /\ (SupTypeOK /\ TimeoutIsFailure) /\ (SagaTypeOK /\ UndoneInReverse)
      /\ DequeTypeOK /\ LsmTypeOK /\ LogTypeOK /\ (SnapTypeOK /\ StreamsAreWhole) => TypesOK
    BY DEF TypesOK
<1>3. QED
    BY <1>1, <1>2, DagTypes, TimeoutsFail, SagasUndoInReverse, DequeTypes, LsmTypes, LogTypes,
       CompleteStreamsAreWhole, PTL
=============================================================================
