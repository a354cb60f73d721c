-------------------------- MODULE SchedulerProofs --------------------------
(***************************************************************************)
(* What holds of the scheduler for any number of projects, any tasks,      *)
(* weights, limits and routes.  The inductive invariant ties the counters  *)
(* of a call to the runs that the host really has: runs may end while      *)
(* `schedule` works on its snapshot, so that a counter is an upper bound,  *)
(* and what is selected counts from the moment it is selected.             *)
(***************************************************************************)
EXTENDS Scheduler, FiniteSetTheorems, WellFoundedInduction, TLAPS

-----------------------------------------------------------------------------
(* A set of numbers that is not empty has a least element.                 *)
LEMMA SmallestNat ==
  ASSUME NEW S \in SUBSET Nat, S # {}
  PROVE  \E m \in S : \A n \in S : m <= n
<1>1. PICK m \in S : \A n \in S : ~(<<n, m>> \in OpToRel(<, Nat))
  BY NatLessThanWellFounded, WFMin
<1>2. ASSUME NEW n \in S PROVE m <= n
  <2>1. n \in Nat /\ m \in Nat
    OBVIOUS
  <2>2. n < m => <<n, m>> \in OpToRel(<, Nat)
    BY <2>1, Zenon DEF OpToRel
  <2>3. ~(n < m)
    BY <1>1, <2>2
  <2> QED BY <2>1, <2>3
<1> QED BY <1>2

(* A queue that is not empty has a first task (the sort at the top of the  *)
(* call is by a total order).                                              *)
LEMMA FirstIsThere ==
  ASSUME NEW S \in SUBSET Tasks, S # {}
  PROVE  First(S) \in S
<1> DEFINE ranks == {Rank[t] : t \in S}
<1>1. ranks \in SUBSET Nat /\ ranks # {}
  BY SchedulerAssumption
<1>2. PICK m \in ranks : \A n \in ranks : m <= n
  <2> HIDE DEF ranks
  <2> QED BY <1>1, SmallestNat
<1>3. \E t \in S : \A u \in S : Rank[t] <= Rank[u]
  BY <1>2
<1> QED BY <1>3 DEF First

(* Every effort costs something.                                           *)
LEMMA CostPositive == \A t \in Tasks : Cost(t) \in Nat \ {0}
  BY SchedulerAssumption DEF Cost, effortCost

(* Every weight, finite or not, brings some credit.                        *)
LEMMA QuantumPositive == \A p \in Projects : Quantum(p) \in Nat \ {0}
  BY SchedulerAssumption DEF Quantum

(* Sets of tasks can be counted.                                           *)
LEMMA TaskSets ==
  ASSUME NEW S \in SUBSET Tasks
  PROVE  IsFiniteSet(S) /\ Cardinality(S) \in Nat
  BY SchedulerAssumption, FS_Subset, FS_CardinalityType

(* Fewer tasks count for less.                                             *)
LEMMA FewerTasks ==
  ASSUME NEW S \in SUBSET Tasks, NEW T \in SUBSET S
  PROVE  Cardinality(T) <= Cardinality(S)
  BY TaskSets, FS_Subset

(* A task more counts for one.                                             *)
LEMMA OneMore ==
  ASSUME NEW S \in SUBSET Tasks, NEW t \in Tasks, t \notin S
  PROVE  Cardinality(S \cup {t}) = Cardinality(S) + 1
  BY TaskSets, FS_AddElement

(* At most one task more counts for at most one.                           *)
LEMMA AtMostOneMore ==
  ASSUME NEW S \in SUBSET Tasks, NEW t \in Tasks, NEW T \in SUBSET (S \cup {t})
  PROVE  Cardinality(T) <= Cardinality(S) + 1
<1>1. Cardinality(S) \in Nat /\ Cardinality(T) \in Nat
  BY TaskSets
<1>2. CASE t \in S
  <2>1. T \in SUBSET S BY <1>2
  <2>2. Cardinality(T) <= Cardinality(S) BY <2>1, FewerTasks
  <2> QED BY <1>1, <2>2
<1>3. CASE t \notin S
  <2>1. Cardinality(S \cup {t}) = Cardinality(S) + 1 BY <1>3, OneMore
  <2>2. Cardinality(T) <= Cardinality(S \cup {t}) BY FewerTasks
  <2> QED BY <1>1, <2>1, <2>2
<1> QED BY <1>2, <1>3

-----------------------------------------------------------------------------
(* The inductive invariant.                                                *)

RunningIn(p)    == {t \in Running : ProjectOf[t] = p}
RunningOn(lane) == {t \in Running : lane \in route[t]}

(* Queued tasks are ready tasks of their project that nobody has answered. *)
Queues ==
  /\ \A p \in Projects : \A t \in queue[p] : ProjectOf[t] = p /\ t \notin selected
  /\ pc = "host" => selected = {}
  /\ pc = "visit" => \A t \in ready :
       (blocked[t] = "none") <=> (t \in selected \/ t \in queue[ProjectOf[t]])

(* The counters of a call bound the runs, and the limits the counters.     *)
Counters ==
  pc # "host" =>
    /\ Cardinality(Running) + slots <= GlobalMaxRuns + Cardinality(selected)
    /\ Cardinality(selected) <= slots
    /\ \A p \in Projects :
         Cardinality(RunningIn(p)) <= projectRuns[p] /\ projectRuns[p] <= PerProjectMaxRuns
    /\ \A lane \in DOMAIN LaneMaxRuns :
         Cardinality(RunningOn(lane)) <= laneRuns[lane] /\ laneRuns[lane] <= LaneMaxRuns[lane]
    /\ \A t \in Running : ScopesOf[t] \in activeScopes[ProjectOf[t]]

Inv ==
  /\ TypeOK
  /\ Queues
  /\ Counters
  /\ LimitsRespected
  /\ NoConflictingRuns
  /\ EveryTaskAnswered

(* The limits follow from the counters inside a call.                      *)
LEMMA CountersLimit == TypeOK /\ Counters /\ pc # "host" => LimitsRespected
<1> SUFFICES ASSUME TypeOK, Counters, pc # "host" PROVE LimitsRespected
  OBVIOUS
<1>1. Running \in SUBSET Tasks
  BY DEF TypeOK, Running
<1>2. /\ Cardinality(Running) + slots <= GlobalMaxRuns + Cardinality(selected)
      /\ Cardinality(selected) <= slots
  BY DEF Counters
<1>3. Cardinality(Running) <= GlobalMaxRuns
  <2>1. Cardinality(Running) \in Nat /\ Cardinality(selected) \in Nat
    BY <1>1, TaskSets DEF TypeOK, Running
  <2>2. slots \in Nat /\ GlobalMaxRuns \in Nat
    BY SchedulerAssumption DEF TypeOK
  <2> QED BY <1>2, <2>1, <2>2
<1>4. ASSUME NEW p \in Projects PROVE Cardinality(RunningIn(p)) <= PerProjectMaxRuns
  <2>1. Cardinality(RunningIn(p)) <= projectRuns[p] /\ projectRuns[p] <= PerProjectMaxRuns
    BY DEF Counters
  <2>2. Cardinality(RunningIn(p)) \in Nat
    BY <1>1, TaskSets DEF RunningIn
  <2>3. projectRuns[p] \in Nat /\ PerProjectMaxRuns \in Nat
    BY SchedulerAssumption DEF TypeOK
  <2> QED BY <2>1, <2>2, <2>3
<1>5. ASSUME NEW lane \in DOMAIN LaneMaxRuns
      PROVE  Cardinality(RunningOn(lane)) <= LaneMaxRuns[lane]
  <2>1. Cardinality(RunningOn(lane)) <= laneRuns[lane] /\ laneRuns[lane] <= LaneMaxRuns[lane]
    BY DEF Counters
  <2>2. Cardinality(RunningOn(lane)) \in Nat
    BY <1>1, TaskSets DEF RunningOn
  <2>3. laneRuns[lane] \in Nat /\ LaneMaxRuns[lane] \in Nat
    BY SchedulerAssumption DEF TypeOK
  <2> QED BY <2>1, <2>2, <2>3
<1> QED BY <1>3, <1>4, <1>5 DEF LimitsRespected, RunningIn, RunningOn

(* Before the first call nothing runs.                                     *)
LEMMA InitInv == Init => Inv
<1> SUFFICES ASSUME Init PROVE Inv
  OBVIOUS
<1>1. Running = {}
  BY DEF Init, Running
<1>2. TypeOK
  BY SchedulerAssumption DEF Init, TypeOK, NoQueues, Unblocked, Projects, Reasons
<1>3. LimitsRespected
  <2>1. \A p \in Projects : {t \in Running : ProjectOf[t] = p} = {}
    BY <1>1
  <2>2. \A lane \in DOMAIN LaneMaxRuns : {t \in Running : lane \in route[t]} = {}
    BY <1>1
  <2>3. Cardinality({}) = 0
    BY FS_EmptySet
  <2> QED BY <1>1, <2>1, <2>2, <2>3, SchedulerAssumption DEF LimitsRespected
<1> QED BY <1>1, <1>2, <1>3 DEF Init, Inv, Queues, Counters, NoConflictingRuns,
           EveryTaskAnswered, NoQueues

(* A step that only takes runs away, or changes neither runs nor routes of *)
(* running tasks nor the counters, keeps all bounds.                       *)
LEMMA FewerRuns ==
  ASSUME Inv, TypeOK', Running' \in SUBSET Running,
         \A t \in Running' : route'[t] = route[t]
  PROVE  LimitsRespected' /\ NoConflictingRuns'
<1>1. Running \in SUBSET Tasks
  BY DEF Inv, TypeOK, Running
<1>2. Cardinality(Running') \in Nat /\ Cardinality(Running) \in Nat
  BY <1>1, TaskSets
<1>3. Cardinality(Running') <= GlobalMaxRuns
  <2>1. Cardinality(Running') <= Cardinality(Running) BY <1>1, FewerTasks
  <2>2. Cardinality(Running) <= GlobalMaxRuns BY DEF Inv, LimitsRespected
  <2> QED BY <1>2, <2>1, <2>2, SchedulerAssumption
<1>4. ASSUME NEW p \in Projects
      PROVE  Cardinality(RunningIn(p)') <= PerProjectMaxRuns
  <2>1. RunningIn(p)' \in SUBSET RunningIn(p) /\ RunningIn(p) \in SUBSET Tasks
    BY <1>1 DEF RunningIn
  <2>2. Cardinality(RunningIn(p)') <= Cardinality(RunningIn(p)) BY <2>1, FewerTasks
  <2>3. Cardinality(RunningIn(p)) <= PerProjectMaxRuns BY DEF Inv, LimitsRespected, RunningIn
  <2>4. Cardinality(RunningIn(p)') \in Nat /\ Cardinality(RunningIn(p)) \in Nat
    BY <2>1, TaskSets
  <2> QED BY <2>2, <2>3, <2>4, SchedulerAssumption
<1>5. ASSUME NEW lane \in DOMAIN LaneMaxRuns
      PROVE  Cardinality(RunningOn(lane)') <= LaneMaxRuns[lane]
  <2>1. RunningOn(lane)' \in SUBSET RunningOn(lane) /\ RunningOn(lane) \in SUBSET Tasks
    BY <1>1 DEF RunningOn
  <2>2. Cardinality(RunningOn(lane)') <= Cardinality(RunningOn(lane)) BY <2>1, FewerTasks
  <2>3. Cardinality(RunningOn(lane)) <= LaneMaxRuns[lane]
    BY DEF Inv, LimitsRespected, RunningOn
  <2>4. Cardinality(RunningOn(lane)') \in Nat /\ Cardinality(RunningOn(lane)) \in Nat
    BY <2>1, TaskSets
  <2> QED BY <2>2, <2>3, <2>4, SchedulerAssumption
<1>6. NoConflictingRuns'
  BY DEF Inv, NoConflictingRuns
<1> QED BY <1>3, <1>4, <1>5, <1>6 DEF LimitsRespected, RunningIn, RunningOn

-----------------------------------------------------------------------------
(* The caller's steps.                                                     *)

(* Publishing a task changes nothing that runs.                            *)
LEMMA PublishInv ==
  ASSUME Inv, NEW t \in Tasks, Publish(t)
  PROVE  Inv'
<1>1. TypeOK'
  BY DEF Inv, TypeOK, Publish, call, counts
<1>2. Running' = Running /\ \A u \in Running : route'[u] = route[u]
  BY DEF Inv, TypeOK, Queues, Publish, call, counts, Running
<1>3. LimitsRespected' /\ NoConflictingRuns'
  BY <1>1, <1>2, FewerRuns
<1>4. Queues' /\ Counters' /\ EveryTaskAnswered'
  BY DEF Inv, Queues, Counters, EveryTaskAnswered, Publish, call, counts
<1> QED BY <1>1, <1>3, <1>4 DEF Inv

(* Neither does a change of trust.                                         *)
LEMMA ChangeTrustInv ==
  ASSUME Inv, NEW p \in Revocable, ChangeTrust(p)
  PROVE  Inv'
<1>1. TypeOK'
  BY SchedulerAssumption DEF Inv, TypeOK, ChangeTrust, call, counts
<1>2. Running' = Running /\ route' = route
  BY DEF ChangeTrust, call, counts, Running
<1>3. LimitsRespected' /\ NoConflictingRuns'
  BY <1>1, <1>2, FewerRuns
<1>4. Queues' /\ Counters' /\ EveryTaskAnswered'
  BY DEF Inv, Queues, Counters, EveryTaskAnswered, ChangeTrust, call, counts
<1> QED BY <1>1, <1>3, <1>4 DEF Inv

(* A run that ends leaves the counters of the call behind as upper bounds. *)
LEMMA FinishInv ==
  ASSUME Inv, NEW t \in Tasks, Finish(t)
  PROVE  Inv'
<1>1. TypeOK'
  BY DEF Inv, TypeOK, Finish, call, counts
<1>2. Running' \in SUBSET Running /\ route' = route /\ Running \in SUBSET Tasks
  BY DEF Inv, TypeOK, Finish, call, counts, Running
<1>3. LimitsRespected' /\ NoConflictingRuns'
  BY <1>1, <1>2, FewerRuns
<1>4. Queues' /\ EveryTaskAnswered'
  BY DEF Inv, Queues, EveryTaskAnswered, Finish, call, counts
<1>5. Counters'
  <2> SUFFICES ASSUME pc # "host" PROVE Counters'
    BY DEF Counters, Finish, call
  <2>1. /\ pc' = pc /\ slots' = slots /\ selected' = selected
        /\ projectRuns' = projectRuns /\ laneRuns' = laneRuns /\ activeScopes' = activeScopes
    BY DEF Finish, call, counts
  <2>2. Cardinality(Running') + slots' <= GlobalMaxRuns + Cardinality(selected')
    <3>1. Cardinality(Running') <= Cardinality(Running) BY <1>2, FewerTasks
    <3>2. Cardinality(Running) + slots <= GlobalMaxRuns + Cardinality(selected)
      BY DEF Inv, Counters
    <3>3. Cardinality(Running') \in Nat /\ Cardinality(Running) \in Nat
      BY <1>2, TaskSets
    <3>4. slots \in Nat /\ GlobalMaxRuns \in Nat /\ Cardinality(selected) \in Nat
      BY SchedulerAssumption, <1>2, TaskSets DEF Inv, TypeOK, Running
    <3> QED BY <2>1, <3>1, <3>2, <3>3, <3>4
  <2>3. ASSUME NEW p \in Projects
        PROVE  Cardinality(RunningIn(p)') <= projectRuns[p]
    <3>1. RunningIn(p)' \in SUBSET RunningIn(p) /\ RunningIn(p) \in SUBSET Tasks
      BY <1>2 DEF RunningIn
    <3>2. Cardinality(RunningIn(p)') <= Cardinality(RunningIn(p)) BY <3>1, FewerTasks
    <3>3. Cardinality(RunningIn(p)) <= projectRuns[p] BY DEF Inv, Counters
    <3>4. Cardinality(RunningIn(p)') \in Nat /\ Cardinality(RunningIn(p)) \in Nat
      BY <3>1, TaskSets
    <3>5. projectRuns[p] \in Nat BY DEF Inv, TypeOK
    <3> QED BY <3>2, <3>3, <3>4, <3>5
  <2>4. ASSUME NEW lane \in DOMAIN LaneMaxRuns
        PROVE  Cardinality(RunningOn(lane)') <= laneRuns[lane]
    <3>1. RunningOn(lane)' \in SUBSET RunningOn(lane) /\ RunningOn(lane) \in SUBSET Tasks
      BY <1>2 DEF RunningOn
    <3>2. Cardinality(RunningOn(lane)') <= Cardinality(RunningOn(lane)) BY <3>1, FewerTasks
    <3>3. Cardinality(RunningOn(lane)) <= laneRuns[lane] BY DEF Inv, Counters
    <3>4. Cardinality(RunningOn(lane)') \in Nat /\ Cardinality(RunningOn(lane)) \in Nat
      BY <3>1, TaskSets
    <3>5. laneRuns[lane] \in Nat BY SchedulerAssumption DEF Inv, TypeOK
    <3> QED BY <3>2, <3>3, <3>4, <3>5
  <2> QED BY <1>2, <2>1, <2>2, <2>3, <2>4 DEF Inv, Counters
<1> QED BY <1>1, <1>3, <1>4, <1>5 DEF Inv

-----------------------------------------------------------------------------
(* The steps of a call.                                                    *)

(* The snapshot counts exactly what runs.                                  *)
LEMMA SnapshotInv ==
  ASSUME Inv, Snapshot
  PROVE  Inv'
<1>1. selected = {} /\ pc = "host" /\ Running = active /\ active \in SUBSET Tasks
  BY DEF Inv, TypeOK, Queues, Snapshot, Running
<1>2. /\ Running' = active /\ selected' = {} /\ ready' = ready /\ route' = route
      /\ active' = active /\ pc' = "visit"
  BY <1>1 DEF Snapshot, caller, Running
<1>3. /\ \A p \in Projects : RunsOf(p) \in SUBSET Tasks /\ Cardinality(RunsOf(p)) \in Nat
      /\ \A lane \in Lanes : RunsOn(lane) \in SUBSET Tasks /\ Cardinality(RunsOn(lane)) \in Nat
  <2>1. ASSUME NEW p \in Projects PROVE RunsOf(p) \in SUBSET Tasks
    BY <1>1 DEF RunsOf
  <2>2. ASSUME NEW lane \in Lanes PROVE RunsOn(lane) \in SUBSET Tasks
    BY <1>1 DEF RunsOn
  <2> QED BY <2>1, <2>2, TaskSets
<1>4. Cardinality(active) \in Nat /\ Cardinality(active) <= GlobalMaxRuns
  BY <1>1, TaskSets DEF Inv, LimitsRespected
<1>5. slots' \in Nat /\ Cardinality(active) + slots' <= GlobalMaxRuns
  BY <1>4, SchedulerAssumption DEF Snapshot
<1>6. TypeOK'
  <2>1. \A t \in Tasks : blocked'[t] \in Reasons \cup {"none"}
    BY DEF Snapshot, Verdict, Reasons
  <2>2. blocked' \in [Tasks -> Reasons \cup {"none"}]
    BY <2>1 DEF Snapshot
  <2>3. queue' \in [Projects -> SUBSET ready]
    BY DEF Snapshot
  <2>4. projectRuns' \in [Projects -> Nat] /\ laneRuns' \in [Lanes -> Nat]
    BY <1>3 DEF Snapshot
  <2>5. activeScopes' \in [Projects -> SUBSET {ScopesOf[t] : t \in Tasks}]
    BY <1>3 DEF Snapshot
  <2> QED BY <1>2, <1>5, <2>2, <2>3, <2>4, <2>5 DEF Inv, TypeOK, Snapshot, caller
<1>7. LimitsRespected' /\ NoConflictingRuns'
  BY <1>1, <1>2, <1>6, FewerRuns
<1>8. Queues'
  BY <1>1, <1>2, SchedulerAssumption DEF Inv, TypeOK, Queues, Snapshot
<1>9. Counters'
  <2>1. ASSUME NEW p \in Projects
        PROVE  Cardinality(RunningIn(p)') <= projectRuns'[p] /\ projectRuns'[p] <= PerProjectMaxRuns
    <3>1. RunningIn(p)' = RunsOf(p) /\ RunningIn(p) = RunsOf(p)
      BY <1>1, <1>2 DEF RunningIn, RunsOf
    <3>2. projectRuns'[p] = Cardinality(RunsOf(p))
      BY DEF Snapshot
    <3>3. Cardinality(RunningIn(p)) <= PerProjectMaxRuns
      BY DEF Inv, LimitsRespected, RunningIn
    <3> QED BY <1>3, <3>1, <3>2, <3>3
  <2>2. ASSUME NEW lane \in DOMAIN LaneMaxRuns
        PROVE  Cardinality(RunningOn(lane)') <= laneRuns'[lane] /\ laneRuns'[lane] <= LaneMaxRuns[lane]
    <3>0. lane \in Lanes BY SchedulerAssumption
    <3>1. RunningOn(lane)' = RunsOn(lane) /\ RunningOn(lane) = RunsOn(lane)
      BY <1>1, <1>2 DEF RunningOn, RunsOn
    <3>2. laneRuns'[lane] = Cardinality(RunsOn(lane))
      BY <3>0 DEF Snapshot
    <3>3. Cardinality(RunningOn(lane)) <= LaneMaxRuns[lane]
      BY DEF Inv, LimitsRespected, RunningOn
    <3> QED BY <1>3, <3>0, <3>1, <3>2, <3>3
  <2>3. ASSUME NEW t \in Running'
        PROVE  ScopesOf[t] \in activeScopes'[ProjectOf[t]]
    BY <1>1, <1>2, SchedulerAssumption DEF Snapshot, RunsOf
  <2>4. Cardinality(selected') = 0
    BY <1>2, FS_EmptySet
  <2> QED BY <1>2, <1>4, <1>5, <2>1, <2>2, <2>3, <2>4, SchedulerAssumption DEF Counters
<1>10. EveryTaskAnswered'
  BY <1>2 DEF EveryTaskAnswered
<1> QED BY <1>6, <1>7, <1>8, <1>9, <1>10 DEF Inv

(* A step of a call that selects nothing keeps all that is said of runs.   *)
LEMMA NothingSelected ==
  ASSUME Inv, TypeOK', pc # "host", caller' = caller, selected' = selected,
         slots' = slots, counts' = counts
  PROVE  LimitsRespected' /\ NoConflictingRuns' /\ Counters'
<1>1. Running' = Running /\ route' = route
  BY DEF caller, Running
<1>2. LimitsRespected' /\ NoConflictingRuns'
  BY <1>1, FewerRuns
<1>3. Counters'
  BY <1>1 DEF Inv, Counters, RunningIn, RunningOn, counts
<1> QED BY <1>2, <1>3

(* The cursor stays within the projects.                                   *)
LEMMA CursorMoves == cursor \in Projects => NextProject \in Projects
  BY SchedulerAssumption DEF NextProject, Projects

(* What a visit looks at.                                                  *)
LEMMA VisitFacts ==
  ASSUME Inv, NEW p \in Projects, Considers(p)
  PROVE  /\ pc = "visit" /\ cursor = p
         /\ Task \in queue[p] /\ Task \in ready /\ Task \in Tasks
         /\ ProjectOf[Task] = p /\ Task \notin Running /\ blocked[Task] = "none"
         /\ Credit \in Nat /\ Cost(Task) \in Nat
<1>1. pc = "visit" /\ cursor = p /\ queue[p] # {}
  BY DEF Considers, Visit
<1>2. queue[p] \in SUBSET Tasks /\ queue[p] \in SUBSET ready
  BY DEF Inv, TypeOK
<1>3. Task \in queue[p]
  BY <1>1, <1>2, FirstIsThere DEF Task
<1>4. Task \in ready /\ Task \in Tasks
  BY <1>2, <1>3
<1>5. ProjectOf[Task] = p /\ Task \notin selected
  BY <1>3 DEF Inv, Queues
<1>6. Task \notin Running
  BY <1>4, <1>5 DEF Inv, TypeOK, Running
<1>7. blocked[Task] = "none"
  BY <1>1, <1>3, <1>4, <1>5 DEF Inv, Queues
<1>8. Cost(Task) \in Nat
  BY <1>4, CostPositive
<1>9. Credit \in Nat
  BY <1>1, <1>8, QuantumPositive DEF Credit, Inv, TypeOK
<1> QED BY <1>1, <1>3, <1>4, <1>5, <1>6, <1>7, <1>8, <1>9

(* Passing a project with an empty queue.                                  *)
LEMMA SkipEmptyInv ==
  ASSUME Inv, NEW p \in Projects, SkipEmpty(p)
  PROVE  Inv'
<1>1. TypeOK'
  BY CursorMoves DEF Inv, TypeOK, SkipEmpty, Visit, Miss, caller, counts
<1>2. LimitsRespected' /\ NoConflictingRuns' /\ Counters'
  BY <1>1, NothingSelected DEF SkipEmpty, Visit
<1>3. Queues' /\ EveryTaskAnswered'
  BY DEF Inv, Queues, EveryTaskAnswered, SkipEmpty, Visit, caller
<1> QED BY <1>1, <1>2, <1>3 DEF Inv

(* Passing a project that is full: its queue is blocked at once.           *)
LEMMA SkipFullInv ==
  ASSUME Inv, NEW p \in Projects, SkipFull(p)
  PROVE  Inv'
<1>1. TypeOK'
  BY CursorMoves DEF Inv, TypeOK, SkipFull, Visit, Miss, caller, counts, Reasons
<1>2. LimitsRespected' /\ NoConflictingRuns' /\ Counters'
  BY <1>1, NothingSelected DEF SkipFull, Visit
<1>3. Queues'
  <2>1. /\ pc = "visit" /\ pc' = "visit" /\ ready' = ready /\ selected' = selected
        /\ queue' = [queue EXCEPT ![p] = {}]
        /\ blocked' = [t \in Tasks |-> IF t \in queue[p] THEN "concurrency" ELSE blocked[t]]
    BY DEF SkipFull, Visit, caller
  <2>2. \A q \in Projects : queue'[q] = IF q = p THEN {} ELSE queue[q]
    BY <2>1 DEF Inv, TypeOK
  <2>3. ASSUME NEW t \in ready
        PROVE  (blocked'[t] = "none") <=> (t \in selected \/ t \in queue'[ProjectOf[t]])
    <3>1. t \in Tasks /\ ProjectOf[t] \in Projects
      BY SchedulerAssumption DEF Inv, TypeOK
    <3>2. (blocked[t] = "none") <=> (t \in selected \/ t \in queue[ProjectOf[t]])
      BY <2>1 DEF Inv, Queues
    <3>3. t \in queue[p] => ProjectOf[t] = p /\ t \notin selected
      BY DEF Inv, Queues
    <3>4. blocked'[t] = IF t \in queue[p] THEN "concurrency" ELSE blocked[t]
      BY <2>1, <3>1
    <3> QED BY <2>2, <3>1, <3>2, <3>3, <3>4
  <2>4. \A q \in Projects : \A t \in queue'[q] : ProjectOf[t] = q /\ t \notin selected
    BY <2>2 DEF Inv, Queues
  <2> QED BY <2>1, <2>3, <2>4 DEF Queues
<1>4. EveryTaskAnswered'
  BY DEF EveryTaskAnswered, SkipFull, Visit
<1> QED BY <1>1, <1>2, <1>3, <1>4 DEF Inv

(* Saving for an expensive task.                                           *)
LEMMA SaveUpInv ==
  ASSUME Inv, NEW p \in Projects, SaveUp(p)
  PROVE  Inv'
<1>1. pc = "visit" /\ pc' = "visit" /\ Credit \in Nat
  BY VisitFacts DEF SaveUp
<1>2. TypeOK'
  BY <1>1, CursorMoves DEF Inv, TypeOK, SaveUp, Miss, caller, counts
<1>3. LimitsRespected' /\ NoConflictingRuns' /\ Counters'
  BY <1>1, <1>2, NothingSelected DEF SaveUp
<1>4. Queues' /\ EveryTaskAnswered'
  BY <1>1 DEF Inv, Queues, EveryTaskAnswered, SaveUp, caller
<1> QED BY <1>2, <1>3, <1>4 DEF Inv

(* Rejecting the first task: it leaves the queue with a reason.            *)
LEMMA RejectInv ==
  ASSUME Inv, NEW p \in Projects, Reject(p)
  PROVE  Inv'
<1> DEFINE u == Task
<1>1. /\ pc = "visit" /\ pc' = "visit" /\ Credit \in Nat
      /\ u \in Tasks /\ u \in queue[p] /\ ProjectOf[u] = p /\ u \notin selected
  BY VisitFacts DEF Reject, Affords, Running
<1>2. /\ queue' = [queue EXCEPT ![p] = @ \ {u}]
      /\ ready' = ready /\ selected' = selected
      /\ \E why \in Reasons : blocked' = [blocked EXCEPT ![u] = why]
  BY DEF Reject, Reasons, caller
<1> HIDE DEF u
<1>3. \A q \in Projects : queue'[q] = IF q = p THEN queue[q] \ {u} ELSE queue[q]
  BY <1>2 DEF Inv, TypeOK
<1>4. TypeOK'
  <2>1. queue' \in [Projects -> SUBSET ready]
    BY <1>2, <1>3 DEF Inv, TypeOK
  <2>2. blocked' \in [Tasks -> Reasons \cup {"none"}]
    BY <1>2 DEF Inv, TypeOK
  <2>3. deficits' \in [Projects -> Nat] /\ cursor' \in Projects /\ visits' \in Nat
    BY <1>1, CursorMoves DEF Inv, TypeOK, Reject, Miss
  <2> QED BY <1>2, <2>1, <2>2, <2>3 DEF Inv, TypeOK, Reject, caller, counts
<1>5. LimitsRespected' /\ NoConflictingRuns' /\ Counters'
  BY <1>1, <1>4, NothingSelected DEF Reject
<1>6. Queues'
  <2>1. ASSUME NEW t \in ready
        PROVE  (blocked'[t] = "none") <=> (t \in selected \/ t \in queue'[ProjectOf[t]])
    <3>1. t \in Tasks /\ ProjectOf[t] \in Projects
      BY SchedulerAssumption DEF Inv, TypeOK
    <3>2. (blocked[t] = "none") <=> (t \in selected \/ t \in queue[ProjectOf[t]])
      BY <1>1 DEF Inv, Queues
    <3>3. CASE t = u
      <4>1. blocked'[t] # "none" BY <1>1, <1>2, <3>3 DEF Inv, TypeOK, Reasons
      <4> QED BY <1>1, <1>3, <3>1, <3>3, <4>1
    <3>4. CASE t # u
      <4>1. blocked'[t] = blocked[t] BY <1>2, <3>1, <3>4 DEF Inv, TypeOK
      <4> QED BY <1>3, <3>1, <3>2, <3>4, <4>1
    <3> QED BY <3>3, <3>4
  <2>2. \A q \in Projects : \A t \in queue'[q] : ProjectOf[t] = q /\ t \notin selected
    BY <1>3 DEF Inv, Queues
  <2> QED BY <1>1, <1>2, <2>1, <2>2 DEF Queues
<1>7. EveryTaskAnswered'
  BY <1>1 DEF EveryTaskAnswered
<1> QED BY <1>4, <1>5, <1>6, <1>7 DEF Inv

(* Selecting the first task: one run more, counted everywhere.             *)
LEMMA SelectInv ==
  ASSUME Inv, NEW p \in Projects, Select(p)
  PROVE  Inv'
<1> DEFINE u == Task
<1>1. /\ pc = "visit" /\ cursor = p
      /\ u \in Tasks /\ u \in queue[p] /\ u \in ready /\ ProjectOf[u] = p
      /\ u \notin Running /\ blocked[u] = "none"
      /\ Credit \in Nat /\ Cost(u) \in Nat
  BY VisitFacts DEF Select, Affords
<1>2. /\ ready' = ready /\ active' = active /\ route' = route /\ slots' = slots
      /\ blocked' = blocked /\ pc' = pc /\ trusted' = trusted
      /\ selected' = selected \cup {u}
      /\ queue' = [queue EXCEPT ![p] = @ \ {u}]
      /\ projectRuns' = [projectRuns EXCEPT ![p] = @ + 1]
      /\ laneRuns' = [lane \in Lanes |-> IF lane \in route[u] THEN laneRuns[lane] + 1
                                                              ELSE laneRuns[lane]]
      /\ activeScopes' = [activeScopes EXCEPT ![p] = @ \cup {ScopesOf[u]}]
      /\ visits' = 0
  BY DEF Select, caller
<1>3. /\ Cardinality(selected) < slots
      /\ projectRuns[p] < PerProjectMaxRuns
      /\ ~Clashes(u, activeScopes[p])
      /\ ~LaneFull(route[u], laneRuns)
      /\ Credit >= Cost(u)
      /\ deficits' = [deficits EXCEPT ![p] = Credit - Cost(u)]
      /\ cursor' \in {cursor, NextProject}
  BY <1>1 DEF Select, Affords, Considers, Visit, GoesOn
<1> HIDE DEF u
<1>4. Running' = Running \cup {u} /\ Running \in SUBSET Tasks
  BY <1>2 DEF Running, Inv, TypeOK
<1>5. \A q \in Projects : queue'[q] = IF q = p THEN queue[q] \ {u} ELSE queue[q]
  BY <1>2 DEF Inv, TypeOK
<1>6. TypeOK'
  <2>1. queue' \in [Projects -> SUBSET ready]
    BY <1>2, <1>5 DEF Inv, TypeOK
  <2>2. deficits' \in [Projects -> Nat] /\ cursor' \in Projects /\ visits' \in Nat
    BY <1>1, <1>2, <1>3, CursorMoves DEF Inv, TypeOK
  <2>3. projectRuns' \in [Projects -> Nat] /\ laneRuns' \in [Lanes -> Nat]
    BY <1>2 DEF Inv, TypeOK
  <2>4. activeScopes' \in [Projects -> SUBSET {ScopesOf[t] : t \in Tasks}]
    BY <1>1, <1>2 DEF Inv, TypeOK
  <2>5. selected' \subseteq ready
    BY <1>1, <1>2 DEF Inv, TypeOK
  <2> QED BY <1>2, <2>1, <2>2, <2>3, <2>4, <2>5 DEF Inv, TypeOK
<1>7. Queues'
  <2>1. ASSUME NEW t \in ready
        PROVE  (blocked'[t] = "none") <=> (t \in selected' \/ t \in queue'[ProjectOf[t]])
    <3>1. t \in Tasks /\ ProjectOf[t] \in Projects
      BY SchedulerAssumption DEF Inv, TypeOK
    <3>2. (blocked[t] = "none") <=> (t \in selected \/ t \in queue[ProjectOf[t]])
      BY <1>1 DEF Inv, Queues
    <3> QED BY <1>1, <1>2, <1>5, <3>1, <3>2
  <2>2. ASSUME NEW q \in Projects, NEW t \in queue'[q]
        PROVE  ProjectOf[t] = q /\ t \notin selected'
    BY <1>1, <1>2, <1>5 DEF Inv, Queues
  <2> QED BY <1>1, <1>2, <2>1, <2>2 DEF Queues
<1>8. Counters'
  <2>1. /\ Cardinality(Running') + slots <= GlobalMaxRuns + Cardinality(selected')
        /\ Cardinality(selected') <= slots
    <3>1. Cardinality(Running') = Cardinality(Running) + 1
      BY <1>1, <1>4, OneMore
    <3>2. Cardinality(selected') = Cardinality(selected) + 1
      <4>1. selected \in SUBSET Tasks /\ u \notin selected
        BY <1>1, <1>4 DEF Running
      <4> QED BY <1>1, <1>2, <4>1, OneMore
    <3>3. Cardinality(Running) + slots <= GlobalMaxRuns + Cardinality(selected)
      BY <1>1 DEF Inv, Counters
    <3>4. /\ Cardinality(Running) \in Nat /\ Cardinality(selected) \in Nat
          /\ slots \in Nat /\ GlobalMaxRuns \in Nat
      BY <1>4, TaskSets, SchedulerAssumption DEF Running, Inv, TypeOK
    <3> QED BY <1>3, <3>1, <3>2, <3>3, <3>4
  <2>2. ASSUME NEW q \in Projects
        PROVE  /\ Cardinality(RunningIn(q)') <= projectRuns'[q]
               /\ projectRuns'[q] <= PerProjectMaxRuns
    <3>1. /\ Cardinality(RunningIn(q)) <= projectRuns[q] /\ projectRuns[q] <= PerProjectMaxRuns
          /\ projectRuns[q] \in Nat /\ PerProjectMaxRuns \in Nat
      BY <1>1, SchedulerAssumption DEF Inv, Counters, TypeOK
    <3>2. RunningIn(q) \in SUBSET Tasks /\ RunningIn(q)' \in SUBSET Tasks
      BY <1>1, <1>4 DEF RunningIn
    <3>3. Cardinality(RunningIn(q)) \in Nat /\ Cardinality(RunningIn(q)') \in Nat
      BY <3>2, TaskSets
    <3>4. CASE q = p
      <4>1. projectRuns'[q] = projectRuns[q] + 1
        BY <1>2, <3>4 DEF Inv, TypeOK
      <4>2. RunningIn(q)' \in SUBSET (RunningIn(q) \cup {u})
        BY <1>4 DEF RunningIn
      <4>3. Cardinality(RunningIn(q)') <= Cardinality(RunningIn(q)) + 1
        BY <1>1, <3>2, <4>2, AtMostOneMore
      <4> QED BY <1>3, <3>1, <3>3, <3>4, <4>1, <4>3
    <3>5. CASE q # p
      <4>1. projectRuns'[q] = projectRuns[q]
        BY <1>2, <3>5 DEF Inv, TypeOK
      <4>2. RunningIn(q)' = RunningIn(q)
        BY <1>1, <1>4, <3>5 DEF RunningIn
      <4> QED BY <3>1, <4>1, <4>2
    <3> QED BY <3>4, <3>5
  <2>3. ASSUME NEW lane \in DOMAIN LaneMaxRuns
        PROVE  /\ Cardinality(RunningOn(lane)') <= laneRuns'[lane]
               /\ laneRuns'[lane] <= LaneMaxRuns[lane]
    <3>1. /\ Cardinality(RunningOn(lane)) <= laneRuns[lane] /\ laneRuns[lane] <= LaneMaxRuns[lane]
          /\ lane \in Lanes /\ laneRuns[lane] \in Nat /\ LaneMaxRuns[lane] \in Nat
      BY <1>1, SchedulerAssumption DEF Inv, Counters, TypeOK
    <3>2. RunningOn(lane) \in SUBSET Tasks /\ RunningOn(lane)' \in SUBSET Tasks
      BY <1>1, <1>4 DEF RunningOn
    <3>3. Cardinality(RunningOn(lane)) \in Nat /\ Cardinality(RunningOn(lane)') \in Nat
      BY <3>2, TaskSets
    <3>4. CASE lane \in route[u]
      <4>1. laneRuns'[lane] = laneRuns[lane] + 1
        BY <1>2, <3>1, <3>4
      <4>2. RunningOn(lane)' \in SUBSET (RunningOn(lane) \cup {u})
        BY <1>2, <1>4 DEF RunningOn
      <4>3. Cardinality(RunningOn(lane)') <= Cardinality(RunningOn(lane)) + 1
        BY <1>1, <3>2, <4>2, AtMostOneMore
      <4>4. laneRuns[lane] < LaneMaxRuns[lane]
        BY <1>3, <3>1, <3>4 DEF LaneFull
      <4> QED BY <3>1, <3>3, <4>1, <4>3, <4>4
    <3>5. CASE lane \notin route[u]
      <4>1. laneRuns'[lane] = laneRuns[lane]
        BY <1>2, <3>1, <3>5
      <4>2. RunningOn(lane)' = RunningOn(lane)
        BY <1>2, <1>4, <3>5 DEF RunningOn
      <4> QED BY <3>1, <4>1, <4>2
    <3> QED BY <3>4, <3>5
  <2>4. ASSUME NEW t \in Running'
        PROVE  ScopesOf[t] \in activeScopes'[ProjectOf[t]]
    <3>1. ProjectOf[t] \in Projects
      BY <1>1, <1>4, SchedulerAssumption
    <3>2. CASE t = u
      BY <1>1, <1>2, <3>2 DEF Inv, TypeOK
    <3>3. CASE t # u
      <4>1. ScopesOf[t] \in activeScopes[ProjectOf[t]]
        BY <1>1, <1>4, <3>3 DEF Inv, Counters
      <4> QED BY <1>2, <3>1, <4>1 DEF Inv, TypeOK
    <3> QED BY <3>2, <3>3
  <2> QED BY <1>2, <2>1, <2>2, <2>3, <2>4 DEF Counters
<1>9. LimitsRespected'
  <2>1. (TypeOK /\ Counters /\ pc # "host")' BY <1>1, <1>2, <1>6, <1>8
  <2> QED BY <2>1, CountersLimit, PTL
<1>10. NoConflictingRuns'
  <2>1. ASSUME NEW t \in Running, ProjectOf[t] = p
        PROVE  ~Conflict(ScopesOf[u], ScopesOf[t], UnknownConflicts)
    <3>1. ScopesOf[t] \in activeScopes[p]
      BY <1>1, <2>1 DEF Inv, Counters
    <3> QED BY <1>3, <3>1 DEF Clashes
  <2> QED BY <1>1, <1>4, <2>1 DEF Inv, NoConflictingRuns
<1>11. EveryTaskAnswered'
  BY <1>1, <1>2 DEF EveryTaskAnswered
<1> QED BY <1>6, <1>7, <1>8, <1>9, <1>10, <1>11 DEF Inv

(* Returning: what is still queued gets its reason.                        *)
LEMMA ReturnInv ==
  ASSUME Inv, Return
  PROVE  Inv'
<1>1. /\ pc = "visit" /\ pc' = "decided" /\ ready' = ready /\ selected' = selected
      /\ queue' = queue
      /\ blocked' = [t \in Tasks |-> IF \E p \in Projects : t \in queue[p] THEN "concurrency"
                                                                          ELSE blocked[t]]
  BY DEF Return, caller
<1>2. TypeOK'
  BY <1>1 DEF Inv, TypeOK, Return, caller, counts, Reasons
<1>3. LimitsRespected' /\ NoConflictingRuns' /\ Counters'
  BY <1>1, <1>2, NothingSelected DEF Return
<1>4. Queues'
  BY <1>1 DEF Inv, Queues
<1>5. EveryTaskAnswered'
  <2>1. ASSUME NEW t \in ready
        PROVE  (t \in selected) <=> (blocked'[t] = "none")
    <3>1. t \in Tasks /\ ProjectOf[t] \in Projects
      BY SchedulerAssumption DEF Inv, TypeOK
    <3>2. (blocked[t] = "none") <=> (t \in selected \/ t \in queue[ProjectOf[t]])
      BY <1>1 DEF Inv, Queues
    <3>3. \A p \in Projects : t \in queue[p] => ProjectOf[t] = p /\ t \notin selected
      BY DEF Inv, Queues
    <3>4. blocked'[t] = IF \E p \in Projects : t \in queue[p] THEN "concurrency" ELSE blocked[t]
      BY <1>1, <3>1
    <3> QED BY <3>1, <3>2, <3>3, <3>4
  <2> QED BY <1>1, <2>1 DEF EveryTaskAnswered
<1> QED BY <1>2, <1>3, <1>4, <1>5 DEF Inv

(* Starting: what was selected runs, and the call is over.                 *)
LEMMA StartInv ==
  ASSUME Inv, Start
  PROVE  Inv'
<1>1. /\ pc' = "host" /\ selected' = {} /\ queue' = NoQueues /\ route' = route
      /\ active' = active \cup selected /\ ready' = ready \ selected
  BY DEF Start
<1>2. TypeOK'
  BY <1>1, SchedulerAssumption
     DEF Inv, TypeOK, Start, NoQueues, Unblocked, Projects, Reasons
<1>3. Running' = Running
  BY <1>1 DEF Running
<1>4. LimitsRespected' /\ NoConflictingRuns'
  BY <1>1, <1>2, <1>3, FewerRuns
<1>5. Queues' /\ Counters' /\ EveryTaskAnswered'
  BY <1>1 DEF Queues, Counters, EveryTaskAnswered, NoQueues
<1> QED BY <1>2, <1>4, <1>5 DEF Inv

-----------------------------------------------------------------------------
(* Every step keeps the invariant.                                         *)
LEMMA NextInv == Inv /\ [Next]_vars => Inv'
<1> SUFFICES ASSUME Inv, [Next]_vars PROVE Inv'
  OBVIOUS
<1>1. ASSUME NEW t \in Tasks, Publish(t) PROVE Inv'
  BY <1>1, PublishInv
<1>2. ASSUME NEW t \in Tasks, Finish(t) PROVE Inv'
  BY <1>2, FinishInv
<1>3. ASSUME NEW p \in Revocable, ChangeTrust(p) PROVE Inv'
  BY <1>3, ChangeTrustInv
<1>4. CASE Snapshot
  BY <1>4, SnapshotInv
<1>5. ASSUME NEW p \in Projects, SkipEmpty(p) PROVE Inv'
  BY <1>5, SkipEmptyInv
<1>6. ASSUME NEW p \in Projects, SkipFull(p) PROVE Inv'
  BY <1>6, SkipFullInv
<1>7. ASSUME NEW p \in Projects, SaveUp(p) PROVE Inv'
  BY <1>7, SaveUpInv
<1>8. ASSUME NEW p \in Projects, Reject(p) PROVE Inv'
  BY <1>8, RejectInv
<1>9. ASSUME NEW p \in Projects, Select(p) PROVE Inv'
  BY <1>9, SelectInv
<1>10. CASE Return
  BY <1>10, ReturnInv
<1>11. CASE Start
  BY <1>11, StartInv
<1>12. CASE UNCHANGED vars
  <2>1. TypeOK'
    BY <1>12 DEF vars, caller, call, counts, Inv, TypeOK
  <2>2. Running' = Running /\ route' = route
    BY <1>12 DEF vars, caller, call, Running
  <2>3. LimitsRespected' /\ NoConflictingRuns'
    BY <2>1, <2>2, FewerRuns
  <2>4. Queues' /\ EveryTaskAnswered'
    BY <1>12 DEF vars, caller, call, Inv, Queues, EveryTaskAnswered
  <2>5. Counters'
    BY <1>12, <2>2 DEF vars, call, counts, Inv, Counters, RunningIn, RunningOn
  <2> QED BY <2>1, <2>3, <2>4, <2>5 DEF Inv
<1> QED BY <1>1, <1>2, <1>3, <1>4, <1>5, <1>6, <1>7, <1>8, <1>9, <1>10, <1>11, <1>12
        DEF Next, Call

(* The invariant holds throughout.                                         *)
THEOREM InvHolds == Spec => []Inv
  BY InitInv, NextInv, PTL DEF Spec

(* Type correctness: in particular no project is ever in debt.             *)
THEOREM SchedulerTypes == Spec => []TypeOK
<1>1. Inv => TypeOK
  BY DEF Inv
<1> QED BY InvHolds, <1>1, PTL

(* Calls that work on snapshots while runs end never start more than the   *)
(* limits of all projects, of each project, adapter and account allow.     *)
THEOREM Limits == Spec => []LimitsRespected
<1>1. Inv => LimitsRespected
  BY DEF Inv
<1> QED BY InvHolds, <1>1, PTL

(* No two conflicting tasks of a project ever run together.                *)
THEOREM NoConflicts == Spec => []NoConflictingRuns
<1>1. Inv => NoConflictingRuns
  BY DEF Inv
<1> QED BY InvHolds, <1>1, PTL

(* Every ready task is either selected or told why not.                    *)
THEOREM Answered == Spec => []EveryTaskAnswered
<1>1. Inv => EveryTaskAnswered
  BY DEF Inv
<1> QED BY InvHolds, <1>1, PTL

-----------------------------------------------------------------------------
(* A call leaves no room unused.  The loop gives up after 64 visits for    *)
(* each project that select nothing.  Such a visit of a project with       *)
(* tasks either saves for its first task, which no more than 29 visits     *)
(* do, or takes a task out of its queue; so with few enough tasks the loop *)
(* does not give up.                                                       *)

(* A project has no more ready tasks than the visits allow for.            *)
FewReady == \A p \in Projects : Cardinality({t \in ready : ProjectOf[t] = p}) <= 35

(* How many more visits can save for the costliest of tasks.               *)
Saves(p) == IF deficits[p] >= 59 THEN 0 ELSE (59 - deficits[p]) \div 2

(* The visits that the tasks and the savings of a project account for, of  *)
(* its 64.                                                                 *)
Spent(p) == 64 - Cardinality(queue[p]) - Saves(p)

(* The visits of other projects since the cursor was at this one.          *)
Since(p) == IF p < cursor THEN cursor - 1 - p ELSE cursor - 1 - p + NumProjects

(* The loop is not impatient, and what it holds back has its reason.       *)
Patience ==
  /\ pc = "host" => visits = 0
  /\ pc = "visit" => \A p \in Projects :
       queue[p] # {} => visits <= NumProjects * Spent(p) + Since(p)

Reasoned ==
  pc = "visit" => \A t \in ready :
    blocked[t] = "concurrency" =>
      projectRuns[ProjectOf[t]] >= PerProjectMaxRuns \/ LaneFull(route[t], laneRuns)

FullInv == Patience /\ Reasoned /\ WorkConserving

(* No task costs more than 60, and no weight brings less than 2.           *)
LEMMA CostAtMost == \A t \in Tasks : Cost(t) <= 60
  BY SchedulerAssumption DEF Cost, effortCost

LEMMA QuantumAtLeast == \A p \in Projects : Quantum(p) >= 2
  BY SchedulerAssumption DEF Quantum

(* Counting the queue of a project.                                        *)
LEMMA QueueCount ==
  ASSUME Inv, NEW p \in Projects
  PROVE  /\ Cardinality(queue[p]) \in Nat
         /\ queue[p] # {} => Cardinality(queue[p]) >= 1
         /\ FewReady => Cardinality(queue[p]) <= 35
         /\ Cardinality({}) = 0
<1>1. queue[p] \in SUBSET Tasks /\ queue[p] \in SUBSET {t \in ready : ProjectOf[t] = p}
  BY DEF Inv, TypeOK, Queues
<1>2. {t \in ready : ProjectOf[t] = p} \in SUBSET Tasks
  BY DEF Inv, TypeOK
<1>3. IsFiniteSet(queue[p]) /\ Cardinality(queue[p]) \in Nat
  BY <1>1, TaskSets
<1>4. Cardinality(queue[p]) <= Cardinality({t \in ready : ProjectOf[t] = p})
  BY <1>1, <1>2, FewerTasks
<1>5. Cardinality({t \in ready : ProjectOf[t] = p}) \in Nat
  BY <1>2, TaskSets
<1>6. queue[p] # {} => Cardinality(queue[p]) # 0
  BY <1>3, FS_EmptySet
<1>7. Cardinality({}) = 0
  BY FS_EmptySet
<1> QED BY <1>3, <1>4, <1>5, <1>6, <1>7 DEF FewReady

(* What a project has spent is never negative, and never all of its visits *)
(* while tasks are left.                                                   *)
LEMMA SpentBounds ==
  ASSUME Inv, NEW p \in Projects
  PROVE  /\ Spent(p) \in Int
         /\ FewReady => Spent(p) >= 0
         /\ queue[p] # {} => Spent(p) <= 63
<1>1. deficits[p] \in Nat
  BY DEF Inv, TypeOK
<1>2. Saves(p) \in Nat /\ Saves(p) <= 29
  BY <1>1 DEF Saves
<1>3. /\ Cardinality(queue[p]) \in Nat
      /\ queue[p] # {} => Cardinality(queue[p]) >= 1
      /\ FewReady => Cardinality(queue[p]) <= 35
  BY QueueCount
<1> HIDE DEF Saves
<1> QED BY <1>2, <1>3 DEF Spent

(* The cursor goes round: it comes back after as many visits as there are  *)
(* projects.                                                               *)
LEMMA Round ==
  ASSUME cursor \in Projects, NEW p \in Projects
  PROVE  /\ NumProjects \in Nat /\ NumProjects >= 1
         /\ Since(p) \in Nat /\ Since(p) < NumProjects
         /\ p = cursor => Since(p) = NumProjects - 1
         /\ (cursor' = NextProject /\ p = cursor) => Since(p)' = 0
         /\ (cursor' = NextProject /\ p # cursor) => Since(p)' = Since(p) + 1
<1>1. NumProjects \in Nat /\ NumProjects >= 1
  BY SchedulerAssumption
<1>2. p \in 1..NumProjects /\ cursor \in 1..NumProjects
  BY DEF Projects
<1>3. NextProject = IF cursor = NumProjects THEN 1 ELSE cursor + 1
  BY <1>1, <1>2 DEF NextProject
<1> QED BY <1>1, <1>2, <1>3 DEF Since

(* One more visit that a project with tasks has spent is a round of all.   *)
LEMMA OneMoreRound ==
  ASSUME NEW a \in Int, NEW b \in Int, b >= a + 1
  PROVE  NumProjects * b >= NumProjects * a + NumProjects
<1>1. NumProjects \in Nat
  BY SchedulerAssumption
<1>2. b - a - 1 \in Nat
  OBVIOUS
<1>3. NumProjects * (b - a - 1) \in Nat
  BY <1>1, <1>2
<1>4. NumProjects * (b - a - 1) = NumProjects * b - NumProjects * a - NumProjects
  BY <1>1
<1>5. NumProjects * b \in Int /\ NumProjects * a \in Int
  BY <1>1
<1> QED BY <1>1, <1>3, <1>4, <1>5

(* After a selection, and at the start of a call, the count is at zero.    *)
LEMMA PatientAtZero == Inv /\ FewReady /\ visits = 0 => Patience
<1> SUFFICES ASSUME Inv, FewReady, visits = 0, NEW p \in Projects
             PROVE  visits <= NumProjects * Spent(p) + Since(p)
  BY DEF Patience
<1>1. NumProjects \in Nat /\ Since(p) \in Nat
  BY Round DEF Inv, TypeOK
<1>2. Spent(p) \in Nat
  BY SpentBounds
<1>3. NumProjects * Spent(p) \in Nat
  BY <1>1, <1>2
<1> QED BY <1>1, <1>3

(* A visit that selects nothing is one of those that the project it is at  *)
(* accounts for; for the others it is one of the round.                    *)
LEMMA MissPatience ==
  ASSUME Inv, Patience, NEW p \in Projects, pc = "visit", cursor = p, Miss, pc' = pc,
         \A q \in Projects \ {p} : queue'[q] = queue[q] /\ deficits'[q] = deficits[q],
         queue'[p] # {} => /\ queue[p] # {}
                           /\ Spent(p)' \in Int /\ Spent(p)' >= Spent(p) + 1
  PROVE  Patience'
<1> SUFFICES ASSUME NEW q \in Projects, queue'[q] # {}
             PROVE  visits' <= NumProjects * Spent(q)' + Since(q)'
  BY DEF Patience
<1>1. /\ visits' = visits + 1 /\ cursor' = NextProject /\ visits \in Nat
      /\ cursor \in Projects /\ NumProjects \in Nat
  BY SchedulerAssumption DEF Miss, Inv, TypeOK
<1>2. queue[q] # {}
  OBVIOUS
<1>3. visits <= NumProjects * Spent(q) + Since(q)
  BY <1>2 DEF Patience
<1>4. Spent(q) \in Int /\ Since(q) \in Nat /\ NumProjects * Spent(q) \in Int
  BY <1>1, SpentBounds, Round
<1>5. CASE q = p
  <2>1. Since(q) = NumProjects - 1 /\ Since(q)' = 0
    BY <1>1, <1>5, Round
  <2>2. NumProjects * Spent(q)' >= NumProjects * Spent(q) + NumProjects
    BY <1>4, <1>5, OneMoreRound
  <2>3. NumProjects * Spent(q)' \in Int
    BY <1>1, <1>5
  <2> QED BY <1>1, <1>3, <1>4, <2>1, <2>2, <2>3
<1>6. CASE q # p
  <2>1. Since(q)' = Since(q) + 1
    BY <1>1, <1>6, Round
  <2>2. Spent(q)' = Spent(q)
    BY <1>6 DEF Spent, Saves
  <2> QED BY <1>1, <1>3, <1>4, <2>1, <2>2
<1> QED BY <1>5, <1>6

(* Passing over a project, for want of tasks or of runs.                   *)
LEMMA SkipPatience ==
  ASSUME Inv, Patience, NEW p \in Projects, SkipEmpty(p) \/ SkipFull(p)
  PROVE  Patience'
<1>1. pc = "visit" /\ cursor = p /\ Miss /\ pc' = pc /\ deficits' = deficits
  BY DEF SkipEmpty, SkipFull, Visit
<1>2. \A q \in Projects : queue'[q] = IF q = p THEN {} ELSE queue[q]
  BY DEF SkipEmpty, SkipFull, Inv, TypeOK
<1> QED BY <1>1, <1>2, MissPatience

(* Saving brings the project at least 2 nearer to what its task costs.     *)
LEMMA SaveUpPatience ==
  ASSUME Inv, Patience, NEW p \in Projects, SaveUp(p)
  PROVE  Patience'
<1>1. /\ pc = "visit" /\ cursor = p /\ Miss /\ pc' = pc /\ queue' = queue /\ queue[p] # {}
      /\ deficits' = [deficits EXCEPT ![p] = Credit] /\ Credit < Cost(Task)
      /\ Task \in Tasks /\ Credit \in Nat /\ Cost(Task) \in Nat
  BY VisitFacts DEF SaveUp, Considers, Visit
<1>2. Credit >= deficits[p] + 2
  BY <1>1, QuantumAtLeast, QuantumPositive DEF Credit, Inv, TypeOK
<1>3. deficits'[p] = Credit /\ deficits[p] \in Nat
  BY <1>1 DEF Inv, TypeOK
<1>4. Credit < 60
  BY <1>1, CostAtMost
<1>5. Saves(p)' \in Nat /\ Saves(p) \in Nat /\ Saves(p)' <= Saves(p) - 1
  <2> HIDE DEF Credit
  <2> QED BY <1>1, <1>2, <1>3, <1>4 DEF Saves
<1>6. Spent(p)' \in Int /\ Spent(p)' >= Spent(p) + 1
  BY <1>1, <1>5, QueueCount DEF Spent
<1>7. \A q \in Projects \ {p} : queue'[q] = queue[q] /\ deficits'[q] = deficits[q]
  BY <1>1 DEF Inv, TypeOK
<1> QED BY <1>1, <1>6, <1>7, MissPatience

(* A rejection takes a task out of the queue and keeps what was saved.     *)
LEMMA RejectPatience ==
  ASSUME Inv, Patience, NEW p \in Projects, Reject(p)
  PROVE  Patience'
<1> DEFINE u == Task
<1>1. /\ pc = "visit" /\ cursor = p /\ Miss /\ pc' = pc /\ u \in queue[p]
      /\ queue' = [queue EXCEPT ![p] = @ \ {u}]
      /\ deficits' = [deficits EXCEPT ![p] = Credit] /\ Credit \in Nat
  BY VisitFacts DEF Reject, Affords
<1>2. Credit >= deficits[p]
  BY <1>1, QuantumPositive DEF Credit, Inv, TypeOK
<1>3. deficits'[p] = Credit /\ deficits[p] \in Nat
  BY <1>1 DEF Inv, TypeOK
<1> HIDE DEF u
<1>4. queue'[p] = queue[p] \ {u} /\ queue[p] \in SUBSET Tasks
  BY <1>1 DEF Inv, TypeOK
<1>5. Cardinality(queue'[p]) = Cardinality(queue[p]) - 1
  BY <1>1, <1>4, TaskSets, FS_RemoveElement
<1>6. Saves(p)' \in Nat /\ Saves(p) \in Nat /\ Saves(p)' <= Saves(p)
  <2> HIDE DEF Credit
  <2> QED BY <1>1, <1>2, <1>3 DEF Saves
<1>7. Cardinality(queue[p]) \in Nat
  BY QueueCount
<1>8. Spent(p)' \in Int /\ Spent(p)' >= Spent(p) + 1
  BY <1>5, <1>6, <1>7 DEF Spent
<1>9. \A q \in Projects \ {p} : queue'[q] = queue[q] /\ deficits'[q] = deficits[q]
  BY <1>1 DEF Inv, TypeOK
<1> QED BY <1>1, <1>8, <1>9, MissPatience

(* Every step keeps the loop patient.                                      *)
LEMMA NextPatience == Inv /\ FewReady' /\ Patience /\ [Next]_vars /\ Inv' => Patience'
<1> SUFFICES ASSUME Inv, FewReady', Patience, [Next]_vars, Inv' PROVE Patience'
  OBVIOUS
<1>1. (visits = 0)' => Patience'
  BY PatientAtZero, PTL
<1>2. ASSUME UNCHANGED <<deficits, cursor, pc, queue, visits>> PROVE Patience'
  BY <1>2 DEF Patience, Spent, Saves, Since
<1>3. ASSUME NEW t \in Tasks, Publish(t) \/ Finish(t) PROVE Patience'
  BY <1>2, <1>3 DEF Publish, Finish, call
<1>4. ASSUME NEW p \in Revocable, ChangeTrust(p) PROVE Patience'
  BY <1>2, <1>4 DEF ChangeTrust, call
<1>5. CASE Snapshot
  BY <1>1, <1>5 DEF Snapshot, Patience
<1>6. ASSUME NEW p \in Projects, SkipEmpty(p) \/ SkipFull(p) PROVE Patience'
  BY <1>6, SkipPatience
<1>7. ASSUME NEW p \in Projects, SaveUp(p) PROVE Patience'
  BY <1>7, SaveUpPatience
<1>8. ASSUME NEW p \in Projects, Reject(p) PROVE Patience'
  BY <1>8, RejectPatience
<1>9. ASSUME NEW p \in Projects, Select(p) PROVE Patience'
  BY <1>1, <1>9 DEF Select
<1>10. CASE Return
  BY <1>10 DEF Return, Patience
<1>11. CASE Start
  BY <1>1, <1>11 DEF Start
<1>12. CASE UNCHANGED vars
  BY <1>2, <1>12 DEF vars, call
<1> QED BY <1>3, <1>4, <1>5, <1>6, <1>7, <1>8, <1>9, <1>10, <1>11, <1>12 DEF Next, Call

(* Every step keeps the reasons: the counters of a call only grow.         *)
LEMMA NextReasoned == Inv /\ Reasoned /\ [Next]_vars /\ Inv' => Reasoned'
<1> SUFFICES ASSUME Inv, Reasoned, [Next]_vars, Inv', pc' = "visit",
                    NEW t \in ready', blocked'[t] = "concurrency"
             PROVE  projectRuns'[ProjectOf[t]] >= PerProjectMaxRuns
                    \/ LaneFull(route'[t], laneRuns')
  BY DEF Reasoned, LaneFull
<1> DEFINE Full == projectRuns[ProjectOf[t]] >= PerProjectMaxRuns \/ LaneFull(route[t], laneRuns)
<1>1. t \in Tasks /\ ProjectOf[t] \in Projects
  BY SchedulerAssumption DEF Inv, TypeOK
<1>2. ASSUME UNCHANGED <<ready, route, pc, blocked, projectRuns, laneRuns>>
      PROVE  projectRuns'[ProjectOf[t]] >= PerProjectMaxRuns
             \/ LaneFull(route'[t], laneRuns')
  BY <1>2 DEF Reasoned, LaneFull
<1>3. ASSUME NEW u \in Tasks, Publish(u) PROVE FALSE
  BY <1>3 DEF Publish, call
<1>4. ASSUME NEW p \in Revocable, ChangeTrust(p) PROVE FALSE
  BY <1>4 DEF ChangeTrust, call
<1>5. ASSUME NEW u \in Tasks, Finish(u)
      PROVE  UNCHANGED <<ready, route, pc, blocked, projectRuns, laneRuns>>
  BY <1>5 DEF Finish, call, counts
<1>6. ASSUME Snapshot
      PROVE  projectRuns'[ProjectOf[t]] >= PerProjectMaxRuns
             \/ LaneFull(route'[t], laneRuns')
  <2>1. route' = route /\ ready' = ready
    BY <1>6 DEF Snapshot, caller
  <2>2. Verdict(t, projectRuns', laneRuns', activeScopes') = "concurrency"
    BY <1>1, <1>6, <2>1 DEF Snapshot
  <2>3. projectRuns'[ProjectOf[t]] >= PerProjectMaxRuns \/ LaneFull(route[t], laneRuns')
    BY <2>2 DEF Verdict
  <2> QED BY <2>1, <2>3
<1>7. ASSUME NEW p \in Projects, SkipEmpty(p) \/ SaveUp(p)
      PROVE  UNCHANGED <<ready, route, pc, blocked, projectRuns, laneRuns>>
  BY <1>7 DEF SkipEmpty, SaveUp, caller, counts
<1>8. ASSUME NEW p \in Projects, SkipFull(p) \/ Reject(p) PROVE Full
  <2>1. pc = "visit" /\ ready' = ready
    BY <1>8 DEF SkipFull, Reject, Affords, Considers, Visit, caller
  <2>2. blocked[t] = "concurrency" => Full
    BY <2>1 DEF Reasoned
  <2>3. CASE SkipFull(p)
    <3>1. blocked'[t] = IF t \in queue[p] THEN "concurrency" ELSE blocked[t]
      BY <1>1, <2>3 DEF SkipFull
    <3>2. t \in queue[p] => ProjectOf[t] = p
      BY DEF Inv, Queues
    <3> QED BY <2>2, <2>3, <3>1, <3>2 DEF SkipFull
  <2>4. CASE Reject(p)
    <3>1. Task \in Tasks
      BY <2>4, VisitFacts DEF Reject, Affords
    <3>2. CASE t = Task
      <4>1. blocked'[t] = "concurrency" /\ blocked \in [Tasks -> Reasons \cup {"none"}]
        BY DEF Inv, TypeOK
      <4>2. \/ blocked'[t] = "conflict"
            \/ LaneFull(route[t], laneRuns)
        BY <1>1, <2>4, <3>2, <4>1 DEF Reject
      <4> QED BY <4>1, <4>2
    <3>3. CASE t # Task
      <4>1. blocked'[t] = blocked[t]
        BY <1>1, <2>4, <3>3 DEF Reject, Inv, TypeOK
      <4> QED BY <2>2, <4>1
    <3> QED BY <3>2, <3>3
  <2> QED BY <1>8, <2>3, <2>4
<1>9. ASSUME NEW p \in Projects, SkipFull(p) \/ Reject(p)
      PROVE  projectRuns' = projectRuns /\ laneRuns' = laneRuns /\ route' = route
  BY <1>9 DEF SkipFull, Reject, caller, counts
<1>10. ASSUME NEW p \in Projects, Select(p)
       PROVE  projectRuns'[ProjectOf[t]] >= PerProjectMaxRuns
              \/ LaneFull(route'[t], laneRuns')
  <2>1. pc = "visit" /\ ready' = ready /\ route' = route /\ blocked' = blocked
    BY <1>10 DEF Select, Affords, Considers, Visit, caller
  <2>2. Full
    BY <2>1 DEF Reasoned
  <2>3. projectRuns[ProjectOf[t]] \in Nat /\ projectRuns'[ProjectOf[t]] >= projectRuns[ProjectOf[t]]
    BY <1>1, <1>10 DEF Select, Inv, TypeOK
  <2>4. \A lane \in Lanes : /\ laneRuns[lane] \in Nat /\ laneRuns'[lane] \in Nat
                            /\ laneRuns'[lane] >= laneRuns[lane]
    BY <1>10 DEF Select, Inv, TypeOK
  <2>5. ASSUME LaneFull(route[t], laneRuns) PROVE LaneFull(route'[t], laneRuns')
    <3>1. PICK lane \in route[t] \cap DOMAIN LaneMaxRuns : laneRuns[lane] >= LaneMaxRuns[lane]
      BY <2>5 DEF LaneFull
    <3>2. lane \in Lanes /\ LaneMaxRuns[lane] \in Nat
      BY SchedulerAssumption
    <3>3. laneRuns'[lane] >= LaneMaxRuns[lane]
      BY <2>4, <3>1, <3>2
    <3> QED BY <2>1, <3>1, <3>3 DEF LaneFull
  <2>6. projectRuns'[ProjectOf[t]] \in Nat /\ PerProjectMaxRuns \in Nat
    BY <1>1, SchedulerAssumption DEF Inv, TypeOK
  <2> QED BY <2>2, <2>3, <2>5, <2>6
<1>11. ASSUME Return \/ Start PROVE FALSE
  BY <1>11 DEF Return, Start
<1>12. ASSUME UNCHANGED vars
       PROVE  UNCHANGED <<ready, route, pc, blocked, projectRuns, laneRuns>>
  BY <1>12 DEF vars, caller, call, counts
<1> QED BY <1>2, <1>3, <1>4, <1>5, <1>6, <1>7, <1>8, <1>9, <1>10, <1>11, <1>12
        DEF Next, Call, LaneFull

(* The loop ends because there is nothing left to do, not because it has   *)
(* had enough.                                                             *)
LEMMA ReturnConserves ==
  ASSUME Inv, Patience, Reasoned, Return
  PROVE  WorkConserving'
<1> SUFFICES ASSUME NEW t \in ready, blocked'[t] = "concurrency"
             PROVE  \/ Cardinality(selected) = slots
                    \/ projectRuns[ProjectOf[t]] >= PerProjectMaxRuns
                    \/ LaneFull(route[t], laneRuns)
  BY DEF Return, caller, counts, WorkConserving, LaneFull
<1>1. t \in Tasks /\ pc = "visit" /\ ~GoesOn
  BY DEF Inv, TypeOK, Return
<1>2. CASE \E p \in Projects : t \in queue[p]
  <2>1. PICK p \in Projects : t \in queue[p]
    BY <1>2
  <2>2. visits <= NumProjects * Spent(p) + Since(p)
    BY <1>1, <2>1 DEF Patience
  <2>3. Spent(p) \in Int /\ 63 >= Spent(p)
    BY <2>1, SpentBounds
  <2>4. NumProjects * 64 >= NumProjects * Spent(p) + NumProjects
    BY <2>3, OneMoreRound
  <2>5. NumProjects \in Nat /\ Since(p) \in Nat /\ Since(p) < NumProjects
    BY Round DEF Inv, TypeOK
  <2>6. visits \in Nat /\ NumProjects * Spent(p) \in Int /\ NumProjects * 64 \in Int
    BY <2>3, <2>5 DEF Inv, TypeOK
  <2>7. visits < MaxVisits
    BY <2>2, <2>4, <2>5, <2>6 DEF MaxVisits
  <2>8. ~(Cardinality(selected) < slots)
    BY <1>1, <2>1, <2>7 DEF GoesOn
  <2>9. Cardinality(selected) <= slots
    BY <1>1 DEF Inv, Counters
  <2>10. Cardinality(selected) \in Nat /\ slots \in Nat
    BY TaskSets DEF Inv, TypeOK
  <2> QED BY <2>8, <2>9, <2>10
<1>3. CASE ~\E p \in Projects : t \in queue[p]
  <2>1. blocked'[t] = blocked[t]
    BY <1>1, <1>3 DEF Return
  <2> QED BY <1>1, <2>1 DEF Reasoned
<1> QED BY <1>2, <1>3

(* Only the return of a call answers anybody.                              *)
LEMMA NextConserves == Inv /\ FullInv /\ [Next]_vars => WorkConserving'
<1> SUFFICES ASSUME Inv, FullInv, [Next]_vars PROVE WorkConserving'
  OBVIOUS
<1>1. ASSUME UNCHANGED <<ready, route, pc, slots, blocked, selected, projectRuns, laneRuns>>
      PROVE  WorkConserving'
  BY <1>1 DEF FullInv, WorkConserving, LaneFull
<1>2. ASSUME pc' # "decided" PROVE WorkConserving'
  BY <1>2 DEF WorkConserving
<1>3. ASSUME NEW t \in Tasks, Publish(t) PROVE WorkConserving'
  BY <1>2, <1>3 DEF Publish, call
<1>4. ASSUME NEW p \in Revocable, ChangeTrust(p) PROVE WorkConserving'
  BY <1>2, <1>4 DEF ChangeTrust, call
<1>5. ASSUME NEW t \in Tasks, Finish(t) PROVE WorkConserving'
  BY <1>1, <1>5 DEF Finish, call, counts
<1>6. ASSUME NEW p \in Projects,
             SkipEmpty(p) \/ SkipFull(p) \/ SaveUp(p) \/ Reject(p) \/ Select(p)
      PROVE  WorkConserving'
  <2>1. pc' = pc /\ pc = "visit"
    BY <1>6 DEF SkipEmpty, SkipFull, SaveUp, Reject, Select, Affords, Considers, Visit
  <2> QED BY <1>2, <2>1
<1>7. CASE Snapshot \/ Start
  BY <1>2, <1>7 DEF Snapshot, Start
<1>8. CASE Return
  BY <1>8, ReturnConserves DEF FullInv
<1>9. CASE UNCHANGED vars
  BY <1>1, <1>9 DEF vars, caller, call, counts
<1> QED BY <1>3, <1>4, <1>5, <1>6, <1>7, <1>8, <1>9 DEF Next, Call

(* With at most 35 ready tasks in each project, no call leaves room unused *)
(* while it tells a task to wait for capacity.                             *)
THEOREM Conserving == Spec /\ []FewReady => []WorkConserving
<1>1. Init /\ FewReady => FullInv
  <2>1. Init => visits = 0 /\ pc = "host"
    BY DEF Init
  <2> QED BY <2>1 DEF FullInv, Patience, Reasoned, WorkConserving
<1>2. Inv /\ Inv' /\ FewReady' /\ FullInv /\ [Next]_vars => FullInv'
  BY NextPatience, NextReasoned, NextConserves DEF FullInv
<1>3. FullInv => WorkConserving
  BY DEF FullInv
<1> QED BY InvHolds, <1>1, <1>2, <1>3, PTL DEF Spec
=============================================================================
