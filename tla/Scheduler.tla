----------------------------- MODULE Scheduler -----------------------------
(***************************************************************************)
(* The cross-project scheduler (packages/scheduler): `schedule` decides    *)
(* which ready tasks to start, by weighted deficit round robin over the    *)
(* projects.  It is a function of a snapshot; its loop is a step per       *)
(* visit.  The host calls it again and again, starts what was selected,    *)
(* and hands the deficits and the cursor back; meanwhile runs end.         *)
(*                                                                         *)
(* A project stands for its position in the order of the identifiers, a    *)
(* task's rank for stableTaskOrder.  Adapters and accounts are limited in  *)
(* the same way and are all called lanes; a route is a set of lanes.       *)
(* Weights and deficits are in tenths.                                     *)
(***************************************************************************)
EXTENDS WriteScopes, FiniteSets

CONSTANTS
  NumProjects,
  Tasks,
  ProjectOf,           \* the project of a task
  Effort,              \* the effort level of a task
  Rank,                \* the place of a task in stableTaskOrder
  ScopesOf,            \* the write scopes of a task
  Weight,              \* the weight of a project
  NotFinite,           \* a weight that is not a finite number
  Lanes,               \* adapters and accounts
  Routes,              \* the routes there are
  NoRoute,
  GlobalMaxRuns, PerProjectMaxRuns,
  LaneMaxRuns,         \* for the lanes that have a limit
  UnknownConflicts,    \* unknownWriteScopeConflicts
  Revocable            \* projects whose trust may change

Projects == 1..NumProjects
Reasons == {"trust", "route", "concurrency", "conflict"}

ASSUME SchedulerAssumption ==
  /\ NumProjects \in Nat \ {0}
  /\ IsFiniteSet(Tasks)
  /\ ProjectOf \in [Tasks -> Projects]
  /\ Effort \in [Tasks -> {"off", "low", "medium", "high", "max"}]
  /\ Rank \in [Tasks -> Nat]
  /\ \A t, u \in Tasks : Rank[t] = Rank[u] => t = u
  /\ ScopesOf \in [Tasks -> Seq(Seq(Segments))]
  /\ NotFinite \notin Int
  /\ Weight \in [Projects -> Int \cup {NotFinite}]
  /\ Routes \subseteq SUBSET Lanes
  /\ NoRoute \notin Routes
  /\ GlobalMaxRuns \in Nat /\ PerProjectMaxRuns \in Nat
  /\ DOMAIN LaneMaxRuns \subseteq Lanes
  /\ \A lane \in DOMAIN LaneMaxRuns : LaneMaxRuns[lane] \in Nat
  /\ UnknownConflicts \in BOOLEAN
  /\ Revocable \subseteq Projects

VARIABLES
  ready, active,   \* the tasks that are ready, and those with a run
  route,           \* routeByTask
  trusted,         \* the trusted projects
  deficits, cursor,
  (* inside a call of `schedule`, and what it returns *)
  pc, slots, queue, blocked, selected, visits,
  projectRuns, laneRuns, activeScopes

caller == <<ready, active, route, trusted>>
counts == <<projectRuns, laneRuns, activeScopes>>
call == <<pc, slots, queue, blocked, selected, visits, counts>>
vars == <<caller, deficits, cursor, call>>

effortCost == [off |-> 10, low |-> 10, medium |-> 20, high |-> 40, max |-> 60]
Cost(t) == effortCost[Effort[t]]

Quantum(p) ==
  2 * (IF Weight[p] = NotFinite THEN 10
       ELSE IF Weight[p] < 1 THEN 1 ELSE IF Weight[p] > 1000 THEN 1000 ELSE Weight[p])

(* Variant with a defect: one round of visits has to suffice.              *)
MaxVisitsOneRound == NumProjects

MaxVisits == NumProjects * 64

(* Variant with a defect: only the first scope of a task is compared.      *)
ClashesFirstScope(t, claims) ==
  \E scopes \in claims : Conflict(SubSeq(ScopesOf[t], 1, 1), scopes, UnknownConflicts)

Clashes(t, claims) == \E scopes \in claims : Conflict(ScopesOf[t], scopes, UnknownConflicts)

First(S) == CHOOSE t \in S : \A u \in S : Rank[t] <= Rank[u]

NoQueues == [p \in Projects |-> {}]
Unblocked == [t \in Tasks |-> "none"]

Init ==
  /\ ready = {} /\ active = {} /\ route = [t \in Tasks |-> NoRoute] /\ trusted = Projects
  /\ deficits = [p \in Projects |-> 0] /\ cursor = 1
  /\ pc = "host" /\ slots = 0 /\ queue = NoQueues /\ blocked = Unblocked
  /\ selected = {} /\ visits = 0
  /\ projectRuns = [p \in Projects |-> 0] /\ laneRuns = [lane \in Lanes |-> 0]
  /\ activeScopes = NoQueues

-----------------------------------------------------------------------------
(* The caller, between two calls; runs end whenever they like.             *)

Publish(t) ==
  /\ pc = "host"
  /\ t \notin ready \cup active
  /\ ready' = ready \cup {t}
  /\ \E r \in Routes \cup {NoRoute} : route' = [route EXCEPT ![t] = r]
  /\ UNCHANGED <<active, trusted, deficits, cursor, call>>

ChangeTrust(p) ==
  /\ pc = "host"
  /\ trusted' = IF p \in trusted THEN trusted \ {p} ELSE trusted \cup {p}
  /\ UNCHANGED <<ready, active, route, deficits, cursor, call>>

Finish(t) ==
  /\ t \in active
  /\ active' = active \ {t}
  /\ UNCHANGED <<ready, route, trusted, deficits, cursor, call>>

-----------------------------------------------------------------------------
(* One call of `schedule`.                                                 *)

RunsOf(p)  == {t \in active : ProjectOf[t] = p}
RunsOn(lane) == {t \in active : lane \in route[t]}

(* Variant with a defect: a lane is full when it is over its limit.        *)
LaneFullOffByOne(r, runs) ==
  \E lane \in r \cap DOMAIN LaneMaxRuns : runs[lane] > LaneMaxRuns[lane]

LaneFull(r, runs) == \E lane \in r \cap DOMAIN LaneMaxRuns : runs[lane] >= LaneMaxRuns[lane]

(* Why a ready task is not even queued.                                    *)
Verdict(t, perProject, perLane, claims) ==
  IF ProjectOf[t] \notin trusted THEN "trust"
  ELSE IF route[t] = NoRoute THEN "route"
  ELSE IF perProject[ProjectOf[t]] >= PerProjectMaxRuns \/ LaneFull(route[t], perLane)
       THEN "concurrency"
  ELSE IF Clashes(t, claims[ProjectOf[t]]) THEN "conflict" ELSE "none"

(* The runs of the snapshot are counted and the ready tasks are queued.    *)
Snapshot ==
  /\ pc = "host"
  /\ projectRuns' = [p \in Projects |-> Cardinality(RunsOf(p))]
  /\ laneRuns' = [lane \in Lanes |-> Cardinality(RunsOn(lane))]
  /\ activeScopes' = [p \in Projects |-> {ScopesOf[t] : t \in RunsOf(p)}]
  /\ blocked' = [t \in Tasks |-> IF t \in ready
                                 THEN Verdict(t, projectRuns', laneRuns', activeScopes')
                                 ELSE "none"]
  /\ queue' = [p \in Projects |->
                 {t \in ready : ProjectOf[t] = p /\ blocked'[t] = "none"}]
  /\ slots' = IF Cardinality(active) > GlobalMaxRuns
              THEN 0 ELSE GlobalMaxRuns - Cardinality(active)
  /\ pc' = "visit"
  /\ UNCHANGED <<caller, deficits, cursor, selected, visits>>

NextProject == (cursor % NumProjects) + 1

GoesOn ==
  /\ Cardinality(selected) < slots
  /\ \E p \in Projects : queue[p] # {}
  /\ visits < MaxVisits

(* Every visit: the cursor's project, its first task, and its credit,      *)
(* topped up when it does not pay for that task.                           *)
Task == First(queue[cursor])
Credit == IF deficits[cursor] < Cost(Task) THEN deficits[cursor] + Quantum(cursor)
                                           ELSE deficits[cursor]

Visit(p) == pc = "visit" /\ GoesOn /\ cursor = p
Miss == visits' = visits + 1 /\ cursor' = NextProject

SkipEmpty(p) ==
  /\ Visit(p)
  /\ queue[p] = {}
  /\ Miss
  /\ UNCHANGED <<caller, deficits, pc, slots, queue, blocked, selected, counts>>

SkipFull(p) ==
  /\ Visit(p)
  /\ queue[p] # {}
  /\ projectRuns[p] >= PerProjectMaxRuns
  /\ blocked' = [t \in Tasks |-> IF t \in queue[p] THEN "concurrency" ELSE blocked[t]]
  /\ queue' = [queue EXCEPT ![p] = {}]
  /\ Miss
  /\ UNCHANGED <<caller, deficits, pc, slots, selected, counts>>

Considers(p) == Visit(p) /\ queue[p] # {} /\ projectRuns[p] < PerProjectMaxRuns

SaveUp(p) ==
  /\ Considers(p)
  /\ Credit < Cost(Task)
  /\ deficits' = [deficits EXCEPT ![p] = Credit]
  /\ Miss
  /\ UNCHANGED <<caller, pc, slots, queue, blocked, selected, counts>>

(* Variant with a defect: tasks are taken on credit.                       *)
AffordsAnything(p) == Considers(p)

Affords(p) == Considers(p) /\ Credit >= Cost(Task)

(* The first task has become impossible by what this call selected.        *)
Reject(p) ==
  /\ Affords(p)
  /\ \/ Clashes(Task, activeScopes[p]) /\ blocked' = [blocked EXCEPT ![Task] = "conflict"]
     \/ /\ ~Clashes(Task, activeScopes[p]) /\ LaneFull(route[Task], laneRuns)
        /\ blocked' = [blocked EXCEPT ![Task] = "concurrency"]
  /\ queue' = [queue EXCEPT ![p] = @ \ {Task}]
  /\ deficits' = [deficits EXCEPT ![p] = Credit]
  /\ Miss
  /\ UNCHANGED <<caller, pc, slots, selected, counts>>

(* Variant with a defect: the project need not be able to pay.             *)
StaysAtUnpaid(p) ==
  IF queue'[p] # {} THEN deficits'[p] >= Cost(First(queue'[p])) ELSE Cardinality(selected') >= slots

(* The cursor stays while the project can pay for its next task, or, when  *)
(* there is none, for another one like this at the next call.              *)
StaysAt(p) ==
  IF queue'[p] # {} THEN deficits'[p] >= Cost(First(queue'[p]))
  ELSE Cardinality(selected') >= slots /\ deficits'[p] >= Cost(Task)

Select(p) ==
  /\ Affords(p)
  /\ ~Clashes(Task, activeScopes[p]) /\ ~LaneFull(route[Task], laneRuns)
  /\ selected' = selected \cup {Task}
  /\ queue' = [queue EXCEPT ![p] = @ \ {Task}]
  /\ deficits' = [deficits EXCEPT ![p] = Credit - Cost(Task)]
  /\ projectRuns' = [projectRuns EXCEPT ![p] = @ + 1]
  /\ laneRuns' = [lane \in Lanes |-> IF lane \in route[Task] THEN laneRuns[lane] + 1
                                                             ELSE laneRuns[lane]]
  /\ activeScopes' = [activeScopes EXCEPT ![p] = @ \cup {ScopesOf[Task]}]
  /\ cursor' = IF StaysAt(p) THEN cursor ELSE NextProject
  /\ visits' = 0
  /\ UNCHANGED <<caller, pc, slots, blocked>>

(* Variant with a defect: tasks that are still queued are forgotten.       *)
ReturnForgetsQueued ==
  /\ pc = "visit"
  /\ ~GoesOn
  /\ pc' = "decided"
  /\ UNCHANGED <<caller, deficits, cursor, slots, queue, blocked, selected, visits, counts>>

(* Tasks that are still queued are blocked, and the decision is returned.  *)
Return ==
  /\ pc = "visit"
  /\ ~GoesOn
  /\ blocked' = [t \in Tasks |-> IF \E p \in Projects : t \in queue[p] THEN "concurrency"
                                                                      ELSE blocked[t]]
  /\ pc' = "decided"
  /\ UNCHANGED <<caller, deficits, cursor, slots, queue, selected, visits, counts>>

(* The caller starts what was selected.                                    *)
Start ==
  /\ pc = "decided"
  /\ active' = active \cup selected
  /\ ready' = ready \ selected
  /\ pc' = "host" /\ slots' = 0 /\ queue' = NoQueues /\ blocked' = Unblocked
  /\ selected' = {} /\ visits' = 0
  /\ projectRuns' = [p \in Projects |-> 0] /\ laneRuns' = [lane \in Lanes |-> 0]
  /\ activeScopes' = NoQueues
  /\ UNCHANGED <<route, trusted, deficits, cursor>>

Call ==
  \/ Snapshot
  \/ \E p \in Projects : SkipEmpty(p) \/ SkipFull(p) \/ SaveUp(p) \/ Reject(p) \/ Select(p)
  \/ Return
  \/ Start

Next ==
  \/ \E t \in Tasks : Publish(t) \/ Finish(t)
  \/ \E p \in Revocable : ChangeTrust(p)
  \/ Call

Spec == Init /\ [][Next]_vars

-----------------------------------------------------------------------------
(* The variables hold what their comments say.                             *)
TypeOK ==
  /\ ready \subseteq Tasks /\ active \subseteq Tasks /\ ready \cap active = {}
  /\ route \in [Tasks -> Routes \cup {NoRoute}]
  /\ trusted \subseteq Projects
  /\ deficits \in [Projects -> Nat] /\ cursor \in Projects
  /\ pc \in {"host", "visit", "decided"}
  /\ slots \in Nat /\ visits \in Nat
  /\ queue \in [Projects -> SUBSET ready]
  /\ blocked \in [Tasks -> Reasons \cup {"none"}]
  /\ selected \subseteq ready
  /\ projectRuns \in [Projects -> Nat] /\ laneRuns \in [Lanes -> Nat]
  /\ activeScopes \in [Projects -> SUBSET {ScopesOf[t] : t \in Tasks}]

Running == active \cup selected

(* However runs end and calls select, the runs never exceed the limit of   *)
(* all projects, of one project, or of an adapter or account (tick step 2  *)
(* of docs/PLAN.md).                                                       *)
LimitsRespected ==
  /\ Cardinality(Running) <= GlobalMaxRuns
  /\ \A p \in Projects :
       Cardinality({t \in Running : ProjectOf[t] = p}) <= PerProjectMaxRuns
  /\ \A lane \in DOMAIN LaneMaxRuns :
       Cardinality({t \in Running : lane \in route[t]}) <= LaneMaxRuns[lane]

(* Two tasks of one project that conflict never run together, neither      *)
(* when one call selects both nor when two calls do (tick step 3).         *)
NoConflictingRuns ==
  \A t, u \in Running :
    t # u /\ ProjectOf[t] = ProjectOf[u] =>
      \/ ~Conflict(ScopesOf[t], ScopesOf[u], UnknownConflicts)
      \/ ~Conflict(ScopesOf[u], ScopesOf[t], UnknownConflicts)

(* Every ready task is selected, or blocked for a reason, and not both.    *)
EveryTaskAnswered ==
  pc = "decided" => \A t \in ready : (t \in selected) <=> (blocked[t] = "none")

(* A call leaves no room unused: a task is told to wait for capacity only  *)
(* when all slots are taken, or its project or one of its lanes is full.   *)
WorkConserving ==
  \A t \in ready :
    pc = "decided" /\ blocked[t] = "concurrency" =>
      \/ Cardinality(selected) = slots
      \/ projectRuns[ProjectOf[t]] >= PerProjectMaxRuns
      \/ LaneFull(route[t], laneRuns)

(* The caller's side of the bargain: it keeps calling, and runs end.       *)
Fairness == WF_vars(Call) /\ \A t \in Tasks : WF_vars(Finish(t))

FairSpec == Spec /\ Fairness

(* A project whose tasks wait gets its turn: one busy repository cannot    *)
(* starve another (tick step 6, and the comment above the loop).           *)
EveryProjectServed ==
  \A p \in Projects :
    (\E t \in ready : ProjectOf[t] = p /\ p \in trusted /\ route[t] # NoRoute)
      ~> (\E t \in selected : ProjectOf[t] = p)
=============================================================================
