------------------------------ MODULE Routing ------------------------------
(***************************************************************************)
(* routeTask of packages/routing: which of the candidates runs a task, and *)
(* with what effort.                                                       *)
(*                                                                         *)
(* A candidate is healthy, reviewed, allowed and capable, or not (`fit`);  *)
(* it has an estimate of its cost, the efforts its provider knows, perhaps *)
(* a quota, and what else its score is made of: the headroom of its budget *)
(* and the sum of its other merits.  Times, money, ratios and scores are   *)
(* whole numbers, efforts the numbers from 0, off, to 4, max, and ids are  *)
(* numbers in the order of the strings.                                    *)
(***************************************************************************)
EXTENDS Integers, FiniteSets

CONSTANTS
  Candidates,       \* what a host may propose
  MaxCandidates,    \* bound on the candidates for one task
  RoutedTasks,      \* the tasks, as far as a route depends on them
  Policies,
  Unlimited,   \* a cap that is not there, or not finite
  NoEstimate, BadEstimate,   \* undefined; negative or not finite
  NoQuota,     \* a candidate without a snapshot of its quota
  Never,       \* when a snapshot expires that does not
  NoRatio,     \* a snapshot that does not say how much remains
  NoRoute      \* no candidate can run the task

ASSUME RoutingAssumption ==
  /\ Candidates \subseteq
       [id : Int, fit : BOOLEAN, estimate : Int \cup {NoEstimate, BadEstimate},
        efforts : SUBSET Int,
        quota : {NoQuota} \cup [ratio : Int \cup {NoRatio}, expires : Int \cup {Never}],
        headroom : Int, merit : Int]
  /\ Policies \subseteq [allowDowngrade : BOOLEAN, cap : Int \cup {Unlimited}, now : Int]
  /\ NoQuota \notin [ratio : Int \cup {NoRatio}, expires : Int \cup {Never}]
  /\ {NoRatio, Never} \cap Int = {}
  /\ MaxCandidates \in Nat

VARIABLE proposed   \* the candidates for the task

(* The effort a candidate runs the task with: the one requested, or else   *)
(* the nearest lower one, if the policy lets it be lowered.                *)
Usable(requested, candidate, policy) ==
  IF requested \in candidate.efforts THEN {requested}
  ELSE IF policy.allowDowngrade THEN {e \in candidate.efforts : e < requested} ELSE {}

Normalized(requested, candidate, policy) ==
  LET usable == Usable(requested, candidate, policy)
  IN  CHOOSE e \in usable : \A other \in usable : other <= e

(* Variant with a defect: a snapshot is fresh for ever.                    *)
FreshForEver(candidate, policy) == candidate.quota # NoQuota

(* quotaIsFresh, and what a fresh snapshot says remains.                   *)
Fresh(candidate, policy) ==
  /\ candidate.quota # NoQuota
  /\ candidate.quota.expires = Never \/ candidate.quota.expires > policy.now

Remaining(candidate, policy) ==
  IF Fresh(candidate, policy) THEN candidate.quota.ratio ELSE NoRatio

Within(estimate, cap) == cap = Unlimited \/ estimate <= cap

(* Unknown costs are affordable as long as no cap applies.                 *)
Affordable(task, candidate, policy) ==
  /\ candidate.estimate # BadEstimate
  /\ candidate.estimate = NoEstimate => task.cap = Unlimited /\ policy.cap = Unlimited
  /\ candidate.estimate # NoEstimate =>
       Within(candidate.estimate, task.cap) /\ Within(candidate.estimate, policy.cap)

Rejected(task, candidate, policy) ==
  \/ ~candidate.fit
  \/ Remaining(candidate, policy) = 0
  \/ ~Affordable(task, candidate, policy)
  \/ Usable(task.effort, candidate, policy) = {}

Score(candidate, policy) ==
  LET remaining == Remaining(candidate, policy)
  IN  candidate.merit + (IF remaining = NoRatio THEN candidate.headroom ELSE remaining)

(* The sorted candidates: l stands before r.                               *)
Ahead(l, r, policy) ==
  \/ Score(l, policy) > Score(r, policy)
  \/ Score(l, policy) = Score(r, policy) /\ l.id < r.id

(* Of the eligible candidates the first is taken.                          *)
routeTask(task, candidates, policy) ==
  LET eligible == {c \in candidates : ~Rejected(task, c, policy)}
      chosen == CHOOSE c \in eligible : \A other \in eligible \ {c} : Ahead(c, other, policy)
  IN  IF eligible = {} THEN NoRoute
      ELSE [chosen |-> chosen.id, effort |-> Normalized(task.effort, chosen, policy)]

RoutingInit == proposed = {}

(* The host adds a candidate; no two of them have the same id.             *)
Propose(candidate) ==
  /\ Cardinality(proposed) < MaxCandidates
  /\ \A other \in proposed : other.id < candidate.id
  /\ proposed' = proposed \cup {candidate}

RoutingNext == \E candidate \in Candidates : Propose(candidate)

RoutingSpec == RoutingInit /\ [][RoutingNext]_proposed

-----------------------------------------------------------------------------
(* A snapshot of a quota that has expired is as good as none: neither what *)
(* it says is exhausted nor what it says remains makes a difference to the *)
(* route (quotaIsFresh in rejectReasons and in score).                     *)
Forgotten(candidate, policy) ==
  IF /\ candidate.quota # NoQuota
     /\ candidate.quota.expires # Never /\ candidate.quota.expires <= policy.now
  THEN [candidate EXCEPT !.quota = NoQuota] ELSE candidate

StaleQuotaIgnored ==
  \A task \in RoutedTasks, policy \in Policies :
    routeTask(task, proposed, policy)
      = routeTask(task, {Forgotten(c, policy) : c \in proposed}, policy)
=============================================================================
