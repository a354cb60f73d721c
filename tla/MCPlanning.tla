----------------------------- MODULE MCPlanning -----------------------------
(***************************************************************************)
(* The functions that plan the work, each on all of its inputs within the  *)
(* bounds: the validation of a task graph, the conflicts of write scopes,  *)
(* and the choice of a route.  A behaviour takes up one of them: a graph   *)
(* that is not empty, or lists of scopes, or a set of candidates.          *)
(***************************************************************************)
EXTENDS MCWriteScopes, TaskGraph, Routing

Lists(D, n) == UNION {[1..k -> D] : k \in 0..n}

TaskNode(id, dependsOn) == [id |-> id, dependsOn |-> dependsOn, own |-> TRUE]

(* All graphs of n tasks, each with k dependencies or fewer.               *)
AllGraphs(n, k) ==
  {[i \in 1..n |-> TaskNode(n + 1 - i, d[i])] : d \in [1..n -> Lists(1..n, k)]}

(* Three tasks with two dependencies and four with one; two with repeated, *)
(* empty and missing ids, on whatever else is wrong with a graph.          *)
MCGraphs ==
  [nodes : AllGraphs(3, 2) \cup AllGraphs(4, 1), dated : {TRUE}]
  \cup [nodes : Lists({TaskNode(id, d) : id \in {0, 1}, d \in Lists({0, 1, 4}, 2)}, 2),
        dated : BOOLEAN]
  \cup [nodes : {<<TaskNode(1, <<>>), [TaskNode(2, <<1>>) EXCEPT !.own = FALSE]>>},
        dated : {TRUE}]

Quotas == {NoQuota} \cup [ratio : {0, 2, NoRatio}, expires : {1, 3, Never}]

MCCandidates ==
  [id : 1..3, fit : {TRUE}, estimate : {NoEstimate, BadEstimate, 1, 2}, efforts : {{1}, {1, 2}, {3}},
   quota : Quotas, headroom : {1}, merit : {1}]

MCTasks == [effort : {2}, cap : {1, Unlimited}]
MCPolicies == [allowDowngrade : BOOLEAN, cap : {1, Unlimited}, now : {2}]

PlanningInit == Init /\ ScopesInit /\ RoutingInit

PlanningNext ==
  \/ Next /\ UNCHANGED <<left, right, proposed>>
  \/ /\ graph.nodes = <<>> /\ graph.dated /\ verdict = "none" /\ proposed = {}
     /\ ScopesNext /\ UNCHANGED <<vars, proposed>>
  \/ /\ graph.nodes = <<>> /\ graph.dated /\ verdict = "none" /\ left = <<>> /\ right = <<>>
     /\ RoutingNext
     /\ UNCHANGED <<vars, left, right>>

PlanningSpec == PlanningInit /\ [][PlanningNext]_<<vars, left, right, proposed>>
=============================================================================
