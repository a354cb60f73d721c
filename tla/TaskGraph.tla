----------------------------- MODULE TaskGraph -----------------------------
(***************************************************************************)
(* validateTaskGraph of packages/domain: are the dependencies of a task    *)
(* graph sound, and in which order can its tasks run?  Edges are counted,  *)
(* and tasks are taken from a sorted queue as their counts fall to zero.   *)
(*                                                                         *)
(* An id is a number, in the order of the strings, and 0 the empty string. *)
(* A node has an id, the list of ids it depends on, and belongs to the     *)
(* project and the graph it is part of, or not.  A sorted queue without    *)
(* repetitions is the set of which the least is taken.                     *)
(***************************************************************************)
EXTENDS Integers, Sequences, FiniteSets

CONSTANT Graphs   \* [nodes, dated], where dated is for version and base revision

Nodes == [id : Nat, dependsOn : Seq(Nat), own : BOOLEAN]

ASSUME GraphsAssumption == Graphs \subseteq [nodes : Seq(Nodes), dated : BOOLEAN]

VARIABLES
  graph,
  indegree,    \* for each id, the number of its edges that are still open
  queue,       \* ids without open edges
  order,       \* the ids taken from the queue
  verdict      \* "none", "valid" or "invalid"

vars == <<graph, indegree, queue, order, verdict>>

EmptyId == 0
Positions(g) == 1..Len(g.nodes)
Ids(g) == {g.nodes[i].id : i \in Positions(g)}
Listed(o) == {o[i] : i \in 1..Len(o)}

(* All <<position, entry>> of the dependencies that count as edges: those  *)
(* on another task of the graph.  An entry may be repeated.                *)
Entries(g) == UNION {{i} \X (1..Len(g.nodes[i].dependsOn)) : i \in Positions(g)}
Dependency(g, e) == g.nodes[e[1]].dependsOn[e[2]]
Edges(g, id) ==
  {e \in Entries(g) : /\ g.nodes[e[1]].id = id
                      /\ Dependency(g, e) \in Ids(g) \ {id}}

(* The errors other than cycles: repeated ids, no version or base revision,*)
(* nodes of other graphs, dependencies on oneself or on missing tasks.     *)
Faulty(g) ==
  \/ \E i, j \in Positions(g) : i # j /\ g.nodes[i].id = g.nodes[j].id
  \/ ~g.dated
  \/ \E i \in Positions(g) : ~g.nodes[i].own
  \/ \E e \in Entries(g) : Dependency(g, e) \notin Ids(g) \ {g.nodes[e[1]].id}

(* Variant with a defect: a repeated dependency is counted once.           *)
InitDistinct ==
  /\ graph \in Graphs
  /\ indegree = [id \in Ids(graph) |->
                   Cardinality({Dependency(graph, e) : e \in Edges(graph, id)})]
  /\ queue = {id \in Ids(graph) : indegree[id] = 0}
  /\ order = <<>>
  /\ verdict = "none"

Init ==
  /\ graph \in Graphs
  /\ indegree = [id \in Ids(graph) |-> Cardinality(Edges(graph, id))]
  /\ queue = {id \in Ids(graph) : indegree[id] = 0}
  /\ order = <<>>
  /\ verdict = "none"

Least(id) == id \in queue /\ \A other \in queue : id <= other

(* Variant with a defect: a task is queued when its first edge is closed.  *)
TakeEager(id) ==
  /\ verdict = "none"
  /\ Least(id)
  /\ id # EmptyId
  /\ order' = Append(order, id)
  /\ indegree' = indegree
  /\ queue' = (queue \ {id})
              \cup {other \in Ids(graph) : \E e \in Edges(graph, other) :
                                              Dependency(graph, e) = id}
  /\ UNCHANGED <<graph, verdict>>

(* The edges to id are closed, those of an entry that is repeated one by   *)
(* one; a task is queued when its last edge is.                            *)
Take(id) ==
  /\ verdict = "none"
  /\ Least(id)
  /\ id # EmptyId
  /\ order' = Append(order, id)
  /\ indegree' = [other \in Ids(graph) |->
                    indegree[other]
                      - Cardinality({e \in Edges(graph, other) : Dependency(graph, e) = id})]
  /\ queue' = (queue \ {id})
              \cup {other \in Ids(graph) : /\ indegree'[other] = 0
                                           /\ \E e \in Edges(graph, other) :
                                                Dependency(graph, e) = id}
  /\ UNCHANGED <<graph, verdict>>

(* Variant with a defect: a cycle is not noticed.                          *)
ConcludeAcyclic ==
  /\ verdict = "none"
  /\ queue = {} \/ Least(EmptyId)
  /\ verdict' = IF ~Faulty(graph) THEN "valid" ELSE "invalid"
  /\ UNCHANGED <<graph, indegree, queue, order>>

(* The loop ends when the queue is empty, or with the empty id.            *)
Conclude ==
  /\ verdict = "none"
  /\ queue = {} \/ Least(EmptyId)
  /\ verdict' = IF ~Faulty(graph) /\ Len(order) = Len(graph.nodes) THEN "valid" ELSE "invalid"
  /\ UNCHANGED <<graph, indegree, queue, order>>

Next == (\E id \in queue : Take(id)) \/ Conclude

Spec == Init /\ [][Next]_vars
-----------------------------------------------------------------------------
(* The variables have their types; no count falls below zero, however      *)
(* often a dependency is repeated.                                         *)
TypeOK ==
  /\ graph \in [nodes : Seq(Nodes), dated : BOOLEAN]
  /\ indegree \in [Ids(graph) -> Nat]
  /\ queue \subseteq Ids(graph)
  /\ order \in Seq(Ids(graph))
  /\ verdict \in {"none", "valid", "invalid"}

(* The reference: ids are unique and not empty, all nodes belong to the    *)
(* graph and depend on tasks of it, and there is no set of tasks each of   *)
(* which has to wait for another one of the set.                           *)
DependsOn(g, id) ==
  {Dependency(g, e) : e \in {e \in Entries(g) : g.nodes[e[1]].id = id}}

Acyclic(g) ==
  \A S \in SUBSET Ids(g) :
    S # {} => \E id \in S : DependsOn(g, id) \cap S = {}

Sound(g) ==
  /\ g.dated
  /\ Cardinality(Ids(g)) = Len(g.nodes)
  /\ EmptyId \notin Ids(g)
  /\ \A i \in Positions(g) : g.nodes[i].own
  /\ \A id \in Ids(g) : DependsOn(g, id) \subseteq Ids(g)
  /\ Acyclic(g)

(* A graph passes exactly if it is sound, however often a dependency is    *)
(* repeated and in whatever order nodes and dependencies are listed.       *)
VerdictIsRight == verdict # "none" => (verdict = "valid" <=> Sound(graph))

(* At every moment each task comes after all it depends on, and only once; *)
(* a graph that passes has them all.                                       *)
OrderIsRunnable ==
  /\ \A i, j \in 1..Len(order) : order[i] = order[j] => i = j
  /\ \A n \in 1..Len(order) :
       DependsOn(graph, order[n]) \cap (Ids(graph) \ {order[n]})
         \subseteq {order[i] : i \in 1..(n - 1)}
  /\ verdict = "valid" => Listed(order) = Ids(graph)
=============================================================================
