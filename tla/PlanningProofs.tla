-------------------------- MODULE PlanningProofs ---------------------------
(***************************************************************************)
(* What holds of the functions that plan the work, for inputs of any size. *)
(*                                                                         *)
(* Task graphs: the counts say how many edges are still open and the queue *)
(* holds what can run next; what has been taken has no cycle, because      *)
(* every new task waits for earlier ones only.  Write scopes: a file of an *)
(* aligned scope begins with the names before the first wildcard.  Routes: *)
(* forgetting an expired quota changes nothing that a route depends on.    *)
(***************************************************************************)
EXTENDS TaskGraph, ScopeOverlap, Routing, FiniteSetTheorems, WellFoundedInduction, TLAPS

-----------------------------------------------------------------------------
(* Task graphs.                                                            *)

GraphType == [nodes : Seq(Nodes), dated : BOOLEAN]

OpenEdges(id) == {e \in Edges(graph, id) : Dependency(graph, e) \notin Listed(order)}

(* Each count is that of the edges whose dependency has not been taken.    *)
CountsAreRight == \A id \in Ids(graph) : indegree[id] = Cardinality(OpenEdges(id))

(* The queue has what is not taken and waits for nothing.                  *)
QueueIsRight == queue = {id \in Ids(graph) : indegree[id] = 0} \ Listed(order)

Others(id) == DependsOn(graph, id) \cap (Ids(graph) \ {id})

(* What is taken is taken once, after all it depends on.                   *)
TakenOnce == \A i, j \in 1..Len(order) : order[i] = order[j] => i = j
TakenInOrder ==
  \A n \in 1..Len(order) : Others(order[n]) \subseteq {order[i] : i \in 1..(n - 1)}

(* No set of taken tasks is a cycle; the empty id is not among them.       *)
TakenAcyclic ==
  \A S \in SUBSET Listed(order) : S # {} => \E id \in S : Others(id) \cap S = {}
NoneEmpty == EmptyId \notin Listed(order)

(* The verdict is that of the order once nothing more can be taken.        *)
VerdictIsFinal ==
  verdict # "none" =>
    /\ queue = {} \/ Least(EmptyId)
    /\ verdict = IF ~Faulty(graph) /\ Len(order) = Len(graph.nodes) THEN "valid" ELSE "invalid"

IInv ==
  /\ TypeOK /\ CountsAreRight /\ QueueIsRight
  /\ TakenOnce /\ TakenInOrder /\ TakenAcyclic /\ NoneEmpty
  /\ VerdictIsFinal
-----------------------------------------------------------------------------
(* A graph has finitely many entries, and each task finitely many edges.   *)
LEMMA EntriesFinite ==
  ASSUME NEW g \in GraphType
  PROVE  IsFiniteSet(Entries(g))
<1> DEFINE f == [i \in Positions(g) |-> {i} \X (1..Len(g.nodes[i].dependsOn))]
           T == {f[i] : i \in Positions(g)}
<1>1. Len(g.nodes) \in Nat /\ \A i \in Positions(g) : Len(g.nodes[i].dependsOn) \in Nat
  BY DEF GraphType, Nodes, Positions
<1>2. IsFiniteSet(Positions(g))
  BY <1>1, FS_Interval DEF Positions
<1>3. f \in Surjection(Positions(g), T)
  BY DEF Surjection
<1>4. IsFiniteSet(T)
  <2> HIDE DEF f, T
  <2> QED BY <1>2, <1>3, FS_Surjection
<1>5. ASSUME NEW i \in Positions(g) PROVE IsFiniteSet(f[i])
  <2>1. IsFiniteSet({i})
    BY FS_Singleton
  <2>2. \A n \in Nat : IsFiniteSet(1..n)
    BY FS_Interval
  <2>3. IsFiniteSet(1..Len(g.nodes[i].dependsOn))
    BY <1>1, <2>2
  <2> QED BY <2>1, <2>3, FS_Product
<1>6. IsFiniteSet(UNION T)
  <2>1. \A t \in T : IsFiniteSet(t)
    BY <1>5
  <2> HIDE DEF T
  <2> QED BY <1>4, <2>1, FS_UNION
<1>7. UNION T = Entries(g)
  BY DEF Entries
<1> QED BY <1>6, <1>7

(* The same for the edges of one task.                                     *)
LEMMA EdgesFinite ==
  ASSUME NEW g \in GraphType, NEW id
  PROVE  IsFiniteSet(Edges(g, id))
BY EntriesFinite, FS_Subset DEF Edges

(* A subset of the edges has as many members as it has, and none only if   *)
(* it is empty.                                                            *)
LEMMA CountType ==
  ASSUME NEW g \in GraphType, NEW id, NEW S \in SUBSET Edges(g, id)
  PROVE  /\ IsFiniteSet(S)
         /\ Cardinality(S) \in Nat
         /\ Cardinality(S) = 0 <=> S = {}
<1>1. IsFiniteSet(S)
  BY EdgesFinite, FS_Subset
<1> QED BY <1>1, FS_CardinalityType, FS_EmptySet

(* What a list of different ids has is as much as it is long.              *)
LEMMA ListedCount ==
  ASSUME NEW I, NEW o \in Seq(I), \A i, j \in 1..Len(o) : o[i] = o[j] => i = j
  PROVE  IsFiniteSet(Listed(o)) /\ Cardinality(Listed(o)) = Len(o)
<1>1. Len(o) \in Nat /\ DOMAIN o = 1..Len(o)
  OBVIOUS
<1>2. o \in Bijection(1..Len(o), Listed(o))
  <2>1. o \in [1..Len(o) -> Listed(o)]
    BY <1>1 DEF Listed
  <2> QED BY <2>1 DEF Bijection, Injection, Surjection, Listed, IsInjective
<1>3. ExistsBijection(1..Len(o), Listed(o))
  BY <1>2 DEF ExistsBijection
<1> QED BY <1>1, <1>3, FS_CountingElements, FS_NatBijection

(* Ids are as many as nodes exactly if no two nodes share one.             *)
LEMMA IdsCount ==
  ASSUME NEW g \in GraphType
  PROVE  /\ IsFiniteSet(Ids(g))
         /\ Cardinality(Ids(g)) = Len(g.nodes)
              <=> \A i, j \in Positions(g) : g.nodes[i].id = g.nodes[j].id => i = j
<1> DEFINE f == [i \in Positions(g) |-> g.nodes[i].id]
<1>1. Len(g.nodes) \in Nat
  BY DEF GraphType
<1>2. IsFiniteSet(Positions(g)) /\ Cardinality(Positions(g)) = Len(g.nodes)
  BY <1>1, FS_Interval DEF Positions
<1>3. f \in Surjection(Positions(g), Ids(g))
  BY DEF Surjection, Ids
<1>4. f \in Injection(Positions(g), Ids(g))
        <=> \A i, j \in Positions(g) : g.nodes[i].id = g.nodes[j].id => i = j
  BY <1>3 DEF Surjection, Injection, IsInjective
<1>5. /\ IsFiniteSet(Ids(g))
      /\ Cardinality(Ids(g)) = Cardinality(Positions(g))
           <=> f \in Injection(Positions(g), Ids(g))
  <2> HIDE DEF f
  <2> QED BY <1>2, <1>3, FS_Surjection
<1> QED BY <1>2, <1>4, <1>5

(* An id depends on the others its edges come from.                        *)
LEMMA OthersAreEdges ==
  ASSUME NEW id
  PROVE  Others(id) = {Dependency(graph, e) : e \in Edges(graph, id)}
BY DEF Others, DependsOn, Edges
-----------------------------------------------------------------------------
(* Each part of the invariant holds before anything is taken.              *)
LEMMA InitInv == Init => IInv
<1> SUFFICES ASSUME Init PROVE IInv
  OBVIOUS
<1> USE DEF Init
<1>1. graph \in GraphType
  BY GraphsAssumption DEF GraphType
<1>2. Listed(order) = {}
  BY DEF Listed
<1>3. \A id \in Ids(graph) : indegree[id] \in Nat
  <2> TAKE id \in Ids(graph)
  <2>1. Cardinality(Edges(graph, id)) \in Nat
    BY <1>1, CountType
  <2> QED BY <2>1
<1>4. TypeOK
  BY <1>1, <1>3 DEF TypeOK, GraphType
<1>5. CountsAreRight
  BY <1>2 DEF CountsAreRight, OpenEdges
<1>6. QueueIsRight
  BY <1>2 DEF QueueIsRight
<1>7. TakenOnce /\ TakenInOrder
  BY DEF TakenOnce, TakenInOrder
<1>8. TakenAcyclic /\ NoneEmpty
  BY <1>2 DEF TakenAcyclic, NoneEmpty
<1> QED BY <1>4, <1>5, <1>6, <1>7, <1>8 DEF IInv, VerdictIsFinal

(* What a task of the queue waits for has been taken.                      *)
LEMMA QueuedIsFree ==
  ASSUME IInv, NEW id \in queue
  PROVE  /\ id \in Ids(graph) \ Listed(order)
         /\ OpenEdges(id) = {}
         /\ Others(id) \subseteq Listed(order)
<1>1. id \in Ids(graph) \ Listed(order) /\ indegree[id] = 0
  BY DEF IInv, QueueIsRight
<1>2. Cardinality(OpenEdges(id)) = 0
  BY <1>1 DEF IInv, CountsAreRight
<1>3. graph \in GraphType /\ OpenEdges(id) \in SUBSET Edges(graph, id)
  BY DEF IInv, TypeOK, GraphType, OpenEdges
<1>4. OpenEdges(id) = {}
  BY <1>2, <1>3, CountType
<1>5. Others(id) \subseteq Listed(order)
  BY <1>4, OthersAreEdges DEF OpenEdges
<1> QED BY <1>1, <1>4, <1>5

(* A taken task waits for no task that has not been taken.                 *)
LEMMA TakenIsClosed ==
  ASSUME IInv, NEW id \in Listed(order)
  PROVE  Others(id) \subseteq Listed(order)
<1>1. PICK n \in 1..Len(order) : order[n] = id
  BY DEF Listed
<1>2. Others(id) \subseteq {order[i] : i \in 1..(n - 1)}
  BY <1>1 DEF IInv, TakenInOrder
<1>3. Len(order) \in Nat
  BY DEF IInv, TypeOK
<1> QED BY <1>2, <1>3 DEF Listed

(* Taking a task closes the edges to it and keeps the rest (the loop over  *)
(* the outgoing edges); the new task waits for earlier ones only.          *)
LEMMA TakeInv ==
  ASSUME NEW id \in queue
  PROVE  IInv /\ Take(id) => IInv'
<1> SUFFICES ASSUME IInv, Take(id) PROVE IInv'
  OBVIOUS
<1> DEFINE Closed(x) == {e \in Edges(graph, x) : Dependency(graph, e) = id}
<1> USE DEF Take
<1>1. /\ graph \in GraphType /\ graph' = graph
      /\ order \in Seq(Ids(graph)) /\ Len(order) \in Nat
      /\ indegree \in [Ids(graph) -> Nat] /\ queue \subseteq Ids(graph)
  BY DEF IInv, TypeOK, GraphType
<1>2. /\ id \in Ids(graph) \ Listed(order)
      /\ OpenEdges(id) = {}
      /\ Others(id) \subseteq Listed(order)
  BY QueuedIsFree
<1>3. /\ order' \in Seq(Ids(graph)) /\ Len(order') = Len(order) + 1
      /\ order'[Len(order) + 1] = id
      /\ \A n \in 1..Len(order) : order'[n] = order[n]
  BY <1>1, <1>2
<1>4. Listed(order') = Listed(order) \cup {id}
  <2>1. 1..Len(order') = (1..Len(order)) \cup {Len(order) + 1}
    BY <1>1, <1>3
  <2> QED BY <1>3, <2>1 DEF Listed
<1>5. ASSUME NEW x \in Ids(graph)
      PROVE  /\ OpenEdges(x)' = OpenEdges(x) \ Closed(x)
             /\ Closed(x) \subseteq OpenEdges(x)
             /\ indegree'[x] = Cardinality(OpenEdges(x)')
             /\ indegree'[x] \in Nat
  <2>1. OpenEdges(x)' = OpenEdges(x) \ Closed(x)
    BY <1>1, <1>4 DEF OpenEdges
  <2>2. Closed(x) \subseteq OpenEdges(x)
    BY <1>2 DEF OpenEdges
  <2>3. /\ OpenEdges(x) \in SUBSET Edges(graph, x)
        /\ OpenEdges(x) \ Closed(x) \in SUBSET Edges(graph, x)
    BY DEF OpenEdges
  <2>4. IsFiniteSet(OpenEdges(x)) /\ Cardinality(OpenEdges(x) \ Closed(x)) \in Nat
    <3> HIDE DEF Closed
    <3> QED BY <1>1, <2>3, CountType
  <2>5. OpenEdges(x) \cap Closed(x) = Closed(x)
    BY <2>2
  <2>6. Cardinality(OpenEdges(x) \ Closed(x)) = Cardinality(OpenEdges(x)) - Cardinality(Closed(x))
    <3> HIDE DEF Closed
    <3> QED BY <2>4, <2>5, FS_Difference
  <2>7. indegree'[x] = indegree[x] - Cardinality(Closed(x))
    BY <1>1
  <2>8. indegree[x] = Cardinality(OpenEdges(x))
    BY DEF IInv, CountsAreRight
  <2> HIDE DEF Closed
  <2> QED BY <2>1, <2>2, <2>4, <2>6, <2>7, <2>8
<1>6. TypeOK'
  <2>1. indegree' \in [Ids(graph) -> Nat]
    BY <1>5
  <2>2. queue' \subseteq Ids(graph)
    BY <1>1
  <2> QED BY <1>1, <1>3, <2>1, <2>2 DEF TypeOK, GraphType, IInv
<1>7. CountsAreRight'
  BY <1>1, <1>5 DEF CountsAreRight
<1>8. QueueIsRight'
  <2>1. ASSUME NEW x \in queue'
        PROVE  x \in Ids(graph) /\ indegree'[x] = 0 /\ x \notin Listed(order')
    <3>1. CASE x \in queue \ {id}
      <4>1. x \in Ids(graph) \ Listed(order) /\ OpenEdges(x) = {}
        BY <3>1, QueuedIsFree
      <4>2. OpenEdges(x)' = {}
        BY <1>5, <4>1
      <4> QED BY <1>4, <1>5, <3>1, <4>1, <4>2, FS_EmptySet
    <3>2. CASE /\ x \in Ids(graph) /\ indegree'[x] = 0
               /\ \E e \in Edges(graph, x) : Dependency(graph, e) = id
      <4>1. id \in Others(x)
        BY <3>2, OthersAreEdges
      <4>2. x \notin Listed(order)
        BY <1>2, <4>1, TakenIsClosed
      <4>3. x # id
        BY <4>1 DEF Others
      <4> QED BY <1>4, <3>2, <4>2, <4>3
    <3> QED BY <3>1, <3>2
  <2>2. ASSUME NEW x \in Ids(graph), indegree'[x] = 0, x \notin Listed(order')
        PROVE  x \in queue'
    <3>1. CASE Closed(x) = {}
      <4>1. OpenEdges(x)' = OpenEdges(x)
        BY <1>5, <3>1
      <4>2. indegree[x] = 0
        BY <1>5, <2>2, <4>1 DEF IInv, CountsAreRight
      <4>3. x \in queue /\ x # id
        BY <1>4, <2>2, <4>2 DEF IInv, QueueIsRight
      <4> QED BY <4>3
    <3>2. CASE Closed(x) # {}
      BY <2>2, <3>2
    <3> QED BY <3>1, <3>2
  <2> QED BY <1>1, <2>1, <2>2 DEF QueueIsRight
<1>9. TakenOnce'
  <2>1. \A n \in 1..Len(order) : order[n] # id
    BY <1>2 DEF Listed
  <2> QED BY <1>1, <1>3, <2>1 DEF IInv, TakenOnce
<1>10. TakenInOrder'
  <2> SUFFICES ASSUME NEW n \in 1..(Len(order) + 1)
               PROVE  Others(order'[n]) \subseteq {order'[i] : i \in 1..(n - 1)}
    BY <1>1, <1>3 DEF TakenInOrder, Others
  <2>1. CASE n = Len(order) + 1
    <3>1. Listed(order) = {order'[i] : i \in 1..(n - 1)}
      BY <1>1, <1>3, <2>1 DEF Listed
    <3> QED BY <1>2, <1>3, <2>1, <3>1
  <2>2. CASE n # Len(order) + 1
    <3>1. n \in 1..Len(order) /\ order'[n] = order[n]
      BY <1>1, <1>3, <2>2
    <3>2. {order'[i] : i \in 1..(n - 1)} = {order[i] : i \in 1..(n - 1)}
      BY <1>1, <1>3, <3>1
    <3> QED BY <3>1, <3>2 DEF IInv, TakenInOrder
  <2> QED BY <2>1, <2>2
<1>11. TakenAcyclic'
  <2> SUFFICES ASSUME NEW S \in SUBSET (Listed(order) \cup {id}), S # {}
               PROVE  \E x \in S : Others(x) \cap S = {}
    BY <1>1, <1>4 DEF TakenAcyclic, Others
  <2>1. CASE S \subseteq {id}
    BY <2>1 DEF Others
  <2>2. CASE ~ (S \subseteq {id})
    <3>1. S \ {id} \in SUBSET Listed(order) /\ S \ {id} # {}
      BY <2>2
    <3>2. PICK x \in S \ {id} : Others(x) \cap (S \ {id}) = {}
      BY <3>1 DEF IInv, TakenAcyclic
    <3>3. id \notin Others(x)
      BY <1>2, <3>1, TakenIsClosed
    <3> QED BY <3>2, <3>3
  <2> QED BY <2>1, <2>2
<1>12. NoneEmpty'
  BY <1>4 DEF IInv, NoneEmpty
<1>13. VerdictIsFinal'
  BY DEF VerdictIsFinal
<1> QED BY <1>6, <1>7, <1>8, <1>9, <1>10, <1>11, <1>12, <1>13 DEF IInv

(* Every step of the validation keeps the invariant.                       *)
LEMMA NextInv == IInv /\ [Next]_vars => IInv'
<1> SUFFICES ASSUME IInv, [Next]_vars PROVE IInv'
  OBVIOUS
<1>1. CASE \E id \in queue : Take(id)
  BY <1>1, TakeInv
<1>2. CASE Conclude
  <2>1. UNCHANGED <<graph, indegree, queue, order>> /\ verdict' \in {"valid", "invalid"}
    BY <1>2 DEF Conclude
  <2>2. TypeOK'
    BY <2>1 DEF IInv, TypeOK
  <2>3. CountsAreRight' /\ QueueIsRight'
    BY <2>1 DEF IInv, CountsAreRight, QueueIsRight, OpenEdges
  <2>4. TakenOnce' /\ TakenInOrder' /\ TakenAcyclic' /\ NoneEmpty'
    BY <2>1 DEF IInv, TakenOnce, TakenInOrder, TakenAcyclic, NoneEmpty, Others
  <2>5. VerdictIsFinal'
    BY <1>2 DEF Conclude, VerdictIsFinal, Least
  <2> QED BY <2>2, <2>3, <2>4, <2>5 DEF IInv
<1>3. CASE UNCHANGED vars
  BY <1>3 DEF vars, IInv, TypeOK, CountsAreRight, QueueIsRight, TakenOnce, TakenInOrder,
     TakenAcyclic, NoneEmpty, VerdictIsFinal, OpenEdges, Others, Least
<1> QED BY <1>1, <1>2, <1>3 DEF Next

(* The counts, the queue and the order belong together at every moment.    *)
THEOREM Invariant == Spec => []IInv
BY InitInv, NextInv, PTL DEF Spec

(* The variables have their types; no count falls below zero.              *)
THEOREM GraphTypes == Spec => []TypeOK
<1>1. IInv => TypeOK
  BY DEF IInv
<1> QED BY <1>1, Invariant, PTL
-----------------------------------------------------------------------------
(* A valid graph is sound.                                                 *)
LEMMA ValidIsSound ==
  ASSUME IInv, ~Faulty(graph), Len(order) = Len(graph.nodes)
  PROVE  Sound(graph) /\ Listed(order) = Ids(graph)
<1>1. graph \in GraphType /\ order \in Seq(Ids(graph)) /\ TakenOnce
  BY DEF IInv, TypeOK, GraphType
<1>2. \A i, j \in Positions(graph) : graph.nodes[i].id = graph.nodes[j].id => i = j
  BY DEF Faulty
<1>3. IsFiniteSet(Ids(graph)) /\ Cardinality(Ids(graph)) = Len(graph.nodes)
  BY <1>1, <1>2, IdsCount
<1>4. Cardinality(Listed(order)) = Cardinality(Ids(graph))
  BY <1>1, <1>3, ListedCount DEF TakenOnce
<1>5. Listed(order) \in SUBSET Ids(graph)
  BY <1>1 DEF Listed
<1>6. Listed(order) = Ids(graph)
  BY <1>3, <1>4, <1>5, FS_Subset
<1>7. \A id \in Ids(graph) : DependsOn(graph, id) \subseteq Ids(graph) \ {id}
  BY DEF Faulty, DependsOn
<1>8. \A id \in Ids(graph) : Others(id) = DependsOn(graph, id)
  BY <1>7 DEF Others
<1>9. Acyclic(graph)
  BY <1>6, <1>8 DEF IInv, TakenAcyclic, Acyclic
<1>10. EmptyId \notin Ids(graph)
  BY <1>6 DEF IInv, NoneEmpty
<1>11. graph.dated /\ \A i \in Positions(graph) : graph.nodes[i].own
  BY DEF Faulty
<1> QED BY <1>3, <1>6, <1>7, <1>9, <1>10, <1>11 DEF Sound

(* A sound graph passes.                                                   *)
LEMMA SoundIsValid ==
  ASSUME IInv, Sound(graph), queue = {} \/ Least(EmptyId)
  PROVE  ~Faulty(graph) /\ Len(order) = Len(graph.nodes)
<1>1. graph \in GraphType /\ order \in Seq(Ids(graph)) /\ TakenOnce /\ queue \subseteq Ids(graph)
  BY DEF IInv, TypeOK, GraphType
<1>2. \A i, j \in Positions(graph) : graph.nodes[i].id = graph.nodes[j].id => i = j
  BY <1>1, IdsCount DEF Sound
<1>3. ASSUME NEW id \in Ids(graph) PROVE DependsOn(graph, id) \subseteq Ids(graph) \ {id}
  <2>1. {id} \in SUBSET Ids(graph) /\ {id} # {}
    OBVIOUS
  <2>2. DependsOn(graph, id) \cap {id} = {}
    BY <2>1 DEF Sound, Acyclic
  <2> QED BY <2>2 DEF Sound
<1>4. ~Faulty(graph)
  <2>1. ASSUME NEW e \in Entries(graph)
        PROVE  Dependency(graph, e) \in Ids(graph) \ {graph.nodes[e[1]].id}
    <3>1. e[1] \in Positions(graph)
      BY DEF Entries
    <3>2. graph.nodes[e[1]].id \in Ids(graph)
      BY <3>1 DEF Ids
    <3>3. Dependency(graph, e) \in DependsOn(graph, graph.nodes[e[1]].id)
      BY DEF DependsOn
    <3> QED BY <1>3, <3>2, <3>3
  <2> QED BY <1>2, <2>1 DEF Faulty, Sound
<1>5. queue = {}
  BY <1>1 DEF Sound, Least
<1>6. Ids(graph) \ Listed(order) = {}
  <2> DEFINE S == Ids(graph) \ Listed(order)
  <2> SUFFICES ASSUME S # {} PROVE FALSE
    OBVIOUS
  <2>1. PICK id \in S : DependsOn(graph, id) \cap S = {}
    BY DEF Sound, Acyclic
  <2>2. Others(id) \subseteq Listed(order)
    BY <2>1 DEF Others
  <2>3. OpenEdges(id) = {}
    BY <2>2, OthersAreEdges DEF OpenEdges
  <2>4. indegree[id] = 0
    BY <2>3, FS_EmptySet DEF IInv, CountsAreRight
  <2> QED BY <1>5, <2>4 DEF IInv, QueueIsRight
<1>7. Listed(order) = Ids(graph)
  BY <1>1, <1>6 DEF Listed
<1>8. Len(order) = Cardinality(Ids(graph))
  BY <1>1, <1>7, ListedCount DEF TakenOnce
<1> QED BY <1>4, <1>8 DEF Sound

(* For every graph: it passes exactly if it is sound (validateTaskGraph).  *)
THEOREM Verdicts == Spec => []VerdictIsRight
<1>1. IInv => VerdictIsRight
  <2> SUFFICES ASSUME IInv, verdict # "none" PROVE verdict = "valid" <=> Sound(graph)
    BY DEF VerdictIsRight
  <2>1. /\ queue = {} \/ Least(EmptyId)
        /\ verdict = "valid" <=> ~Faulty(graph) /\ Len(order) = Len(graph.nodes)
    BY DEF IInv, VerdictIsFinal
  <2> QED BY <2>1, ValidIsSound, SoundIsValid
<1> QED BY <1>1, Invariant, PTL

(* For every graph: no task is ordered before one it depends on, none is   *)
(* ordered twice, and a graph that passes has them all in its order.       *)
THEOREM Runnable == Spec => []OrderIsRunnable
<1>1. IInv => OrderIsRunnable
  <2> SUFFICES ASSUME IInv PROVE OrderIsRunnable
    OBVIOUS
  <2>1. TakenOnce /\ TakenInOrder
    BY DEF IInv
  <2>2. verdict = "valid" => Listed(order) = Ids(graph)
    BY ValidIsSound DEF IInv, VerdictIsFinal
  <2> QED BY <2>1, <2>2 DEF OrderIsRunnable, TakenOnce, TakenInOrder, Others
<1> QED BY <1>1, Invariant, PTL

-----------------------------------------------------------------------------
(* Write scopes.                                                           *)

(* The lists hold declared scopes, which are sequences of segments.        *)
ListsTyped == left \in Seq(Scopes) /\ right \in Seq(Scopes)

LEMMA ListsTypedHolds == ScopesSpec => []ListsTyped
<1>1. ScopesInit => ListsTyped
  BY DEF ScopesInit, ListsTyped
<1>2. ListsTyped /\ [ScopesNext]_<<left, right>> => ListsTyped'
  <2> SUFFICES ASSUME ListsTyped, [ScopesNext]_<<left, right>> PROVE ListsTyped'
    OBVIOUS
  <2>1. ASSUME NEW scope \in Scopes, DeclareLeft(scope) PROVE ListsTyped'
    BY <2>1 DEF ListsTyped, DeclareLeft
  <2>2. ASSUME NEW scope \in Scopes, DeclareRight(scope) PROVE ListsTyped'
    BY <2>2 DEF ListsTyped, DeclareRight
  <2>3. CASE UNCHANGED <<left, right>>
    BY <2>3 DEF ListsTyped
  <2> QED BY <2>1, <2>2, <2>3 DEF ScopesNext
<1> QED BY <1>1, <1>2, PTL DEF ScopesSpec

(* In conservative mode lists conflict if one is empty, or some pair of    *)
(* their scopes is unknown or meets.                                       *)
LEMMA Conservative ==
  ASSUME NEW l, NEW r
  PROVE  Conflict(l, r, TRUE) <=>
           \/ l = <<>> \/ r = <<>>
           \/ \E i \in 1..Len(l), j \in 1..Len(r) :
                \/ Unknown(l[i]) \/ Unknown(r[j])
                \/ Meet(ScopePrefix(l[i]), ScopePrefix(r[j]))
<1> DEFINE pairs == (1..Len(l)) \X (1..Len(r))
           clash(i, j) == \/ Unknown(l[i]) \/ Unknown(r[j])
                          \/ Meet(ScopePrefix(l[i]), ScopePrefix(r[j]))
<1>1. Conflict(l, r, TRUE) <=> (l = <<>> \/ r = <<>> \/ \E a \in pairs : clash(a[1], a[2]))
  BY Zenon DEF Conflict
<1>2. (\E a \in pairs : clash(a[1], a[2])) <=> (\E i \in 1..Len(l), j \in 1..Len(r) : clash(i, j))
  <2> HIDE DEF clash
  <2>1. ASSUME NEW a \in pairs, clash(a[1], a[2])
        PROVE  \E i \in 1..Len(l), j \in 1..Len(r) : clash(i, j)
    BY <2>1
  <2>2. ASSUME NEW i \in 1..Len(l), NEW j \in 1..Len(r), clash(i, j)
        PROVE  \E a \in pairs : clash(a[1], a[2])
    <3>1. <<i, j>> \in pairs /\ <<i, j>>[1] = i /\ <<i, j>>[2] = j
      OBVIOUS
    <3> QED BY <2>2, <3>1
  <2> QED BY <2>1, <2>2
<1> QED BY <1>1, <1>2

(* So the verdict treats both lists alike, since Meet does.                *)
LEMMA SymmetricConflict ==
  ASSUME NEW l, NEW r
  PROVE  Conflict(l, r, TRUE) = Conflict(r, l, TRUE)
<1> DEFINE clash(a, b) == Unknown(a) \/ Unknown(b) \/ Meet(ScopePrefix(a), ScopePrefix(b))
<1>1. ASSUME NEW a, NEW b PROVE clash(a, b) <=> clash(b, a)
  BY DEF Meet
<1>2. /\ Conflict(l, r, TRUE) <=>
           (l = <<>> \/ r = <<>> \/ \E i \in 1..Len(l), j \in 1..Len(r) : clash(l[i], r[j]))
      /\ Conflict(r, l, TRUE) <=>
           (r = <<>> \/ l = <<>> \/ \E j \in 1..Len(r), i \in 1..Len(l) : clash(r[j], l[i]))
  BY Conservative
<1> HIDE DEF clash
<1>3. Conflict(l, r, TRUE) <=> Conflict(r, l, TRUE)
  BY <1>1, <1>2
<1>4. \A p, q : Conflict(p, q, TRUE) = TRUE \/ Conflict(p, q, TRUE) = FALSE
  BY Zenon DEF Conflict
<1>5. CASE Conflict(l, r, TRUE)
  BY <1>3, <1>4, <1>5, Zenon
<1>6. CASE ~Conflict(l, r, TRUE)
  BY <1>3, <1>4, <1>6, Zenon
<1> QED BY <1>5, <1>6

(* Whichever of two tasks runs and whichever waits, the verdict is the     *)
(* same in conservative mode.                                              *)
THEOREM Symmetric == ScopesSpec => []ConflictIsSymmetric
<1>1. ConflictIsSymmetric
  BY SymmetricConflict DEF ConflictIsSymmetric
<1> QED BY <1>1, PTL

(* A set of numbers that is not empty has a least element.                 *)
LEMMA SmallestNat ==
  ASSUME NEW S \in SUBSET Nat, S # {}
  PROVE  \E m \in S : \A n \in S : m <= n
<1>1. PICK m \in S : \A n \in S : ~(<<n, m>> \in OpToRel(<, Nat))
  BY NatLessThanWellFounded, WFMin
<1>2. ASSUME NEW n \in S PROVE m <= n
  <2>1. n \in Nat /\ m \in Nat
    OBVIOUS
  <2>2. n < m => <<n, m>> \in OpToRel(<, Nat)
    BY <2>1, Zenon DEF OpToRel
  <2>3. ~(n < m)
    BY <1>1, <2>2
  <2> QED BY <2>1, <2>3
<1> QED BY <1>2

(* Before its first wildcard a glob names directories one by one: each cut *)
(* of a path takes a single name for each of these segments.               *)
LEMMA NamesOneByOne ==
  ASSUME NEW scope \in Seq(Segments), NEW path \in Seq(Names),
         NEW cut \in Cuts(scope, path), NEW n \in 0..Len(scope),
         \A i \in 1..n : scope[i].kind = "name"
  PROVE  /\ n <= Len(path)
         /\ \A i \in 1..n : path[i] = scope[i].lit
<1> DEFINE off == {i \in 0..n : cut[i] # i}
<1>1. /\ Len(scope) \in Nat /\ Len(path) \in Nat
      /\ cut \in [0..Len(scope) -> 0..Len(path)] /\ cut[0] = 0
      /\ \A i \in 1..n : cut[i] = cut[i - 1] + 1 /\ SegmentMatches(scope[i], path[cut[i]])
  BY DEF Cuts
<1>2. off = {}
  <2> SUFFICES ASSUME off # {} PROVE FALSE
    OBVIOUS
  <2>1. PICK m \in off : \A i \in off : m <= i
    <3>1. off \in SUBSET Nat
      BY <1>1
    <3> QED BY <3>1, SmallestNat
  <2>2. m \in 1..n /\ m - 1 \in 0..n /\ m - 1 \notin off
    BY <1>1, <2>1
  <2>3. cut[m - 1] = m - 1 /\ cut[m] = cut[m - 1] + 1
    BY <1>1, <2>2
  <2> QED BY <2>1, <2>2, <2>3
<1>3. cut[n] = n /\ cut[n] \in 0..Len(path)
  BY <1>1, <1>2
<1>4. ASSUME NEW i \in 1..n PROVE path[i] = scope[i].lit
  <2>1. cut[i] = i
    BY <1>1, <1>2
  <2> QED BY <1>1, <2>1 DEF SegmentMatches
<1> QED BY <1>1, <1>3, <1>4

(* Kinds and literals.                                                     *)
LEMMA SegmentFacts ==
  ASSUME NEW s \in Segments
  PROVE  /\ s.kind = "name" => s.lit # Empty
         /\ s.kind # "name" /\ s.lit = Empty => s = Deep \/ s = Star(Empty)
  BY NamesAssumption DEF Segments, Name, Star, Deep

(* The prefix of an aligned scope that is not unknown: at least one name,  *)
(* and every file of the scope begins with these names.                    *)
LEMMA AlignedPrefix ==
  ASSUME NEW scope \in Seq(Segments), Aligned(scope), ~Unknown(scope)
  PROVE  \E n \in 1..Len(scope) :
           /\ ScopePrefix(scope) = [i \in 1..n |-> scope[i].lit]
           /\ \A i \in 1..n : scope[i].kind = "name"
<1> DEFINE W == Wildcards(scope)
           first == CHOOSE i \in W : \A j \in W : i <= j
<1>1. Len(scope) \in Nat /\ \A i \in 1..Len(scope) : scope[i] \in Segments
  OBVIOUS
<1>2. Len(scope) > 0
  BY <1>1 DEF Unknown
<1>3. CASE W = {}
  <2>1. \A i \in 1..Len(scope) : scope[i].kind = "name"
    BY <1>3 DEF Wildcards
  <2>2. scope[Len(scope)].lit # Empty
    BY <1>1, <1>2, <2>1, SegmentFacts
  <2>3. ScopePrefix(scope) = [i \in 1..Len(scope) |-> scope[i].lit]
    BY <1>3, <2>2 DEF ScopePrefix
  <2> QED BY <1>1, <1>2, <2>1, <2>3
<1>4. CASE W # {}
  <2>1. W \in SUBSET Nat /\ W \in SUBSET (1..Len(scope))
    BY DEF Wildcards
  <2>2. \E i \in W : \A j \in W : i <= j
    BY <1>4, <2>1, SmallestNat
  <2>3. first \in W /\ \A j \in W : first <= j
    BY <2>2
  <2> HIDE DEF first
  <2>4. scope[first].kind # "name" /\ first \in 1..Len(scope)
    BY <2>3 DEF Wildcards
  <2>5. ~(Len(scope) = 1 /\ scope[1].lit = Empty)
    <3> SUFFICES ASSUME Len(scope) = 1, scope[1].lit = Empty PROVE FALSE
      OBVIOUS
    <3>1. scope = <<scope[1]>> /\ scope[1] \in Segments
      BY <1>1
    <3>2. first = 1
      BY <2>4
    <3>3. scope[1] = Deep \/ scope[1] = Star(Empty)
      BY <2>4, <3>1, <3>2, SegmentFacts
    <3> QED BY <3>1, <3>3 DEF Unknown
  <2>6. first > 1 /\ scope[first].lit = Empty
    BY <2>3, <2>5 DEF Aligned
  <2>7. ScopePrefix(scope) = [i \in 1..(first - 1) |-> scope[i].lit]
    BY <1>4, <2>6 DEF ScopePrefix, first
  <2>8. \A i \in 1..(first - 1) : scope[i].kind = "name"
    BY <1>1, <2>3, <2>4 DEF Wildcards
  <2>9. first - 1 \in 1..Len(scope)
    BY <1>1, <2>4, <2>6
  <2> QED BY <2>7, <2>8, <2>9
<1> QED BY <1>3, <1>4

(* Of two prefixes of one path, neither of them empty, one begins the      *)
(* other.                                                                  *)
LEMMA PrefixesMeet ==
  ASSUME NEW p, NEW q, NEW path, NEW m \in Nat \ {0}, NEW n \in Nat \ {0},
         p = [i \in 1..m |-> path[i]], q = [i \in 1..n |-> path[i]]
  PROVE  Meet(p, q)
<1>1. Len(p) = m /\ Len(q) = n /\ p # <<>> /\ q # <<>>
  OBVIOUS
<1>2. CASE m <= n
  <2>1. SubSeq(p, 1, m) = SubSeq(q, 1, m)
    BY <1>2
  <2> QED BY <1>1, <1>2, <2>1 DEF Meet, IsPrefix
<1>3. CASE n <= m
  <2>1. SubSeq(q, 1, n) = SubSeq(p, 1, n)
    BY <1>3
  <2> QED BY <1>1, <1>3, <2>1 DEF Meet, IsPrefix
<1> QED BY <1>2, <1>3

(* Scopes whose wildcards start a segment below a literal one never        *)
(* overlap unnoticed, however long they are and whatever they match.       *)
THEOREM OverlapNoticed == ScopesSpec => []AlignedOverlapConflicts
<1>1. ListsTyped => AlignedOverlapConflicts
  <2> SUFFICES ASSUME ListsTyped,
                      \A i \in 1..Len(left) : Aligned(left[i]),
                      \A i \in 1..Len(right) : Aligned(right[i]),
                      Overlap(left, right)
               PROVE  Conflict(left, right, TRUE)
    BY DEF AlignedOverlapConflicts, OverlapConflicts
  <2>1. PICK i \in 1..Len(left), j \in 1..Len(right) : Files[left[i]] \cap Files[right[j]] # {}
    BY DEF Overlap
  <2>2. left[i] \in Scopes /\ right[j] \in Scopes
    BY DEF ListsTyped
  <2>3. PICK path \in Paths : Cuts(left[i], path) # {} /\ Cuts(right[j], path) # {}
    BY <2>1, <2>2 DEF Files
  <2>4. left[i] \in Seq(Segments) /\ right[j] \in Seq(Segments) /\ path \in Seq(Names)
    BY <2>2, ScopesAssumption
  <2>5. CASE Unknown(left[i]) \/ Unknown(right[j])
    BY <2>5, Conservative
  <2>6. CASE ~(Unknown(left[i]) \/ Unknown(right[j]))
    <3>1. PICK m \in 1..Len(left[i]) :
            /\ ScopePrefix(left[i]) = [k \in 1..m |-> left[i][k].lit]
            /\ \A k \in 1..m : left[i][k].kind = "name"
      BY <2>4, <2>6, AlignedPrefix
    <3>2. PICK n \in 1..Len(right[j]) :
            /\ ScopePrefix(right[j]) = [k \in 1..n |-> right[j][k].lit]
            /\ \A k \in 1..n : right[j][k].kind = "name"
      BY <2>4, <2>6, AlignedPrefix
    <3>3. m \in Nat \ {0} /\ m \in 0..Len(left[i]) /\ n \in Nat \ {0} /\ n \in 0..Len(right[j])
      BY <2>4
    <3>4. \A k \in 1..m : path[k] = left[i][k].lit
      BY <2>3, <2>4, <3>1, <3>3, NamesOneByOne
    <3>5. \A k \in 1..n : path[k] = right[j][k].lit
      BY <2>3, <2>4, <3>2, <3>3, NamesOneByOne
    <3>6. /\ ScopePrefix(left[i]) = [k \in 1..m |-> path[k]]
          /\ ScopePrefix(right[j]) = [k \in 1..n |-> path[k]]
      BY <3>1, <3>2, <3>4, <3>5
    <3>7. Meet(ScopePrefix(left[i]), ScopePrefix(right[j]))
      BY <3>3, <3>6, PrefixesMeet
    <3> QED BY <3>7, Conservative
  <2> QED BY <2>5, <2>6
<1> QED BY <1>1, ListsTypedHolds, PTL

-----------------------------------------------------------------------------
(* Routes.                                                                 *)

CandidateType ==
  [id : Int, fit : BOOLEAN, estimate : Int \cup {NoEstimate, BadEstimate},
   efforts : SUBSET Int,
   quota : {NoQuota} \cup [ratio : Int \cup {NoRatio}, expires : Int \cup {Never}],
   headroom : Int, merit : Int]

Distinct(C) == \A c, d \in C : c.id = d.id => c = d

(* The candidates for a task are finitely many, with different ids.        *)
ProposedTyped ==
  proposed \in SUBSET Candidates /\ IsFiniteSet(proposed) /\ Distinct(proposed)

LEMMA ProposedTypedHolds == RoutingSpec => []ProposedTyped
<1>1. RoutingInit => ProposedTyped
  BY FS_EmptySet DEF RoutingInit, ProposedTyped, Distinct
<1>2. ProposedTyped /\ [RoutingNext]_proposed => ProposedTyped'
  <2> SUFFICES ASSUME ProposedTyped, NEW c \in Candidates, Propose(c) PROVE ProposedTyped'
    BY DEF RoutingNext, ProposedTyped
  <2>1. proposed' = proposed \cup {c} /\ \A other \in proposed : other.id < c.id
    BY DEF Propose
  <2>2. IsFiniteSet(proposed')
    BY <2>1, FS_AddElement DEF ProposedTyped
  <2>3. \A d \in Candidates : d.id \in Int
    BY RoutingAssumption
  <2>4. Distinct(proposed')
    BY <2>1, <2>3 DEF ProposedTyped, Distinct
  <2> QED BY <2>1, <2>2, <2>4 DEF ProposedTyped
<1> QED BY <1>1, <1>2, PTL DEF RoutingSpec

(* What a candidate is without an expired quota: the same, in all that a   *)
(* route depends on.                                                       *)
LEMMA ForgottenFacts ==
  ASSUME NEW c \in CandidateType, NEW policy \in Policies
  PROVE  /\ Forgotten(c, policy) \in CandidateType
         /\ Forgotten(c, policy).id = c.id
         /\ Score(Forgotten(c, policy), policy) = Score(c, policy)
         /\ \A task : /\ Rejected(task, Forgotten(c, policy), policy) <=> Rejected(task, c, policy)
                      /\ Normalized(task.effort, Forgotten(c, policy), policy)
                           = Normalized(task.effort, c, policy)
<1> DEFINE f == Forgotten(c, policy)
<1>1. policy.now \in Int
  BY RoutingAssumption
<1>2. /\ f \in CandidateType /\ f.id = c.id /\ f.fit = c.fit /\ f.estimate = c.estimate
      /\ f.efforts = c.efforts /\ f.headroom = c.headroom /\ f.merit = c.merit
  BY DEF Forgotten, CandidateType
<1>3. CASE f = c
  BY <1>3
<1>4. CASE f # c
  <2>1. /\ c.quota # NoQuota /\ c.quota.expires # Never /\ c.quota.expires <= policy.now
        /\ f.quota = NoQuota
    BY <1>4 DEF Forgotten, CandidateType
  <2>2. c.quota.expires \in Int
    BY <2>1 DEF CandidateType
  <2>3. ~Fresh(c, policy) /\ ~Fresh(f, policy)
    BY <1>1, <2>1, <2>2 DEF Fresh
  <2>4. Remaining(c, policy) = Remaining(f, policy)
    BY <2>3 DEF Remaining
  <2> HIDE DEF f
  <2>5. Score(f, policy) = Score(c, policy)
    BY <1>2, <2>4 DEF Score
  <2>6. \A e : Usable(e, f, policy) = Usable(e, c, policy)
    BY <1>2 DEF Usable
  <2>7. ASSUME NEW task
        PROVE  /\ Rejected(task, f, policy) <=> Rejected(task, c, policy)
               /\ Normalized(task.effort, f, policy) = Normalized(task.effort, c, policy)
    BY <1>2, <2>4, <2>6 DEF Rejected, Affordable, Normalized
  <2> QED BY <1>2, <2>5, <2>7 DEF f
<1> QED BY <1>3, <1>4

(* Scores are numbers, and by them and the ids candidates are in order.    *)
LEMMA AheadOrders ==
  ASSUME NEW E \in SUBSET CandidateType, Distinct(E), NEW policy
  PROVE  /\ \A c, d \in E : c # d => Ahead(c, d, policy) \/ Ahead(d, c, policy)
         /\ \A c, d \in E : ~(Ahead(c, d, policy) /\ Ahead(d, c, policy))
         /\ \A b, c, d \in E :
              Ahead(b, c, policy) /\ Ahead(c, d, policy) => Ahead(b, d, policy)
<1>1. ASSUME NEW c \in E PROVE Score(c, policy) \in Int /\ c.id \in Int
  <2>1. c.merit \in Int /\ c.headroom \in Int /\ c.id \in Int
    BY DEF CandidateType
  <2>2. Remaining(c, policy) = NoRatio \/ Remaining(c, policy) \in Int
    BY DEF Remaining, Fresh, CandidateType
  <2> QED BY <2>1, <2>2 DEF Score
<1> QED BY <1>1 DEF Ahead, Distinct

(* Among finitely many candidates one stands before all others: the one    *)
(* that the fewest stand before.                                           *)
LEMMA SomeFirst ==
  ASSUME NEW E \in SUBSET CandidateType, IsFiniteSet(E), Distinct(E), E # {}, NEW policy
  PROVE  \E c \in E : \A other \in E \ {c} : Ahead(c, other, policy)
<1> DEFINE before(c) == {o \in E : Ahead(o, c, policy)}
           counts == {Cardinality(before(c)) : c \in E}
<1>1. \A c \in E : IsFiniteSet(before(c)) /\ Cardinality(before(c)) \in Nat
  BY FS_Subset, FS_CardinalityType
<1>2. counts \in SUBSET Nat /\ counts # {}
  BY <1>1
<1>3. PICK n \in counts : \A m \in counts : n <= m
  <2> HIDE DEF counts
  <2> QED BY <1>2, SmallestNat
<1>4. PICK c \in E : Cardinality(before(c)) = n
  BY <1>3
<1>5. ASSUME NEW other \in E \ {c}, ~Ahead(c, other, policy) PROVE FALSE
  <2>1. Ahead(other, c, policy)
    BY <1>5, AheadOrders
  <2>2. before(other) \in SUBSET before(c)
    BY <2>1, AheadOrders
  <2>3. other \in before(c) /\ other \notin before(other)
    BY <2>1, AheadOrders
  <2>4. Cardinality(before(other)) \in Nat /\ n <= Cardinality(before(other)) /\ n \in Nat
    BY <1>1, <1>3, <1>4
  <2> HIDE DEF before
  <2>5. Cardinality(before(other)) <= n /\ Cardinality(before(other)) # n
    BY <1>1, <1>4, <2>2, <2>3, FS_Subset
  <2> QED BY <2>4, <2>5
<1> QED BY <1>5

Chosen(E, policy) == CHOOSE c \in E : \A other \in E \ {c} : Ahead(c, other, policy)

(* The sort of routeTask has one result.                                   *)
LEMMA ChosenIsFirst ==
  ASSUME NEW E \in SUBSET CandidateType, Distinct(E), NEW policy,
         NEW c \in E, \A other \in E \ {c} : Ahead(c, other, policy)
  PROVE  Chosen(E, policy) = c
<1>1. /\ Chosen(E, policy) \in E
      /\ \A other \in E \ {Chosen(E, policy)} : Ahead(Chosen(E, policy), other, policy)
  BY DEF Chosen
<1> QED BY <1>1, AheadOrders

(* Forgetting the expired quotas of all candidates changes no route.       *)
LEMMA RouteUnchanged ==
  ASSUME NEW C \in SUBSET Candidates, IsFiniteSet(C), Distinct(C),
         NEW task, NEW policy \in Policies
  PROVE  routeTask(task, C, policy)
           = routeTask(task, {Forgotten(c, policy) : c \in C}, policy)
<1> DEFINE f(c) == Forgotten(c, policy)
           D == {f(c) : c \in C}
           E == {c \in C : ~Rejected(task, c, policy)}
           G == {d \in D : ~Rejected(task, d, policy)}
<1>1. C \in SUBSET CandidateType
  BY RoutingAssumption DEF CandidateType
<1>2. /\ \A c \in C : /\ f(c) \in CandidateType /\ f(c).id = c.id
                      /\ Score(f(c), policy) = Score(c, policy)
                      /\ Rejected(task, f(c), policy) <=> Rejected(task, c, policy)
                      /\ Normalized(task.effort, f(c), policy)
                           = Normalized(task.effort, c, policy)
  BY <1>1, ForgottenFacts
<1>3. /\ routeTask(task, C, policy)
           = IF E = {} THEN NoRoute
             ELSE [chosen |-> Chosen(E, policy).id,
                   effort |-> Normalized(task.effort, Chosen(E, policy), policy)]
      /\ routeTask(task, D, policy)
           = IF G = {} THEN NoRoute
             ELSE [chosen |-> Chosen(G, policy).id,
                   effort |-> Normalized(task.effort, Chosen(G, policy), policy)]
  BY Zenon DEF routeTask, Chosen
<1> HIDE DEF f
<1>4. G = {f(c) : c \in E}
  BY <1>2
<1>5. CASE E = {}
  BY <1>3, <1>4, <1>5 DEF f
<1>6. CASE E # {}
  <2>1. E \in SUBSET CandidateType /\ IsFiniteSet(E) /\ Distinct(E)
    BY <1>1, FS_Subset DEF Distinct
  <2>2. G \in SUBSET CandidateType /\ Distinct(G)
    BY <1>2, <1>4, <2>1 DEF Distinct
  <2>3. PICK b \in E : \A other \in E \ {b} : Ahead(b, other, policy)
    <3> HIDE DEF E
    <3> QED BY <1>6, <2>1, SomeFirst
  <2>4. Chosen(E, policy) = b
    <3> HIDE DEF E
    <3> QED BY <2>1, <2>3, ChosenIsFirst
  <2>5. f(b) \in G /\ \A other \in G \ {f(b)} : Ahead(f(b), other, policy)
    <3>1. ASSUME NEW other \in G \ {f(b)} PROVE Ahead(f(b), other, policy)
      <4>1. PICK c \in E : other = f(c) /\ c # b
        BY <1>4
      <4>2. Ahead(b, c, policy)
        BY <2>3, <4>1
      <4> QED BY <1>2, <4>1, <4>2 DEF Ahead
    <3> QED BY <1>4, <3>1
  <2>6. Chosen(G, policy) = f(b)
    <3> HIDE DEF G
    <3> QED BY <2>2, <2>5, ChosenIsFirst
  <2>7. G # {}
    BY <2>5
  <2>8. b \in C
    OBVIOUS
  <2> HIDE DEF E, G
  <2>9. routeTask(task, C, policy)
          = [chosen |-> b.id, effort |-> Normalized(task.effort, b, policy)]
    BY <1>3, <1>6, <2>4
  <2>10. routeTask(task, D, policy)
           = [chosen |-> f(b).id, effort |-> Normalized(task.effort, f(b), policy)]
    BY <1>3, <2>6, <2>7
  <2> QED BY <1>2, <2>8, <2>9, <2>10 DEF f
<1> QED BY <1>5, <1>6

(* A quota that has expired never makes a difference to a route, whatever  *)
(* the candidates are and however many.                                    *)
THEOREM StaleQuotas == RoutingSpec => []StaleQuotaIgnored
<1>1. ProposedTyped => StaleQuotaIgnored
  BY RouteUnchanged DEF ProposedTyped, StaleQuotaIgnored
<1> QED BY <1>1, ProposedTypedHolds, PTL
=============================================================================
