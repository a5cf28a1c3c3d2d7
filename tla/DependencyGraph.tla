--------------------------- MODULE DependencyGraph ---------------------------
(***************************************************************************)
(* DependencyGraph.topologicalSort of RuntimeStateStore.ts (Kahn's         *)
(* algorithm), one iteration of its loop per step, for every dependency    *)
(* map over Nodes.  Its result is the order in which a batch of events     *)
(* is applied; a map with a cycle must be reported, not half sorted.       *)
(***************************************************************************)
EXTENDS Naturals, FiniteSets, Sequences

CONSTANTS
    Nodes,      \* engines of the map (EngineName)
    EntryOrder, \* the order of the entries of the dependency map
    NameOrder   \* the order of queue.sort()

ASSUME DependencyGraphAssumption ==
    /\ IsFiniteSet(Nodes)
    /\ \A order \in {EntryOrder, NameOrder} :
          /\ order \in [1 .. Cardinality(Nodes) -> Nodes]
          /\ {order[i] : i \in DOMAIN order} = Nodes

VARIABLES
    deps,       \* engine -> the engines that update before it (reverseAdj)
    inDegree,   \* how many of them are not in the result yet
    sortQueue,  \* queue: engines whose dependencies are all in the result
    result      \* the order so far

sortVars == <<deps, inDegree, sortQueue, result>>

\* a comes before b in an order.
Before(a, b, order) ==
    \E m, n \in DOMAIN order : m < n /\ order[m] = a /\ order[n] = b

\* The members of S, each once, in that order (there is one such sequence).
Ordered(S, order) ==
    {q \in [1 .. Cardinality(S) -> S] :
        \A i, j \in 1 .. Cardinality(S) : i < j => Before(q[i], q[j], order)}

\* adjacency.get(e): who depends on e.  Mutants: every engine; one dependent only.
DependentsOf_All(e) == Nodes

DependentsOf_One(e) ==
    {d \in Nodes : /\ e \in deps[d]
                   /\ \A c \in Nodes : e \in deps[c] => ~Before(c, d, EntryOrder)}

DependentsOf(e) == {d \in Nodes : e \in deps[d]}

Emitted == {result[i] : i \in DOMAIN result}

SortInit ==
    /\ deps \in [Nodes -> SUBSET Nodes]
    /\ inDegree = [e \in Nodes |-> Cardinality(deps[e])]
    /\ sortQueue \in Ordered({e \in Nodes : deps[e] = {}}, NameOrder)
    /\ result = <<>>

\* One turn of the loop: the head goes to the result, its dependents lose one
\* dependency each, and those that have none left join the queue.
\* Mutant: every engine loses a dependency.
Visit_AllLose ==
    LET current == Head(sortQueue) IN
    /\ sortQueue # <<>>
    /\ result'   = Append(result, current)
    /\ inDegree' = [e \in Nodes |-> inDegree[e] - 1]
    /\ \E freed \in Ordered({e \in DependentsOf(current) : inDegree'[e] = 0}, EntryOrder) :
          sortQueue' = Tail(sortQueue) \o freed
    /\ UNCHANGED deps

\* Mutant: the head stays in the queue once it is in the result.
Visit_NoShift ==
    /\ sortQueue # <<>>
    /\ result' = IF Head(sortQueue) \in Emitted THEN result ELSE Append(result, Head(sortQueue))
    /\ UNCHANGED <<deps, inDegree, sortQueue>>

Visit ==
    LET current == Head(sortQueue) IN
    /\ sortQueue # <<>>
    /\ result'   = Append(result, current)
    /\ inDegree' = [e \in Nodes |-> IF e \in DependentsOf(current) THEN inDegree[e] - 1
                                                                   ELSE inDegree[e]]
    /\ \E freed \in Ordered({e \in DependentsOf(current) : inDegree'[e] = 0}, EntryOrder) :
          sortQueue' = Tail(sortQueue) \o freed
    /\ UNCHANGED deps

SortSpec == SortInit /\ [][Visit]_sortVars

FairSortSpec == SortSpec /\ WF_sortVars(Visit)

-----------------------------------------------------------------------------
(* Properties *)

SortTypeOK ==
    /\ deps \in [Nodes -> SUBSET Nodes]
    /\ inDegree \in [Nodes -> Nat]
    /\ sortQueue \in Seq(Nodes)
    /\ result \in Seq(Nodes)

\* Reference definition: no set of engines waits on itself.
Acyclic ==
    \A S \in (SUBSET Nodes) \ {{}} : \E e \in S : deps[e] \cap S = {}

\* No engine is updated before one it depends on, nor twice.
DependenciesFirst ==
    \A i \in DOMAIN result :
        /\ deps[result[i]] \subseteq {result[j] : j \in 1 .. (i - 1)}
        /\ \A j \in 1 .. (i - 1) : result[j] # result[i]

\* The loop stops with every engine in the result exactly when there is no cycle:
\* the length test that throws never lets a partial order through, and never
\* rejects a map that can be ordered.
CompleteIffAcyclic ==
    sortQueue = <<>> => (Len(result) = Cardinality(Nodes) <=> Acyclic)

\* The sort ends for every map, cyclic ones included.
SortEnds == <>(sortQueue = <<>>)
=============================================================================
