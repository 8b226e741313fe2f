------------------------------- MODULE DepGraph -------------------------------
(***************************************************************************)
(* The dependency graph of packages, incremental/dep_graph.rs, and the     *)
(* plan CompileSession::plan makes with it: the build order (Kahn's        *)
(* algorithm), the packages a change invalidates (breadth first over the   *)
(* dependents) and the search for a cycle (depth first over the            *)
(* dependencies), each step by step.                                       *)
(*                                                                         *)
(* A package is a number, in the order of its name.  An import may name a  *)
(* package, or come from one, that is not a node of the graph: only the    *)
(* end that is a node records it.                                          *)
(***************************************************************************)
EXTENDS Integers, Sequences, FiniteSets, SequencesExt, Retaining

CONSTANTS
    Packages,     \* names
    Graphs        \* graphs: sets of nodes and of imports

ASSUME GraphAssumption ==
    /\ Packages \subseteq Nat /\ IsFiniteSet(Packages)
    /\ \A g \in Graphs : g.nodes \subseteq Packages /\ g.edges \subseteq Packages \X Packages

VARIABLES
    graph,        \* the graph
    changed,      \* the nodes whose cache status is not Hit
    phase,        \* the algorithm that runs
    degree,       \* in_degree
    queue,        \* the queue of the algorithm
    order,        \* build_order
    invalidated,  \* the packages found by invalidated_by
    colour,       \* state of detect_cycle
    path,         \* the nodes detect_cycle is in
    todo          \* the dependencies it has still to look at, for each of them

sortVars  == <<degree, order>>
cycleVars == <<colour, path, todo>>
graphVars == <<graph, changed, phase, sortVars, queue, invalidated, cycleVars>>

Nodes == graph.nodes

\* DepNode::dependencies and dependents, as add_edge leaves them.
Dependencies(p) == IF p \in Nodes THEN {q \in Packages : <<p, q>> \in graph.edges} ELSE {}
Dependents(q) == IF q \in Nodes THEN {p \in Packages : <<p, q>> \in graph.edges} ELSE {}

Inner(p) == Dependencies(p) \cap Nodes

\* A BTreeSet is iterated in the order of the names.
Sorted(S) == CHOOSE s \in SetToSeqs(S) : \A i, j \in DOMAIN s : i < j => s[i] < s[j]

GraphInit ==
    /\ graph \in Graphs
    /\ \/ phase = "degrees" /\ changed \in SUBSET graph.nodes
       \/ phase = "detect" /\ changed = {}
    /\ degree = <<>> /\ queue = <<>> /\ order = <<>>
    /\ invalidated = {}
    /\ colour = [p \in graph.nodes |-> "unvisited"]
    /\ path = <<>> /\ todo = <<>>

-----------------------------------------------------------------------------
(* topological_sort and compute_build_order.                                *)

Degrees ==
    /\ phase = "degrees"
    /\ phase' = "sort"
    /\ degree' = [p \in Nodes |-> Cardinality(Inner(p))]
    /\ queue' = Sorted({p \in Nodes : Inner(p) = {}})
    /\ UNCHANGED <<graph, changed, order, invalidated, cycleVars>>

Mut_Released(p) == {n \in Nodes : p \in Inner(n) /\ degree[n] <= 2}

\* The neighbours whose last open dependency is p.
Released(p) == {n \in Nodes : p \in Inner(n) /\ degree[n] = 1}

SortStep ==
    /\ phase = "sort" /\ queue # <<>>
    /\ LET p == Head(queue) IN
       /\ order' = Append(order, p)
       /\ degree' = [n \in Nodes |-> IF p \in Inner(n) THEN degree[n] - 1 ELSE degree[n]]
       /\ queue' = Tail(queue) \o Sorted(Released(p))
    /\ UNCHANGED <<graph, changed, phase, invalidated, cycleVars>>

\* A sort that misses nodes returns None, and the build order stays empty.  The
\* plan goes on with the nodes that changed, a HashSet, in any order.
SortEnd ==
    /\ phase = "sort" /\ queue = <<>>
    /\ order' = IF Len(order) = Cardinality(Nodes) THEN order ELSE <<>>
    /\ phase' = "invalidate"
    /\ invalidated' = changed
    /\ queue' \in SetToSeqs(changed)
    /\ UNCHANGED <<graph, changed, degree, cycleVars>>

-----------------------------------------------------------------------------
(* invalidated_by, and the end of the plan.                                 *)

Mut_InvalidateStep ==
    /\ phase = "invalidate" /\ queue # <<>>
    /\ invalidated' = invalidated \cup Dependents(Head(queue))
    /\ queue' = Tail(queue)
    /\ UNCHANGED <<graph, changed, phase, sortVars, cycleVars>>

InvalidateStep ==
    /\ phase = "invalidate" /\ queue # <<>>
    /\ LET new == Dependents(Head(queue)) \ invalidated IN
       /\ invalidated' = invalidated \cup new
       /\ queue' = Tail(queue) \o Sorted(new)
    /\ UNCHANGED <<graph, changed, phase, sortVars, cycleVars>>

PlanEnd ==
    /\ phase = "invalidate" /\ queue = <<>>
    /\ phase' = "planned"
    /\ UNCHANGED <<graph, changed, sortVars, queue, invalidated, cycleVars>>

\* The packages to compile that are in the build order, in that order; the
\* others follow them.
Recompile == Retain(order, invalidated)

\* The packages to load from the cache.
Cached == (Nodes \ changed) \ invalidated

-----------------------------------------------------------------------------
(* detect_cycle.                                                            *)

\* The search goes into p, with `rest` to look at when it is back.
Enter(p, rest) ==
    /\ colour' = [colour EXCEPT ![p] = "in_progress"]
    /\ path' = Append(path, p)
    /\ todo' = Append(rest, Sorted(Inner(p)))
    /\ UNCHANGED phase

\* The outer loop enters the next node that was not visited, or is over.
NextRoot ==
    /\ phase = "detect" /\ path = <<>>
    /\ LET white == {p \in Nodes : colour[p] = "unvisited"} IN
       IF white = {} THEN phase' = "acyclic" /\ UNCHANGED cycleVars
       ELSE Enter(Head(Sorted(white)), <<>>)
    /\ UNCHANGED <<graph, changed, sortVars, queue, invalidated>>

\* The next dependency of the innermost node: one in progress closes a cycle,
\* an unvisited one is entered, one that is done is passed over.
LookAt ==
    /\ phase = "detect" /\ path # <<>> /\ Last(todo) # <<>>
    /\ LET dep == Head(Last(todo))
           rest == Append(Front(todo), Tail(Last(todo)))
       IN  \/ /\ colour[dep] = "in_progress"
              /\ path' = Append(path, dep) /\ phase' = "cyclic" /\ UNCHANGED <<colour, todo>>
           \/ colour[dep] = "unvisited" /\ Enter(dep, rest)
           \/ colour[dep] = "done" /\ todo' = rest /\ UNCHANGED <<colour, path, phase>>
    /\ UNCHANGED <<graph, changed, sortVars, queue, invalidated>>

Leave ==
    /\ phase = "detect" /\ path # <<>> /\ Last(todo) = <<>>
    /\ colour' = [colour EXCEPT ![Last(path)] = "done"]
    /\ path' = Front(path)
    /\ todo' = Front(todo)
    /\ UNCHANGED <<graph, changed, phase, sortVars, queue, invalidated>>

GraphNext ==
    \/ Degrees \/ SortStep \/ SortEnd
    \/ InvalidateStep \/ PlanEnd
    \/ NextRoot \/ LookAt \/ Leave

GraphSpec == GraphInit /\ [][GraphNext]_graphVars

-----------------------------------------------------------------------------
(* Properties, against definitions that do not search.                      *)

\* A graph has a cycle iff some nodes each depend on one of themselves.
Cyclic == \E S \in (SUBSET Nodes) \ {{}} : \A p \in S : Inner(p) \cap S # {}

\* The packages that import a node of S are in S.
Closed(S) == \A p \in S : Dependents(p) \subseteq S

\* A plan recompiles the changed packages, with every package that imports one
\* of them directly or through others, and nothing else; and it loads the
\* remaining ones from the cache (DepGraph::invalidated_by, CompileSession::plan).
\* The documents promise less work: "When only the implementation changes (same
\* interface), dependents are unaffected" (dep_graph.rs).  The code does not keep that:
\* plan looks at no interface, and this states what it does.
RecompilesExactly ==
    phase = "planned" =>
        /\ changed \subseteq invalidated
        /\ Closed(invalidated)
        /\ \A S \in SUBSET Packages : changed \subseteq S /\ Closed(S) => invalidated \subseteq S
        /\ Cached = Nodes \ invalidated

\* A plan compiles a package after the packages it imports, unless the imports
\* form a cycle; the order is given up exactly then (topological_sort,
\* compute_build_order).
DependenciesFirst ==
    phase = "planned" =>
        /\ Cyclic <=> order = <<>> /\ Nodes # {}
        /\ ~Cyclic =>
             /\ ToSet(Recompile) = invalidated \cap Nodes
             /\ \A i, j \in 1 .. Len(Recompile) :
                  Recompile[i] \in Inner(Recompile[j]) => i < j

\* detect_cycle finds a cycle iff there is one, and the path it returns ends in
\* one: it comes back to a node along dependencies.
CycleIsReal ==
    /\ phase = "acyclic" => ~Cyclic
    /\ phase = "cyclic" =>
         /\ \A i \in 1 .. Len(path) - 1 : path[i + 1] \in Inner(path[i])
         /\ Last(path) \in ToSet(Front(path))

\* The packages are ordered or a cycle of theirs is named, never both (topological_sort,
\* detect_cycle).
OrderOrCycle == DependenciesFirst /\ CycleIsReal

=============================================================================
