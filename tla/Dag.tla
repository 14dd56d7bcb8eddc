-------------------------------- MODULE Dag ---------------------------------
(***************************************************************************)
(* ar724/dag.py: topological_layers first has validate_dag look for a      *)
(* cycle, depth first, and then counts down in-degrees layer by layer      *)
(* (Kahn).  The two are checked against a definition of "cyclic" that      *)
(* mentions neither, and against each other.                               *)
(*                                                                         *)
(* Task ids are distinct.  dfs is recursive in the code; its frames are    *)
(* path and, for each node on it, the position of its for loop.  The order *)
(* of a layer is unspecified in the code; here a layer is a set.           *)
(***************************************************************************)
EXTENDS Integers, Sequences, FiniteSets

CONSTANTS
    Task,      \* ids in the list
    Stranger,  \* an id that no task has
    MaxDeps    \* bound: length of a depends_on

ASSUME DagAssumption ==
    /\ IsFiniteSet(Task)
    /\ Stranger \notin Task
    /\ MaxDeps \in Nat

VARIABLES
    deps,      \* depends_on of each task
    phase,     \* what topological_layers is doing, or how it ended
    color, path, next,    \* validate_dag
    degree, queue, todo,  \* Kahn: in_degree; ready tasks; edges of this layer
    layers, placed,       \* how many layers, and the sum of their lengths
    layerOf               \* the (last) layer each task is in

dfsVars == <<color, path, next>>
kahnVars == <<degree, queue, todo, layers, placed, layerOf>>
vars == <<deps, phase, dfsVars, kahnVars>>

Phase == {"validate", "kahn",
          "layers",     \* returned
          "unknown",    \* ValueError: depends on unknown task
          "cycle",      \* ValueError: cycle detected, by validate_dag
          "short"}      \* ValueError: DAG has cycle, by topological_layers

\* An edge: the k-th dependency of d.
Edge == {e \in Task \X (1 .. MaxDeps) : e[2] =< Len(deps[e[1]])}
Dep(e) == deps[e[1]][e[2]]

TypeOK ==
    /\ deps \in [Task -> Seq(Task \cup {Stranger})]
    /\ \A t \in Task : Len(deps[t]) =< MaxDeps
    /\ phase \in Phase
    /\ color \in [Task -> {"white", "gray", "black"}]
    /\ path \in Seq(Task)
    /\ next \in [Task -> 1 .. MaxDeps + 1]
    /\ \A t \in Task : next[t] =< Len(deps[t]) + 1
    /\ degree \in [Task -> Int]
    /\ queue \in SUBSET Task
    /\ todo \in SUBSET (Task \X (1 .. MaxDeps))
    /\ layers \in Nat
    /\ placed \in Nat
    /\ layerOf \in [Task -> Nat]

Init ==
    /\ deps \in [Task -> UNION {[1 .. n -> Task \cup {Stranger}] : n \in 0 .. MaxDeps}]
    /\ phase = "validate"
    /\ color = [t \in Task |-> "white"]
    /\ path = <<>>
    /\ next = [t \in Task |-> 1]
    /\ degree = [t \in Task |-> 0]
    /\ queue = {}
    /\ todo = {}
    /\ layers = 0
    /\ placed = 0
    /\ layerOf = [t \in Task |-> 0]

---------------------------------------------------------------------------
(* validate_dag.                                                           *)

Node == path[Len(path)]
Neighbor == deps[Node][next[Node]]

\* for tid in all_ids: if color[tid] == WHITE: dfs(tid)
Root(t) ==
    /\ phase = "validate"
    /\ path = <<>>
    /\ color[t] = "white"
    /\ color' = [color EXCEPT ![t] = "gray"]
    /\ path' = <<t>>
    /\ UNCHANGED <<deps, phase, next, kahnVars>>

\* for neighbor in graph.get(node, []), one turn.
Looking ==
    /\ phase = "validate"
    /\ path # <<>>
    /\ next[Node] =< Len(deps[Node])

LookUnknown ==
    /\ Looking
    /\ Neighbor \notin Task
    /\ phase' = "unknown"
    /\ UNCHANGED <<deps, dfsVars, kahnVars>>

\* The cycle reported is path from the neighbor on.
LookGray ==
    /\ Looking
    /\ Neighbor \in Task
    /\ color[Neighbor] = "gray"
    /\ phase' = "cycle"
    /\ UNCHANGED <<deps, dfsVars, kahnVars>>

LookWhite ==
    /\ Looking
    /\ Neighbor \in Task
    /\ color[Neighbor] = "white"
    /\ color' = [color EXCEPT ![Neighbor] = "gray"]
    /\ path' = Append(path, Neighbor)
    /\ next' = [next EXCEPT ![Node] = @ + 1]
    /\ UNCHANGED <<deps, phase, kahnVars>>

LookBlackTwo ==    \* moves on by two
    /\ Looking
    /\ Neighbor \in Task
    /\ color[Neighbor] = "black"
    /\ next' = [next EXCEPT ![Node] = @ + 2]
    /\ UNCHANGED <<deps, phase, color, path, kahnVars>>

LookBlack ==
    /\ Looking
    /\ Neighbor \in Task
    /\ color[Neighbor] = "black"
    /\ next' = [next EXCEPT ![Node] = @ + 1]
    /\ UNCHANGED <<deps, phase, color, path, kahnVars>>

\* path.pop(); color[node] = BLACK
LeaveGray ==       \* the node stays gray
    /\ phase = "validate"
    /\ path # <<>>
    /\ next[Node] > Len(deps[Node])
    /\ path' = SubSeq(path, 1, Len(path) - 1)
    /\ UNCHANGED <<deps, phase, color, next, kahnVars>>

Leave ==
    /\ phase = "validate"
    /\ path # <<>>
    /\ next[Node] > Len(deps[Node])
    /\ path' = SubSeq(path, 1, Len(path) - 1)
    /\ color' = [color EXCEPT ![Node] = "black"]
    /\ UNCHANGED <<deps, phase, next, kahnVars>>

---------------------------------------------------------------------------
(* topological_layers.                                                     *)

\* validate_dag has returned: in_degree and the first queue.
Count ==
    /\ phase = "validate"
    /\ path = <<>>
    /\ \A t \in Task : color[t] # "white"
    /\ phase' = "kahn"
    /\ degree' = [t \in Task |-> Len(deps[t])]
    /\ queue' = {t \in Task : Len(deps[t]) = 0}
    /\ UNCHANGED <<deps, dfsVars, todo, layers, placed, layerOf>>

\* while queue: the whole queue becomes a layer.
LayerOnce ==       \* a dependency listed twice is counted down once
    /\ phase = "kahn"
    /\ todo = {}
    /\ queue # {}
    /\ layers' = layers + 1
    /\ placed' = placed + Cardinality(queue)
    /\ layerOf' = [t \in Task |-> IF t \in queue THEN layers + 1 ELSE layerOf[t]]
    /\ todo' = {e \in Edge : Dep(e) \in queue /\ \A k \in 1 .. e[2] - 1 : deps[e[1]][k] # Dep(e)}
    /\ queue' = {}
    /\ UNCHANGED <<deps, phase, dfsVars, degree>>

Layer ==
    /\ phase = "kahn"
    /\ todo = {}
    /\ queue # {}
    /\ layers' = layers + 1
    /\ placed' = placed + Cardinality(queue)
    /\ layerOf' = [t \in Task |-> IF t \in queue THEN layers + 1 ELSE layerOf[t]]
    /\ todo' = {e \in Edge : Dep(e) \in queue}
    /\ queue' = {}
    /\ UNCHANGED <<deps, phase, dfsVars, degree>>

\* for downstream in dependents[tid], one turn.
DownstreamNow(e) ==          \* a task that becomes ready joins the current layer
    /\ phase = "kahn"
    /\ e \in todo
    /\ degree' = [degree EXCEPT ![e[1]] = @ - 1]
    /\ IF degree[e[1]] = 1
       THEN /\ layerOf' = [layerOf EXCEPT ![e[1]] = layers]
            /\ placed' = placed + 1
            /\ todo' = (todo \ {e}) \cup {f \in Edge : Dep(f) = e[1]}
       ELSE /\ todo' = todo \ {e}
            /\ UNCHANGED <<layerOf, placed>>
    /\ UNCHANGED <<deps, phase, dfsVars, layers, queue>>

Downstream(e) ==
    /\ phase = "kahn"
    /\ e \in todo
    /\ todo' = todo \ {e}
    /\ degree' = [degree EXCEPT ![e[1]] = @ - 1]
    /\ queue' = IF degree[e[1]] = 1 THEN queue \cup {e[1]} ELSE queue
    /\ UNCHANGED <<deps, phase, dfsVars, layers, placed, layerOf>>

\* sum(len(l) for l in layers) != len(tasks)
Finish ==
    /\ phase = "kahn"
    /\ todo = {}
    /\ queue = {}
    /\ phase' = IF placed = Cardinality(Task) THEN "layers" ELSE "short"
    /\ UNCHANGED <<deps, dfsVars, kahnVars>>

Ended == phase \in {"layers", "unknown", "cycle", "short"} /\ UNCHANGED vars

Next ==
    \/ \E t \in Task : Root(t)
    \/ LookUnknown \/ LookGray \/ LookWhite \/ LookBlack \/ Leave
    \/ Count \/ Layer \/ (\E e \in Edge : Downstream(e)) \/ Finish
    \/ Ended

Spec == Init /\ [][Next]_vars

---------------------------------------------------------------------------
(* Properties.                                                             *)

DependsOn(t, u) == \E k \in 1 .. Len(deps[t]) : deps[t][k] = u

\* Some tasks wait for one another: each depends on one of them.
Waiting(S) == \A t \in S : \E u \in S : DependsOn(t, u)
Cyclic == \E S \in SUBSET Task : S # {} /\ Waiting(S)

\* validate_dag raises for a cycle only when there is one, and lets a list
\* of tasks pass only when there is none.  (dag.py:47-81)
CyclesAreFound ==
    /\ phase = "cycle" => Cyclic
    /\ phase \in {"kahn", "layers", "short"} => ~Cyclic

\* The two algorithms agree: what validate_dag has let pass gets its layers,
\* and the ValueError at the end is never raised.  (dag.py:92, 114-117)
NeverShort == phase # "short"

\* Each task is in the layer right after the last of its dependencies.
\* (dag.py:85-89, 100-112)
LayersAreEarliest ==
    phase = "layers" => \A t \in Task :
        /\ \A u \in Task : DependsOn(t, u) => layerOf[u] < layerOf[t]
        /\ layerOf[t] > 1 => \E u \in Task : DependsOn(t, u) /\ layerOf[u] = layerOf[t] - 1
=============================================================================
