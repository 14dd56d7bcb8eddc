------------------------------ MODULE DagProofs ------------------------------
(***************************************************************************)
(* Proofs about Dag, for any tasks and dependencies.                       *)
(***************************************************************************)
EXTENDS Dag, FiniteSetTheorems, SequenceTheorems, TLAPS

(***************************************************************************)
(* validate_dag.  The gray nodes are the path, each waiting for the next   *)
(* one; everything a node has looked at is black, but for that next one.   *)
(***************************************************************************)
Position == 1 .. Len(path)

PathIsGray ==
    /\ \A i, j \in Position : path[i] = path[j] => i = j
    /\ \A t \in Task : color[t] = "gray" <=> \E i \in Position : path[i] = t

PathIsEdges ==
    \A i \in Position : i < Len(path) =>
        \E k \in 1 .. Len(deps[path[i]]) : deps[path[i]][k] = path[i + 1]

LookedAt ==
    \A i \in Position : \A k \in 1 .. next[path[i]] - 1 :
        /\ deps[path[i]][k] \in Task
        /\ \/ color[deps[path[i]][k]] = "black"
           \/ i < Len(path) /\ deps[path[i]][k] = path[i + 1]

BlackIsClosed ==
    \A t \in Task : color[t] = "black" =>
        \A k \in 1 .. Len(deps[t]) : deps[t][k] \in Task /\ color[deps[t][k]] = "black"

WhiteIsFresh == \A t \in Task : color[t] = "white" => next[t] = 1

\* What is black does not wait for itself.
NoBlackCycle ==
    \A S \in SUBSET Task :
        S # {} /\ (\A t \in S : color[t] = "black") => ~Waiting(S)

Validated == phase \in {"kahn", "layers", "short"} => \A t \in Task : color[t] = "black"

Search ==
    /\ PathIsGray
    /\ PathIsEdges
    /\ LookedAt
    /\ BlackIsClosed
    /\ WhiteIsFresh
    /\ NoBlackCycle
    /\ Validated
    /\ phase = "cycle" => Cyclic

---------------------------------------------------------------------------
LEMMA TypeInit == Init => TypeOK
<1> SUFFICES ASSUME Init PROVE TypeOK
  OBVIOUS
<1> USE DagAssumption DEF DagAssumption
<1>1. deps \in [Task -> Seq(Task \cup {Stranger})] /\ \A t \in Task : Len(deps[t]) =< MaxDeps
  <2>1. \A t \in Task : \E n \in 0 .. MaxDeps : deps[t] \in [1 .. n -> Task \cup {Stranger}]
    BY DEF Init
  <2>2. \A t \in Task : deps[t] \in Seq(Task \cup {Stranger}) /\ Len(deps[t]) =< MaxDeps
    BY <2>1, IsASeq, LenProperties
  <2> QED
    BY <2>2 DEF Init
<1> QED
  BY <1>1, EmptySeq DEF Init, TypeOK, Phase

LEMMA NodeType ==
    ASSUME TypeOK, path # <<>>
    PROVE  /\ Node \in Task
           /\ Len(path) \in Nat \ {0}
           /\ path[Len(path)] = Node
           /\ next[Node] \in Nat \ {0}
           /\ Len(deps[Node]) \in Nat
           /\ next[Node] =< Len(deps[Node]) + 1
<1>1. Len(path) \in Nat /\ Len(path) # 0
  BY EmptySeq, LenProperties DEF TypeOK
<1>2. Node \in Task
  BY <1>1, ElementOfSeq DEF TypeOK, Node
<1>3. deps[Node] \in Seq(Task \cup {Stranger})
  BY <1>2 DEF TypeOK
<1> QED
  BY <1>1, <1>2, <1>3, LenProperties DEF TypeOK, Node

LEMMA Advances ==
    ASSUME TypeOK, Looking, next' = [next EXCEPT ![Node] = @ + 1]
    PROVE  /\ next' \in [Task -> 1 .. MaxDeps + 1]
           /\ \A t \in Task : next'[t] =< Len(deps[t]) + 1
<1>1. Node \in Task /\ next[Node] \in Nat \ {0} /\ Len(deps[Node]) \in Nat
  BY NodeType DEF Looking
<1>2. Len(deps[Node]) =< MaxDeps /\ next[Node] =< Len(deps[Node])
  BY <1>1 DEF Looking, TypeOK
<1>3. next[Node] + 1 \in 1 .. MaxDeps + 1 /\ next[Node] + 1 =< Len(deps[Node]) + 1
  BY <1>1, <1>2, DagAssumption DEF DagAssumption
<1>4. next' \in [Task -> 1 .. MaxDeps + 1]
  BY <1>1, <1>3 DEF TypeOK
<1>5. ASSUME NEW t \in Task PROVE next'[t] =< Len(deps[t]) + 1
  BY <1>1, <1>3 DEF TypeOK
<1> QED
  BY <1>4, <1>5

LEMMA TypeStep == TypeOK /\ [Next]_vars => TypeOK'
<1> SUFFICES ASSUME TypeOK, [Next]_vars PROVE TypeOK'
  OBVIOUS
<1> USE DagAssumption DEF DagAssumption, Phase
<1>1. ASSUME NEW t \in Task, Root(t) PROVE TypeOK'
  <2>1. color' \in [Task -> {"white", "gray", "black"}] /\ path' \in Seq(Task)
    BY <1>1 DEF Root, TypeOK
  <2> QED
    BY <1>1, <2>1 DEF Root, TypeOK, kahnVars
<1>2. CASE LookUnknown \/ LookGray
  BY <1>2 DEF LookUnknown, LookGray, TypeOK, dfsVars, kahnVars
<1>3. CASE LookWhite
  <2>1. next' \in [Task -> 1 .. MaxDeps + 1] /\ \A t \in Task : next'[t] =< Len(deps[t]) + 1
    BY <1>3, Advances DEF LookWhite
  <2>2. path' \in Seq(Task)
    BY <1>3, AppendProperties DEF LookWhite, TypeOK
  <2> QED
    BY <1>3, <2>1, <2>2 DEF LookWhite, TypeOK, kahnVars
<1>4. CASE LookBlack
  <2>1. next' \in [Task -> 1 .. MaxDeps + 1] /\ \A t \in Task : next'[t] =< Len(deps[t]) + 1
    BY <1>4, Advances DEF LookBlack
  <2> QED
    BY <1>4, <2>1 DEF LookBlack, TypeOK, kahnVars
<1>5. CASE Leave
  <2>1. path' \in Seq(Task)
    BY <1>5, NodeType, SubSeqProperties DEF Leave, TypeOK
  <2> QED
    BY <1>5, <2>1 DEF Leave, TypeOK, kahnVars
<1>6. CASE Count
  <2>1. \A t \in Task : Len(deps[t]) \in Int
    BY LenProperties DEF TypeOK
  <2> QED
    BY <1>6, <2>1 DEF Count, TypeOK, dfsVars
<1>7. CASE Layer
  <2>1. Cardinality(queue) \in Nat
    BY FS_Subset, FS_CardinalityType DEF TypeOK
  <2>2. todo' \in SUBSET (Task \X (1 .. MaxDeps)) /\ queue' \in SUBSET Task
    BY <1>7 DEF Layer, Edge
  <2>3. layers' \in Nat /\ placed' \in Nat
    BY <1>7, <2>1 DEF Layer, TypeOK
  <2>4. layerOf' \in [Task -> Nat]
    BY <1>7 DEF Layer, TypeOK
  <2>5. UNCHANGED <<deps, phase, color, path, next, degree>>
    BY <1>7 DEF Layer, dfsVars
  <2> QED
    BY <2>2, <2>3, <2>4, <2>5 DEF TypeOK
<1>8. ASSUME NEW e \in Edge, Downstream(e) PROVE TypeOK'
  <2>1. e[1] \in Task
    BY DEF Edge
  <2>2. degree' \in [Task -> Int]
    BY <1>8, <2>1 DEF Downstream, TypeOK
  <2>3. queue' \in SUBSET Task
    BY <1>8, <2>1 DEF Downstream, TypeOK
  <2>4. todo' \in SUBSET (Task \X (1 .. MaxDeps))
    BY <1>8 DEF Downstream, TypeOK
  <2> QED
    BY <1>8, <2>2, <2>3, <2>4 DEF Downstream, TypeOK, dfsVars
<1>9. CASE Finish
  BY <1>9 DEF Finish, TypeOK, dfsVars, kahnVars
<1>10. CASE UNCHANGED vars
  BY <1>10 DEF vars, TypeOK, dfsVars, kahnVars
<1> QED
  BY <1>1, <1>2, <1>3, <1>4, <1>5, <1>6, <1>7, <1>8, <1>9, <1>10 DEF Next, Ended

\* The types.
THEOREM TypeCorrect == Spec => []TypeOK
BY TypeInit, TypeStep, PTL DEF Spec

---------------------------------------------------------------------------
(* validate_dag keeps Search.                                              *)

LEMMA SearchInit == Init => Search
BY EmptySeq
   DEF Init, Search, PathIsGray, PathIsEdges, LookedAt, BlackIsClosed, WhiteIsFresh,
       NoBlackCycle, Validated, Position

\* What only concerns the black nodes stays while they stay the same.
LEMMA SameBlack ==
    ASSUME BlackIsClosed, NoBlackCycle, deps' = deps,
           \A t \in Task : color'[t] = "black" <=> color[t] = "black"
    PROVE  BlackIsClosed' /\ NoBlackCycle'
<1>1. BlackIsClosed'
  BY DEF BlackIsClosed
<1>2. NoBlackCycle'
  BY DEF NoBlackCycle, Waiting, DependsOn
<1> QED
  BY <1>1, <1>2

\* So does everything while the search stands still.
LEMMA SearchStands ==
    ASSUME Search, UNCHANGED <<deps, dfsVars>>, Validated', phase' = "cycle" => Cyclic
    PROVE  Search'
<1>1. Cyclic' <=> Cyclic
  BY DEF Cyclic, Waiting, DependsOn
<1>2. BlackIsClosed' /\ NoBlackCycle'
  BY SameBlack DEF Search, dfsVars
<1>3. PathIsGray' /\ PathIsEdges' /\ LookedAt' /\ WhiteIsFresh'
  BY DEF Search, PathIsGray, PathIsEdges, LookedAt, WhiteIsFresh, Position, dfsVars
<1> QED
  BY <1>1, <1>2, <1>3 DEF Search

LEMMA RootSearches ==
    ASSUME TypeOK, Search, NEW t \in Task, Root(t)
    PROVE  Search'
<1>1. Len(path) = 0 /\ Position = {}
  BY EmptySeq DEF Root, Position
<1>2. Len(path') = 1 /\ path'[1] = t
  BY DEF Root
<1>3. Position' = {1}
  BY <1>2 DEF Position
<1>4. \A u \in Task : color[u] # "gray"
  BY <1>1 DEF Search, PathIsGray
<1>5. PathIsGray'
  BY <1>2, <1>3, <1>4 DEF PathIsGray, Root, TypeOK
<1>6. PathIsEdges'
  BY <1>2, <1>3 DEF PathIsEdges
<1>7. LookedAt'
  BY <1>2, <1>3 DEF LookedAt, Root, Search, WhiteIsFresh
<1>8. WhiteIsFresh'
  BY DEF WhiteIsFresh, Root, Search, TypeOK
<1>9. BlackIsClosed' /\ NoBlackCycle'
  BY SameBlack DEF Root, Search, TypeOK
<1> QED
  BY <1>5, <1>6, <1>7, <1>8, <1>9 DEF Search, Validated, Root

LEMMA WhiteSearches ==
    ASSUME TypeOK, Search, LookWhite
    PROVE  Search'
<1> DEFINE n == Len(path)
<1>1. /\ Node \in Task /\ n \in Nat \ {0} /\ path[n] = Node
      /\ next[Node] \in Nat \ {0}
      /\ next[Node] \in 1 .. Len(deps[Node])
  BY NodeType DEF LookWhite, Looking
<1>2. Len(path') = n + 1 /\ path'[n + 1] = Neighbor /\ \A i \in 1 .. n : path'[i] = path[i]
  BY AppendProperties DEF LookWhite, TypeOK
<1>3. Position = 1 .. n /\ Position' = 1 .. n + 1
  BY <1>2 DEF Position
<1>4. \A i \in 1 .. n : path[i] \in Task /\ color[path[i]] = "gray"
  BY <1>3, ElementOfSeq DEF Search, PathIsGray, TypeOK
<1>5. Neighbor \in Task /\ color[Neighbor] = "white" /\ next[Neighbor] = 1
  BY DEF LookWhite, Search, WhiteIsFresh
<1>6. PathIsGray'
  <2>1. \A i, j \in 1 .. n + 1 : path'[i] = path'[j] => i = j
    BY <1>1, <1>2, <1>3, <1>4, <1>5 DEF Search, PathIsGray
  <2>2. \A u \in Task : color'[u] = "gray" <=> (u = Neighbor \/ color[u] = "gray")
    BY <1>5 DEF LookWhite, TypeOK
  <2>3. \A u : (\E i \in 1 .. n + 1 : path'[i] = u)
               <=> (u = Neighbor \/ \E i \in 1 .. n : path[i] = u)
    BY <1>1, <1>2
  <2> QED
    BY <1>3, <2>1, <2>2, <2>3 DEF Search, PathIsGray
<1>7. PathIsEdges'
  <2> SUFFICES ASSUME NEW i \in 1 .. n
               PROVE  \E k \in 1 .. Len(deps[path'[i]]) : deps[path'[i]][k] = path'[i + 1]
    <3>1. deps' = deps /\ \A i \in Position' : i < Len(path') => i \in 1 .. n
      BY <1>1, <1>2, <1>3 DEF LookWhite
    <3> QED
      BY <3>1 DEF PathIsEdges
  <2>1. CASE i = n
    BY <1>1, <1>2, <2>1 DEF Neighbor
  <2>2. CASE i < n
    <3>1. i \in 1 .. n /\ i + 1 \in 1 .. n
      BY <1>1, <2>2
    <3>2. path'[i] = path[i] /\ path'[i + 1] = path[i + 1]
      BY <1>2, <3>1
    <3>3. \E k \in 1 .. Len(deps[path[i]]) : deps[path[i]][k] = path[i + 1]
      BY <1>3, <2>2 DEF Search, PathIsEdges
    <3> QED
      BY <3>2, <3>3
  <2> QED
    BY <1>1, <2>1, <2>2
<1>8. LookedAt'
  <2> SUFFICES ASSUME NEW i \in 1 .. n + 1, NEW k \in 1 .. next'[path'[i]] - 1
               PROVE  /\ deps[path'[i]][k] \in Task
                      /\ \/ color'[deps[path'[i]][k]] = "black"
                         \/ i < n + 1 /\ deps[path'[i]][k] = path'[i + 1]
    BY <1>2, <1>3 DEF LookedAt, LookWhite
  <2>0. \A u \in Task : color[u] = "black" => color'[u] = "black"
    BY <1>5 DEF LookWhite, TypeOK
  <2>1. CASE i = n + 1
    <3>1. path'[i] = Neighbor /\ Neighbor # Node
      BY <1>1, <1>2, <1>4, <1>5, <2>1
    <3>2. next'[Neighbor] = 1
      BY <1>5, <3>1 DEF LookWhite, TypeOK
    <3> QED
      BY <3>1, <3>2
  <2>2. CASE i < n
    <3>1. path'[i] = path[i] /\ path[i] # Node /\ path'[i + 1] = path[i + 1]
      BY <1>1, <1>2, <1>3, <2>2 DEF Search, PathIsGray
    <3>2. next'[path[i]] = next[path[i]]
      BY <1>4, <2>2, <3>1 DEF LookWhite, TypeOK
    <3>3. i \in Position /\ i < Len(path) /\ k \in 1 .. next[path[i]] - 1
      BY <1>1, <1>3, <2>2, <3>1, <3>2
    <3>4. /\ deps[path[i]][k] \in Task
          /\ \/ color[deps[path[i]][k]] = "black"
             \/ i < Len(path) /\ deps[path[i]][k] = path[i + 1]
      BY <3>3 DEF Search, LookedAt
    <3> QED
      BY <1>1, <2>0, <2>2, <3>1, <3>4
  <2>3. CASE i = n
    <3>1. path'[i] = Node /\ path'[i + 1] = Neighbor
      BY <1>1, <1>2, <2>3
    <3>2. next'[Node] = next[Node] + 1
      BY <1>1 DEF LookWhite, TypeOK
    <3>3. CASE k = next[Node]
      BY <1>1, <1>5, <2>3, <3>1, <3>3 DEF Neighbor
    <3>4. CASE k \in 1 .. next[Node] - 1
      BY <1>1, <1>3, <2>0, <2>3, <3>1, <3>4 DEF Search, LookedAt
    <3> QED
      BY <1>1, <3>1, <3>2, <3>3, <3>4
  <2>4. i = n + 1 \/ i < n \/ i = n
    BY <1>1
  <2> QED
    BY <2>1, <2>2, <2>3, <2>4
<1>9. WhiteIsFresh'
  <2>0. color[Node] = "gray"
    BY <1>1, <1>4
  <2>1. \A u \in Task : color'[u] = "white" => color[u] = "white" /\ u # Node
    BY <1>5, <2>0 DEF LookWhite, TypeOK
  <2>2. \A u \in Task : u # Node => next'[u] = next[u]
    BY <1>1 DEF LookWhite, TypeOK
  <2> QED
    BY <2>1, <2>2 DEF Search, WhiteIsFresh
<1>10. BlackIsClosed' /\ NoBlackCycle'
  BY <1>5, SameBlack DEF LookWhite, Search, TypeOK
<1> QED
  BY <1>6, <1>7, <1>8, <1>9, <1>10 DEF Search, Validated, LookWhite, Looking

LEMMA BlackSearches ==
    ASSUME TypeOK, Search, LookBlack
    PROVE  Search'
<1> DEFINE n == Len(path)
<1>1. /\ Node \in Task /\ n \in Nat \ {0} /\ path[n] = Node
      /\ next[Node] \in Nat \ {0}
  BY NodeType DEF LookBlack, Looking
<1>2. \A i \in 1 .. n : path[i] \in Task /\ color[path[i]] = "gray"
  BY ElementOfSeq DEF Search, PathIsGray, TypeOK, Position
<1>3. \A u \in Task : u # Node => next'[u] = next[u]
  BY <1>1 DEF LookBlack, TypeOK
<1>4. next'[Node] = next[Node] + 1
  BY <1>1 DEF LookBlack, TypeOK
<1>5. LookedAt'
  <2> SUFFICES ASSUME NEW i \in 1 .. n, NEW k \in 1 .. next'[path[i]] - 1
               PROVE  /\ deps[path[i]][k] \in Task
                      /\ \/ color[deps[path[i]][k]] = "black"
                         \/ i < n /\ deps[path[i]][k] = path[i + 1]
    BY DEF LookedAt, LookBlack, Position
  <2>1. CASE path[i] = Node /\ k = next[Node]
    BY <2>1 DEF LookBlack, Neighbor
  <2>2. CASE k \in 1 .. next[path[i]] - 1
    BY <2>2 DEF Search, LookedAt, Position
  <2> QED
    BY <1>1, <1>2, <1>3, <1>4, <2>1, <2>2
<1>6. WhiteIsFresh'
  BY <1>1, <1>2, <1>3 DEF Search, WhiteIsFresh, LookBlack
<1>7. BlackIsClosed' /\ NoBlackCycle'
  BY SameBlack DEF LookBlack, Search
<1>8. PathIsGray' /\ PathIsEdges'
  BY DEF LookBlack, Search, PathIsGray, PathIsEdges, Position
<1> QED
  BY <1>5, <1>6, <1>7, <1>8 DEF Search, Validated, LookBlack, Looking

\* Everything the node depends on is black when it is left.
\* path.pop() takes the last one off.
LEMMA Popped ==
    ASSUME TypeOK, Leave
    PROVE  /\ Len(path') = Len(path) - 1
           /\ \A i \in 1 .. Len(path) - 1 : path'[i] = path[i]
<1> DEFINE n == Len(path)
<1>1. n \in Nat \ {0}
  BY NodeType DEF Leave
<1>2. \A i \in 1 .. n - 1 : path[i] \in Task
  BY <1>1, ElementOfSeq DEF TypeOK
<1>3. path' = SubSeq(path, 1, n - 1) /\ n - 1 \in Int
  BY <1>1 DEF Leave
<1>4. /\ Len(path') = IF 1 <= n - 1 THEN n - 1 - 1 + 1 ELSE 0
      /\ \A i \in 1 .. n - 1 - 1 + 1 : path'[i] = path[1 + i - 1]
  BY <1>2, <1>3, SubSeqProperties
<1>5. \A i \in 1 .. n - 1 : i \in 1 .. n - 1 - 1 + 1 /\ 1 + i - 1 = i
  BY <1>1
<1>6. \A i \in 1 .. n - 1 : path'[i] = path[i]
  BY <1>4, <1>5
<1>7. Len(path') = n - 1
  <2>1. Len(path') = IF 1 <= n - 1 THEN n - 1 - 1 + 1 ELSE 0
    BY <1>4
  <2>2. n \in Nat \ {0}
    BY <1>1
  <2> HIDE DEF n
  <2> QED
    BY <2>1, <2>2
<1> QED
  BY <1>6, <1>7

LEMMA LeaveSearches ==
    ASSUME TypeOK, Search, Leave
    PROVE  Search'
<1> DEFINE n == Len(path)
<1>1. /\ Node \in Task /\ n \in Nat \ {0} /\ path[n] = Node
      /\ next[Node] \in Nat \ {0} /\ Len(deps[Node]) \in Nat
      /\ next[Node] > Len(deps[Node])
  BY NodeType DEF Leave
<1>2. \A i \in 1 .. n : path[i] \in Task /\ color[path[i]] = "gray"
  BY ElementOfSeq DEF Search, PathIsGray, TypeOK, Position
<1>3. Len(path') = n - 1 /\ \A i \in 1 .. n - 1 : path'[i] = path[i]
  BY Popped
<1>4. /\ color[Node] = "gray" /\ color'[Node] = "black"
      /\ \A u \in Task : u # Node => color'[u] = color[u]
      /\ deps' = deps /\ next' = next
  <2>1. color[Node] = "gray"
    BY <1>1, <1>2
  <2> QED
    BY <1>1, <2>1 DEF Leave, TypeOK
<1>5. \A k \in 1 .. Len(deps[Node]) : deps[Node][k] \in Task /\ color[deps[Node][k]] = "black"
  <2> TAKE k \in 1 .. Len(deps[Node])
  <2>1. n \in Position /\ k \in 1 .. next[path[n]] - 1
    BY <1>1 DEF Position
  <2>2. /\ deps[path[n]][k] \in Task
        /\ \/ color[deps[path[n]][k]] = "black"
           \/ n < n /\ deps[path[n]][k] = path[n + 1]
    BY <2>1 DEF Search, LookedAt
  <2> QED
    BY <1>1, <2>2
<1>6. \A u \in Task : color[u] = "black" => color'[u] = "black" /\ u # Node
  BY <1>4
<1>7. \A i \in 1 .. n - 1 : path[i] # Node
  BY <1>1 DEF Search, PathIsGray, Position
<1>8. PathIsGray'
  <2>1. \A i, j \in 1 .. n - 1 : path[i] = path[j] => i = j
    BY <1>1 DEF Search, PathIsGray, Position
  <2>2. \A u \in Task : color'[u] = "gray" <=> color[u] = "gray" /\ u # Node
    BY <1>4
  <2>3. \A u : (\E i \in 1 .. n - 1 : path[i] = u) <=> (u # Node /\ \E i \in 1 .. n : path[i] = u)
    BY <1>1, <1>7
  <2>4. \A u \in Task : color[u] = "gray" <=> \E i \in 1 .. n : path[i] = u
    BY DEF Search, PathIsGray, Position
  <2>5. \A u \in Task : color'[u] = "gray" <=> \E i \in 1 .. n - 1 : path[i] = u
    BY <2>2, <2>3, <2>4
  <2>6. Position' = 1 .. n - 1 /\ \A i \in Position' : path'[i] = path[i]
    BY <1>3 DEF Position
  <2> QED
    BY <2>1, <2>5, <2>6 DEF PathIsGray
<1>9. PathIsEdges'
  <2> SUFFICES ASSUME NEW i \in 1 .. n - 1, i < n - 1
               PROVE  \E k \in 1 .. Len(deps[path[i]]) : deps[path[i]][k] = path[i + 1]
    BY <1>1, <1>3, <1>4 DEF PathIsEdges, Position
  <2>1. i \in Position /\ i < n
    BY <1>1 DEF Position
  <2> QED
    BY <2>1 DEF Search, PathIsEdges
<1>10. LookedAt'
  <2> SUFFICES ASSUME NEW i \in 1 .. n - 1, NEW k \in 1 .. next[path[i]] - 1
               PROVE  /\ deps[path[i]][k] \in Task
                      /\ \/ color'[deps[path[i]][k]] = "black"
                         \/ i < n - 1 /\ deps[path[i]][k] = path[i + 1]
    BY <1>1, <1>3, <1>4 DEF LookedAt, Position
  <2>1. i \in Position
    BY <1>1 DEF Position
  <2>2. /\ deps[path[i]][k] \in Task
        /\ \/ color[deps[path[i]][k]] = "black"
           \/ i < n /\ deps[path[i]][k] = path[i + 1]
    BY <2>1 DEF Search, LookedAt
  <2>3. CASE i = n - 1
    BY <1>1, <1>4, <1>6, <2>2, <2>3
  <2>4. CASE i < n - 1
    BY <1>6, <2>2, <2>4
  <2> QED
    BY <1>1, <2>3, <2>4
<1>11. BlackIsClosed'
  BY <1>4, <1>5, <1>6 DEF Search, BlackIsClosed
<1>12. WhiteIsFresh'
  BY <1>4 DEF Search, WhiteIsFresh
<1>13. NoBlackCycle'
  <2> SUFFICES ASSUME NEW S \in SUBSET Task, S # {}, \A t \in S : color'[t] = "black", Waiting(S)
               PROVE  FALSE
    <3>1. ASSUME NEW S \in SUBSET Task PROVE Waiting(S)' <=> Waiting(S)
      BY <1>4 DEF Waiting, DependsOn
    <3> QED
      BY <3>1 DEF NoBlackCycle
  <2>1. \A t \in S \ {Node} : color[t] = "black"
    BY <1>4
  <2>2. \A t \in S : \E u \in S \ {Node} : DependsOn(t, u)
    <3> TAKE t \in S
    <3>1. PICK u \in S : DependsOn(t, u)
      BY DEF Waiting
    <3>2. color[u] = "black"
      BY <1>5, <2>1, <3>1 DEF DependsOn, Search, BlackIsClosed
    <3> QED
      BY <1>6, <3>1, <3>2
  <2>3. S \ {Node} # {} /\ Waiting(S \ {Node})
    BY <2>2 DEF Waiting
  <2> QED
    BY <2>1, <2>3 DEF Search, NoBlackCycle
<1> QED
  BY <1>8, <1>9, <1>10, <1>11, <1>12, <1>13 DEF Search, Validated, Leave

\* The cycle that is reported is one.
LEMMA GrayIsCycle ==
    ASSUME TypeOK, Search, LookGray
    PROVE  Cyclic
<1> DEFINE n == Len(path)
<1>1. /\ Node \in Task /\ n \in Nat \ {0} /\ path[n] = Node
      /\ next[Node] \in 1 .. Len(deps[Node])
  BY NodeType DEF LookGray, Looking
<1>2. PICK s \in 1 .. n : path[s] = Neighbor
  BY DEF LookGray, Search, PathIsGray, Position
<1> DEFINE S == {path[i] : i \in s .. n}
<1>3. S \in SUBSET Task
  <2>1. \A i \in s .. n : i \in 1 .. n
    BY <1>1, <1>2
  <2>2. \A i \in 1 .. n : path[i] \in Task
    BY ElementOfSeq DEF TypeOK
  <2> QED
    BY <2>1, <2>2
<1>4. ASSUME NEW i \in s .. n PROVE \E u \in S : DependsOn(path[i], u)
  <2>1. CASE i = n
    <3>1. DependsOn(path[n], Neighbor)
      BY <1>1 DEF DependsOn, Neighbor
    <3>2. Neighbor \in S
      BY <1>1, <1>2
    <3> QED
      BY <2>1, <3>1, <3>2
  <2>2. CASE i < n
    <3>1. i \in Position /\ i < n /\ i + 1 \in s .. n
      BY <1>1, <1>2, <2>2 DEF Position
    <3>2. DependsOn(path[i], path[i + 1])
      BY <3>1 DEF Search, PathIsEdges, DependsOn
    <3> QED
      BY <3>1, <3>2
  <2> QED
    BY <1>1, <2>1, <2>2
<1>5. S # {} /\ Waiting(S)
  <2>1. path[n] \in S
    BY <1>1, <1>2
  <2>2. \A t \in S : \E u \in S : DependsOn(t, u)
    BY <1>4
  <2> QED
    BY <2>1, <2>2 DEF Waiting
<1> QED
  BY <1>3, <1>5 DEF Cyclic

LEMMA SearchStep ==
    ASSUME TypeOK, Search, [Next]_vars
    PROVE  Search'
<1>1. ASSUME NEW t \in Task, Root(t) PROVE Search'
  BY <1>1, RootSearches
<1>2. CASE LookUnknown
  BY <1>2, SearchStands DEF LookUnknown, Validated
<1>3. CASE LookGray
  BY <1>3, SearchStands, GrayIsCycle DEF LookGray, Validated
<1>4. CASE LookWhite \/ LookBlack \/ Leave
  BY <1>4, WhiteSearches, BlackSearches, LeaveSearches
<1>5. CASE Count
  <2>1. \A t \in Task : color[t] # "gray"
    BY <1>5, EmptySeq DEF Count, Search, PathIsGray, Position
  <2>2. Validated'
    BY <1>5, <2>1 DEF Count, Validated, dfsVars, TypeOK
  <2> QED
    BY <1>5, <2>2, SearchStands DEF Count
<1>6. CASE Layer \/ (\E e \in Edge : Downstream(e)) \/ Finish
  <2>1. Validated' /\ UNCHANGED <<deps, dfsVars>> /\ phase' # "cycle"
    BY <1>6 DEF Layer, Downstream, Finish, Search, Validated, dfsVars
  <2> QED
    BY <2>1, SearchStands
<1>7. CASE UNCHANGED vars
  <2>1. Validated' /\ UNCHANGED <<deps, dfsVars>> /\ phase' = phase
    BY <1>7 DEF vars, Search, Validated, dfsVars
  <2> QED
    BY <2>1, SearchStands DEF Search
<1> QED
  BY <1>1, <1>2, <1>3, <1>4, <1>5, <1>6, <1>7 DEF Next, Ended

LEMMA Searches == Spec => [](TypeOK /\ Search)
BY TypeInit, TypeStep, SearchInit, SearchStep, PTL DEF Spec

\* A cycle is reported only when there is one, and nothing cyclic gets through.
THEOREM CyclesFound == Spec => []CyclesAreFound
<1>1. TypeOK /\ Search => CyclesAreFound
  BY DEF Search, CyclesAreFound, Validated, NoBlackCycle, Cyclic
<1> QED
  BY <1>1, Searches, PTL

---------------------------------------------------------------------------
(***************************************************************************)
(* The layers.  An in-degree is the number of dependencies that have not   *)
(* been counted down: those in no layer yet and those of the layer at      *)
(* hand that are still to do.                                              *)
(***************************************************************************)
Counted == phase \in {"kahn", "layers", "short"}

Left(t) == {k \in 1 .. Len(deps[t]) : layerOf[deps[t][k]] = 0 \/ <<t, k>> \in todo}

Layered == {t \in Task : layerOf[t] > 0}

Untouched ==
    phase = "validate" =>
        layers = 0 /\ placed = 0 /\ todo = {} /\ \A t \in Task : layerOf[t] = 0

DegreeIsLeft == \A t \in Task : degree[t] = Cardinality(Left(t))

QueueIsReady == \A t \in Task : t \in queue <=> degree[t] = 0 /\ layerOf[t] = 0

LayeredIsDone == \A t \in Layered : degree[t] = 0 /\ layerOf[t] =< layers

TodoIsOfLastLayer ==
    \A e \in todo : e \in Edge /\ layers > 0 /\ layerOf[Dep(e)] = layers

LayersRespect ==
    \A t \in Layered : \A k \in 1 .. Len(deps[t]) :
        layerOf[deps[t][k]] > 0 /\ layerOf[deps[t][k]] < layerOf[t]

\* Why a task is not in an earlier layer.
HeldUp(t, l) == \E k \in 1 .. Len(deps[t]) : layerOf[deps[t][k]] = l

LayersAreLate ==
    /\ \A t \in Task : layerOf[t] > 1 => HeldUp(t, layerOf[t] - 1)
    /\ \A t \in queue : layers > 0 => HeldUp(t, layers)

PlacedIsLayered == placed = Cardinality(Layered)

Counts ==
    /\ DegreeIsLeft
    /\ QueueIsReady
    /\ LayeredIsDone
    /\ TodoIsOfLastLayer
    /\ LayersRespect
    /\ LayersAreLate
    /\ PlacedIsLayered
    /\ phase # "short"
    /\ phase = "layers" => Layered = Task

Kahn == Untouched /\ (Counted => Counts)

LEMMA KahnInit == Init => Kahn
BY DEF Init, Kahn, Untouched, Counted

\* What validate_dag has let pass depends on tasks only.
LEMMA DepsAreTasks ==
    ASSUME TypeOK, Search, \A t \in Task : color[t] = "black"
    PROVE  \A t \in Task :
             /\ Len(deps[t]) \in Nat
             /\ \A k \in 1 .. Len(deps[t]) : deps[t][k] \in Task
BY LenProperties DEF TypeOK, Search, BlackIsClosed

LEMMA LeftIsFinite ==
    ASSUME TypeOK, NEW t \in Task
    PROVE  IsFiniteSet(Left(t)) /\ Cardinality(Left(t)) \in Nat
<1>1. Len(deps[t]) \in Nat
  BY LenProperties DEF TypeOK
<1>2. IsFiniteSet(1 .. Len(deps[t]))
  BY <1>1, FS_Interval
<1>3. Left(t) \subseteq 1 .. Len(deps[t])
  BY DEF Left
<1> QED
  BY <1>2, <1>3, FS_Subset, FS_CardinalityType

LEMMA CountCounts ==
    ASSUME TypeOK, Search, Kahn, Count
    PROVE  Kahn'
<1>1. /\ layers' = 0 /\ placed' = 0 /\ todo' = {} /\ deps' = deps
      /\ layerOf' = layerOf /\ \A t \in Task : layerOf[t] = 0
  BY DEF Kahn, Untouched, Count
<1>2. Counted'
  BY DEF Count, Counted
<1>3. \A t \in Task : color[t] = "black"
  BY SearchStep DEF Next, Search, Validated, Count, dfsVars
<1>4. \A t \in Task : Len(deps[t]) \in Nat /\ \A k \in 1 .. Len(deps[t]) : deps[t][k] \in Task
  BY <1>3, DepsAreTasks
<1>5. \A t \in Task : degree'[t] = Len(deps[t])
  BY DEF Count
<1>6. ASSUME NEW t \in Task PROVE degree'[t] = Cardinality(Left(t)')
  <2>1. Left(t)' = 1 .. Len(deps[t])
    BY <1>1, <1>4 DEF Left
  <2>2. Cardinality(1 .. Len(deps[t])) = Len(deps[t])
    <3>1. Len(deps[t]) \in Nat
      BY <1>4
    <3> QED
      BY <3>1, FS_Interval
  <2> QED
    BY <1>5, <2>1, <2>2
<1>7. Layered' = {}
  BY <1>1 DEF Layered
<1>8. PlacedIsLayered'
  BY <1>1, <1>7, FS_EmptySet DEF PlacedIsLayered
<1>9. QueueIsReady'
  BY <1>1, <1>5 DEF Count, QueueIsReady
<1>10. LayersAreLate'
  BY <1>1 DEF LayersAreLate
<1> QED
  BY <1>1, <1>2, <1>6, <1>7, <1>8, <1>9, <1>10
     DEF Kahn, Counts, DegreeIsLeft, LayeredIsDone, TodoIsOfLastLayer, LayersRespect,
         Untouched, Count

LEMMA LayerCounts ==
    ASSUME TypeOK, Search, Kahn, Layer
    PROVE  Kahn'
<1>1. Counts /\ Counted /\ Counted' /\ phase' = "kahn"
  BY DEF Kahn, Layer, Counted
<1>2. /\ layers' = layers + 1 /\ queue' = {} /\ todo = {} /\ queue \subseteq Task
      /\ layers \in Nat /\ layerOf \in [Task -> Nat]
      /\ deps' = deps /\ degree' = degree
      /\ placed' = placed + Cardinality(queue)
  BY DEF Layer, TypeOK
<1>3. \A t \in Task : layerOf'[t] = IF t \in queue THEN layers + 1 ELSE layerOf[t]
  BY DEF Layer
<1>4. \A t \in queue : t \in Task /\ degree[t] = 0 /\ layerOf[t] = 0
  BY <1>1, <1>2 DEF Counts, QueueIsReady
<1>5. \A t \in Task : Len(deps[t]) \in Nat /\ \A k \in 1 .. Len(deps[t]) : deps[t][k] \in Task
  BY <1>1, DepsAreTasks DEF Counted, Search, Validated
<1>6. \A t \in Task : layerOf[t] =< layers
  BY <1>1, <1>2 DEF Counts, LayeredIsDone, Layered
<1>7. \A e \in todo' : e \in Edge /\ Dep(e) \in queue
  BY DEF Layer
<1>8. \A t \in Task : \A k \in 1 .. Len(deps[t]) : deps[t][k] \in queue => <<t, k>> \in todo'
  <2> TAKE t \in Task
  <2> TAKE k \in 1 .. Len(deps[t])
  <2>1. k \in 1 .. MaxDeps
    BY <1>5, DagAssumption DEF TypeOK, DagAssumption
  <2>2. <<t, k>> \in Edge
    BY <1>5, <2>1 DEF Edge
  <2> QED
    BY <2>2 DEF Layer, Dep
<1>9. DegreeIsLeft'
  <2> SUFFICES ASSUME NEW t \in Task PROVE Left(t)' = Left(t)
    BY <1>1, <1>2 DEF DegreeIsLeft, Counts
  <2>1. \A k \in 1 .. Len(deps[t]) : <<t, k>> \in todo' => deps[t][k] \in queue
    BY <1>7 DEF Dep
  <2>2. \A k \in 1 .. Len(deps[t]) :
          (layerOf'[deps[t][k]] = 0 \/ <<t, k>> \in todo') <=> layerOf[deps[t][k]] = 0
    BY <1>2, <1>3, <1>4, <1>5, <1>8, <2>1
  <2> QED
    BY <1>2, <2>2 DEF Left
<1>10. QueueIsReady'
  BY <1>1, <1>2, <1>3 DEF Counts, QueueIsReady
<1>11. LayeredIsDone'
  BY <1>1, <1>2, <1>3, <1>4, <1>6 DEF Counts, LayeredIsDone, Layered
<1>12. TodoIsOfLastLayer'
  <2>1. ASSUME NEW e \in todo' PROVE e \in Edge' /\ layerOf'[Dep(e)'] = layers'
    <3>1. e \in Edge /\ Dep(e) \in queue /\ Edge' = Edge /\ Dep(e)' = Dep(e)
      BY <1>2, <1>7 DEF Edge, Dep
    <3> QED
      BY <1>2, <1>3, <3>1
  <2> QED
    BY <1>2, <2>1 DEF TodoIsOfLastLayer
<1>13. LayersRespect'
  <2> SUFFICES ASSUME NEW t \in Task, layerOf'[t] > 0, NEW k \in 1 .. Len(deps[t])
               PROVE  layerOf'[deps[t][k]] > 0 /\ layerOf'[deps[t][k]] < layerOf'[t]
    BY <1>2 DEF LayersRespect, Layered
  <2>1. deps[t][k] \in Task
    BY <1>5
  <2>2. CASE t \in queue
    <3>1. Cardinality(Left(t)) = 0 /\ IsFiniteSet(Left(t))
      BY <1>1, <1>4, <2>2, LeftIsFinite DEF Counts, DegreeIsLeft
    <3>2. Left(t) = {}
      BY <3>1, FS_EmptySet
    <3>3. layerOf[deps[t][k]] # 0
      BY <3>2 DEF Left
    <3> QED
      BY <1>2, <1>3, <1>4, <1>6, <2>1, <2>2, <3>3
  <2>3. CASE t \notin queue
    <3>1. layerOf[deps[t][k]] > 0 /\ layerOf[deps[t][k]] < layerOf[t]
      BY <1>1, <1>3, <2>3 DEF Counts, LayersRespect, Layered
    <3> QED
      BY <1>2, <1>3, <1>4, <2>1, <2>3, <3>1
  <2> QED
    BY <2>2, <2>3
<1>14. LayersAreLate'
  <2> SUFFICES ASSUME NEW t \in Task, layerOf'[t] > 1
               PROVE  \E k \in 1 .. Len(deps[t]) : layerOf'[deps[t][k]] = layerOf'[t] - 1
    BY <1>2 DEF LayersAreLate, HeldUp
  <2>1. CASE t \in queue
    <3>1. PICK k \in 1 .. Len(deps[t]) : layerOf[deps[t][k]] = layers
      BY <1>1, <1>2, <1>3, <2>1 DEF Counts, LayersAreLate, HeldUp
    <3>2. layers > 0 /\ layerOf'[t] = layers + 1
      BY <1>2, <1>3, <2>1
    <3> QED
      BY <1>2, <1>3, <1>4, <1>5, <3>1, <3>2
  <2>2. CASE t \notin queue
    <3>1. PICK k \in 1 .. Len(deps[t]) : layerOf[deps[t][k]] = layerOf[t] - 1
      BY <1>1, <1>3, <2>2 DEF Counts, LayersAreLate, HeldUp
    <3> QED
      BY <1>2, <1>3, <1>4, <1>5, <2>2, <3>1
  <2> QED
    BY <2>1, <2>2
<1>15. PlacedIsLayered'
  <2>1. Layered' = Layered \cup queue /\ Layered \cap queue = {}
    BY <1>2, <1>3, <1>4 DEF Layered
  <2>2. IsFiniteSet(Layered) /\ IsFiniteSet(queue)
    BY <1>2, FS_Subset, DagAssumption DEF Layered, DagAssumption
  <2>3. Cardinality(Layered \cup queue) = Cardinality(Layered) + Cardinality(queue)
    <3>1. Cardinality(Layered) \in Nat /\ Cardinality(queue) \in Nat
      BY <2>2, FS_CardinalityType
    <3>2. Cardinality(Layered \cup queue)
            = Cardinality(Layered) + Cardinality(queue) - Cardinality(Layered \cap queue)
      BY <2>2, FS_Union
    <3>3. Cardinality(Layered \cap queue) = 0
      BY <2>1, FS_EmptySet
    <3> QED
      BY <3>1, <3>2, <3>3
  <2> QED
    BY <1>1, <1>2, <2>1, <2>3 DEF Counts, PlacedIsLayered
<1> QED
  BY <1>1, <1>9, <1>10, <1>11, <1>12, <1>13, <1>14, <1>15 DEF Kahn, Counts, Untouched

LEMMA DownstreamCounts ==
    ASSUME TypeOK, Search, Kahn, NEW e \in Edge, Downstream(e)
    PROVE  Kahn'
<1> DEFINE d == e[1]
<1>1. Counts /\ Counted /\ Counted' /\ phase' = "kahn"
  BY DEF Kahn, Downstream, Counted
<1>2. /\ layers' = layers /\ layerOf' = layerOf /\ deps' = deps /\ placed' = placed
      /\ todo' = todo \ {e} /\ e \in todo
      /\ layers \in Nat /\ layerOf \in [Task -> Nat]
  BY DEF Downstream, TypeOK
<1>3. d \in Task /\ e[2] \in 1 .. Len(deps[d]) /\ e = <<d, e[2]>>
  BY DEF Edge
<1>4. layers > 0 /\ layerOf[deps[d][e[2]]] = layers
  BY <1>1, <1>2, <1>3 DEF Counts, TodoIsOfLastLayer, Dep
<1>5. \A t \in Task : t # d => degree'[t] = degree[t] /\ Left(t)' = Left(t)
  <2> TAKE t \in Task
  <2> HAVE t # d
  <2>1. degree'[t] = degree[t]
    BY <1>3 DEF Downstream, TypeOK
  <2>2. \A k : <<t, k>> \in todo' <=> <<t, k>> \in todo
    BY <1>2, <1>3
  <2> QED
    BY <1>2, <2>1, <2>2 DEF Left
<1>6. degree'[d] = degree[d] - 1
  BY <1>3 DEF Downstream, TypeOK
<1>7. Left(d)' = Left(d) \ {e[2]} /\ e[2] \in Left(d)
  <2>1. \A k : <<d, k>> \in todo' <=> <<d, k>> \in todo /\ k # e[2]
    BY <1>2, <1>3
  <2>2. e[2] \in Left(d)
    BY <1>2, <1>3 DEF Left
  <2>3. layerOf[deps[d][e[2]]] # 0
    BY <1>2, <1>4
  <2> QED
    BY <1>2, <2>1, <2>2, <2>3 DEF Left
<1>8. degree[d] \in Nat \ {0} /\ degree'[d] = Cardinality(Left(d)')
  <2>1. IsFiniteSet(Left(d)) /\ Cardinality(Left(d)) \in Nat
    BY <1>3, LeftIsFinite
  <2>2. Cardinality(Left(d)') = Cardinality(Left(d)) - 1
    <3>1. Cardinality(Left(d) \ {e[2]}) =
            IF e[2] \in Left(d) THEN Cardinality(Left(d)) - 1 ELSE Cardinality(Left(d))
      BY <2>1, FS_RemoveElement
    <3> QED
      BY <1>7, <3>1
  <2>3. Cardinality(Left(d)) # 0
    BY <1>7, <2>1, FS_EmptySet
  <2>4. degree[d] = Cardinality(Left(d))
    BY <1>1, <1>3 DEF Counts, DegreeIsLeft
  <2> QED
    BY <1>6, <2>1, <2>2, <2>3, <2>4
<1>9. layerOf[d] = 0 /\ d \notin queue
  BY <1>1, <1>2, <1>3, <1>8 DEF Counts, LayeredIsDone, Layered, QueueIsReady
<1>10. queue' = IF degree'[d] = 0 THEN queue \cup {d} ELSE queue
  BY <1>6, <1>8 DEF Downstream
<1>11. DegreeIsLeft'
  BY <1>1, <1>5, <1>8 DEF DegreeIsLeft, Counts
<1>12. QueueIsReady'
  BY <1>1, <1>2, <1>5, <1>9, <1>10 DEF QueueIsReady, Counts
<1>13. LayeredIsDone'
  BY <1>1, <1>2, <1>5, <1>9 DEF LayeredIsDone, Layered, Counts
<1>14. TodoIsOfLastLayer'
  <2>1. \A f \in todo : Edge' = Edge /\ Dep(f)' = Dep(f)
    BY <1>2 DEF Edge, Dep
  <2> QED
    BY <1>1, <1>2, <2>1 DEF TodoIsOfLastLayer, Counts
<1>15. LayersRespect'
  BY <1>1, <1>2 DEF LayersRespect, Layered, Counts
<1>16. LayersAreLate'
  BY <1>1, <1>2, <1>3, <1>4, <1>10 DEF LayersAreLate, HeldUp, Counts
<1>17. PlacedIsLayered'
  BY <1>1, <1>2 DEF PlacedIsLayered, Layered, Counts
<1> QED
  BY <1>1, <1>11, <1>12, <1>13, <1>14, <1>15, <1>16, <1>17 DEF Kahn, Counts, Untouched

\* The tasks in no layer would wait for one another.
LEMMA FinishCounts ==
    ASSUME TypeOK, Search, Kahn, Finish
    PROVE  Kahn'
<1>1. Counts /\ Counted /\ Counted'
  BY DEF Kahn, Finish, Counted
<1>2. \A t \in Task : color[t] = "black"
  BY <1>1 DEF Counted, Search, Validated
<1>3. \A t \in Task : Len(deps[t]) \in Nat /\ \A k \in 1 .. Len(deps[t]) : deps[t][k] \in Task
  BY <1>2, DepsAreTasks
<1>4. layerOf \in [Task -> Nat] /\ todo = {} /\ queue = {}
  BY DEF TypeOK, Finish
<1> DEFINE U == {t \in Task : layerOf[t] = 0}
<1>5. ASSUME NEW t \in U PROVE \E u \in U : DependsOn(t, u)
  <2>1. degree[t] # 0
    BY <1>1, <1>4 DEF Counts, QueueIsReady
  <2>2. Left(t) # {}
    BY <1>1, <2>1, FS_EmptySet DEF Counts, DegreeIsLeft
  <2>3. PICK k \in 1 .. Len(deps[t]) : layerOf[deps[t][k]] = 0
    BY <1>4, <2>2 DEF Left
  <2> QED
    BY <1>3, <2>3 DEF DependsOn
<1>6. U = {}
  <2>1. Waiting(U)
    BY <1>5 DEF Waiting
  <2> QED
    BY <1>2, <2>1 DEF Search, NoBlackCycle
<1>7. Layered = Task
  BY <1>4, <1>6 DEF Layered
<1>8. phase' = "layers"
  BY <1>1, <1>7 DEF Counts, PlacedIsLayered, Finish
<1>9. UNCHANGED <<deps, kahnVars>>
  BY DEF Finish
<1>10. Counts'
  <2>1. /\ DegreeIsLeft' /\ QueueIsReady' /\ LayeredIsDone' /\ TodoIsOfLastLayer'
        /\ LayersRespect' /\ LayersAreLate' /\ PlacedIsLayered' /\ Layered' = Layered
    BY <1>1, <1>9
       DEF Counts, DegreeIsLeft, Left, QueueIsReady, LayeredIsDone, Layered, TodoIsOfLastLayer,
           Edge, Dep, LayersRespect, LayersAreLate, HeldUp, PlacedIsLayered, kahnVars
  <2> QED
    BY <1>7, <1>8, <2>1 DEF Counts
<1> QED
  BY <1>8, <1>10 DEF Kahn, Untouched

LEMMA KahnStep ==
    ASSUME TypeOK, Search, Kahn, [Next]_vars
    PROVE  Kahn'
<1>1. CASE Count
  BY <1>1, CountCounts
<1>2. CASE Layer
  BY <1>2, LayerCounts
<1>3. CASE \E e \in Edge : Downstream(e)
  BY <1>3, DownstreamCounts
<1>4. CASE Finish
  BY <1>4, FinishCounts
<1>5. CASE (\E t \in Task : Root(t)) \/ LookUnknown \/ LookGray \/ LookWhite \/ LookBlack \/ Leave
  <2>1. /\ UNCHANGED kahnVars /\ phase = "validate"
        /\ phase' \in {"validate", "unknown", "cycle"}
    BY <1>5 DEF Root, LookUnknown, LookGray, LookWhite, LookBlack, Leave, Looking
  <2> QED
    BY <2>1 DEF Kahn, Untouched, Counted, kahnVars
<1>6. CASE UNCHANGED vars
  BY <1>6
     DEF vars, Kahn, Untouched, Counted,
         Counts, DegreeIsLeft, Left, QueueIsReady, LayeredIsDone, Layered, TodoIsOfLastLayer,
         Edge, Dep, LayersRespect, LayersAreLate, HeldUp, PlacedIsLayered, kahnVars
<1> QED
  BY <1>1, <1>2, <1>3, <1>4, <1>5, <1>6 DEF Next, Ended

LEMMA Kahns == Spec => [](TypeOK /\ Search /\ Kahn)
BY TypeInit, TypeStep, SearchInit, SearchStep, KahnInit, KahnStep, PTL DEF Spec

\* The error at the end of topological_layers is never raised.
THEOREM TheTwoAgree == Spec => []NeverShort
<1>1. Kahn => NeverShort
  BY DEF Kahn, Counted, Counts, NeverShort
<1> QED
  BY <1>1, Kahns, PTL

\* A task comes after all its dependencies, and right after the last of them.
THEOREM Earliest == Spec => []LayersAreEarliest
<1>1. TypeOK /\ Search /\ Kahn => LayersAreEarliest
  <2> SUFFICES ASSUME TypeOK, Search, Kahn, phase = "layers", NEW t \in Task
               PROVE  /\ \A u \in Task : DependsOn(t, u) => layerOf[u] < layerOf[t]
                      /\ layerOf[t] > 1 =>
                           \E u \in Task : DependsOn(t, u) /\ layerOf[u] = layerOf[t] - 1
    BY DEF LayersAreEarliest
  <2>1. Counts /\ Layered = Task
    BY DEF Kahn, Counted, Counts
  <2>2. \A k \in 1 .. Len(deps[t]) : deps[t][k] \in Task
    BY DepsAreTasks DEF Search, Validated
  <2>3. \A u \in Task : DependsOn(t, u) => layerOf[u] < layerOf[t]
    BY <2>1 DEF Counts, LayersRespect, DependsOn
  <2>4. layerOf[t] > 1 => \E u \in Task : DependsOn(t, u) /\ layerOf[u] = layerOf[t] - 1
    BY <2>1, <2>2 DEF Counts, LayersAreLate, HeldUp, DependsOn
  <2> QED
    BY <2>3, <2>4
<1> QED
  BY <1>1, Kahns, PTL

---------------------------------------------------------------------------
(***************************************************************************)
(* The end.  Each step lowers one of finitely many finite sets and lengths *)
(* and leaves those before it alone: in validate_dag, the white tasks,     *)
(* then the edges not yet looked at, then the path; in topological_layers, *)
(* the tasks in no layer, then the edges of the layer at hand.             *)
(***************************************************************************)
White == {t \in Task : color[t] = "white"}
Ahead == {e \in Edge : e[2] >= next[e[1]]}
Unplaced == {t \in Task : layerOf[t] = 0}

Shrinks(new, old) == new \subseteq old /\ new # old

SearchGoesOn ==
    \/ Shrinks(White', White)
    \/ White' = White /\ Shrinks(Ahead', Ahead)
    \/ White' = White /\ Ahead' = Ahead /\ Len(path') < Len(path)

LayeringGoesOn ==
    \/ Shrinks(Unplaced', Unplaced)
    \/ Unplaced' = Unplaced /\ Shrinks(todo', todo)

GoesOn ==
    \/ phase = "validate" /\ phase' = "validate" /\ SearchGoesOn
    \/ phase = "validate" /\ phase' = "kahn"
    \/ phase = "kahn" /\ phase' = "kahn" /\ LayeringGoesOn
    \/ phase # phase' /\ phase' \in {"layers", "unknown", "cycle", "short"}

LEMMA LookingShrinks ==
    ASSUME TypeOK, Looking, deps' = deps, next' = [next EXCEPT ![Node] = @ + 1]
    PROVE  Shrinks(Ahead', Ahead)
<1>1. /\ Node \in Task /\ next[Node] \in Nat \ {0} /\ Len(deps[Node]) \in Nat
      /\ next[Node] =< Len(deps[Node])
  BY NodeType DEF Looking
<1>2. Edge' = Edge
  BY DEF Edge
<1>3. \A e \in Edge : e[1] \in Task /\ e[2] \in Nat /\ next[e[1]] \in Nat
  BY DEF Edge, TypeOK
<1>4. \A e \in Edge : next'[e[1]] = IF e[1] = Node THEN next[Node] + 1 ELSE next[e[1]]
  BY <1>1, <1>3 DEF TypeOK
<1>5. Ahead' \subseteq Ahead
  BY <1>1, <1>2, <1>3, <1>4 DEF Ahead
<1>6. <<Node, next[Node]>> \in Ahead
  <2>1. Len(deps[Node]) =< MaxDeps
    BY <1>1 DEF TypeOK
  <2> QED
    BY <1>1, <2>1, DagAssumption DEF Ahead, Edge, DagAssumption
<1>7. <<Node, next[Node]>> \notin Ahead'
  BY <1>1, <1>2, <1>4 DEF Ahead, Edge
<1> QED
  BY <1>5, <1>6, <1>7 DEF Shrinks

LEMMA SearchLowers ==
    ASSUME TypeOK, Search,
           (\E t \in Task : Root(t)) \/ LookWhite \/ LookBlack \/ Leave
    PROVE  SearchGoesOn
<1>1. ASSUME NEW t \in Task, Root(t) PROVE SearchGoesOn
  <2>1. t \in White /\ t \notin White' /\ White' \subseteq White
    BY <1>1 DEF Root, White, TypeOK
  <2> QED
    BY <2>1 DEF SearchGoesOn, Shrinks
<1>2. CASE LookWhite
  <2>1. Neighbor \in White /\ Neighbor \notin White' /\ White' \subseteq White
    BY <1>2 DEF LookWhite, White, TypeOK
  <2> QED
    BY <2>1 DEF SearchGoesOn, Shrinks
<1>3. CASE LookBlack
  BY <1>3, LookingShrinks DEF LookBlack, White, SearchGoesOn
<1>4. CASE Leave
  <2>1. Node \in Task /\ Len(path) \in Nat \ {0} /\ path[Len(path)] = Node
    BY <1>4, NodeType DEF Leave
  <2>2. color[Node] = "gray"
    BY <2>1 DEF Search, PathIsGray, Position
  <2>3. White' = White
    BY <1>4, <2>1, <2>2 DEF Leave, White, TypeOK
  <2>4. Ahead' = Ahead
    BY <1>4 DEF Leave, Ahead, Edge
  <2>5. Len(path') < Len(path)
    BY <1>4, <2>1, Popped
  <2> QED
    BY <2>3, <2>4, <2>5 DEF SearchGoesOn
<1> QED
  BY <1>1, <1>2, <1>3, <1>4

LEMMA LayeringLowers ==
    ASSUME TypeOK, Kahn, Layer \/ \E e \in Edge : Downstream(e)
    PROVE  LayeringGoesOn
<1>1. CASE Layer
  <2>1. QueueIsReady
    BY <1>1 DEF Layer, Kahn, Counted, Counts
  <2>2. PICK t \in Task : t \in queue /\ layerOf[t] = 0
    BY <1>1, <2>1 DEF Layer, TypeOK, QueueIsReady
  <2>3. layerOf'[t] = layers + 1 /\ layers \in Nat
    BY <1>1, <2>2 DEF Layer, TypeOK
  <2>4. \A u \in Task : layerOf'[u] = 0 => layerOf[u] = 0
    BY <1>1 DEF Layer, TypeOK
  <2>5. t \in Unplaced /\ t \notin Unplaced' /\ Unplaced' \subseteq Unplaced
    BY <2>2, <2>3, <2>4 DEF Unplaced
  <2> QED
    BY <2>5 DEF LayeringGoesOn, Shrinks
<1>2. ASSUME NEW e \in Edge, Downstream(e) PROVE LayeringGoesOn
  BY <1>2 DEF Downstream, LayeringGoesOn, Shrinks, Unplaced
<1> QED
  BY <1>1, <1>2

\* topological_layers goes round in no loop, whatever it is given: every step
\* lowers the measure, and the tasks and edges it is made of are finitely
\* many.  (dag.py:47-81 dfs, 100-112 while queue)
THEOREM EveryStepGoesOn == Spec => [][GoesOn]_vars
<1>1. TypeOK /\ Search /\ Kahn /\ [Next]_vars => [GoesOn]_vars
  <2> SUFFICES ASSUME TypeOK, Search, Kahn, Next, ~UNCHANGED vars PROVE GoesOn
    OBVIOUS
  <2>1. CASE (\E t \in Task : Root(t)) \/ LookWhite \/ LookBlack \/ Leave
    <3>1. phase = "validate" /\ phase' = "validate"
      BY <2>1 DEF Root, LookWhite, LookBlack, Leave, Looking
    <3> QED
      BY <2>1, <3>1, SearchLowers DEF GoesOn
  <2>2. CASE LookUnknown \/ LookGray
    BY <2>2 DEF LookUnknown, LookGray, Looking, GoesOn
  <2>3. CASE Count
    BY <2>3 DEF Count, GoesOn
  <2>4. CASE Layer \/ \E e \in Edge : Downstream(e)
    <3>1. phase = "kahn" /\ phase' = "kahn"
      BY <2>4 DEF Layer, Downstream
    <3> QED
      BY <2>4, <3>1, LayeringLowers DEF GoesOn
  <2>5. CASE Finish
    BY <2>5 DEF Finish, GoesOn
  <2>6. CASE Ended
    BY <2>6 DEF Ended
  <2> QED
    BY <2>1, <2>2, <2>3, <2>4, <2>5, <2>6 DEF Next
<1> QED
  BY <1>1, Kahns, PTL DEF Spec

=============================================================================
