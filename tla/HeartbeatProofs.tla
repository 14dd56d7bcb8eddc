-------------------------- MODULE HeartbeatProofs ---------------------------
(***************************************************************************)
(* Proofs about Heartbeat, for any number of threads, beats and joins that *)
(* are given up.                                                           *)
(***************************************************************************)
EXTENDS Heartbeat, FiniteSetTheorems, TLAPS

\* The counter was below its bound when a thread read it.
HasRead == \A t \in Thread : pc[t] = "add" => got[t] < MaxBeats

LEMMA Types == Spec => [](TypeOK /\ HasRead)
<1> USE HeartbeatAssumption DEF HeartbeatAssumption
<1>1. Init => TypeOK /\ HasRead
  <2> SUFFICES ASSUME Init
               PROVE  TypeOK /\ HasRead
    OBVIOUS
  <2>1. pc \in [Thread -> PC] /\ got \in [Thread -> 0 .. MaxBeats] /\ HasRead
    BY DEF Init, PC, HasRead
  <2>2. \A t \in Thread : pc[t] = "new" /\ t > made
    BY DEF Init, Thread
  <2>3. made = 0 /\ thread = 0 /\ count = 0 /\ late = 0
    BY DEF Init
  <2>4. /\ made \in 0 .. MaxStarts /\ thread \in 0 .. made
        /\ count \in 0 .. MaxBeats /\ late \in 0 .. MaxLate
    BY <2>3
  <2> QED
    BY <2>1, <2>2, <2>4 DEF Init, TypeOK
<1>2. TypeOK /\ HasRead /\ [Next]_vars => (TypeOK /\ HasRead)'
  <2> SUFFICES ASSUME TypeOK, HasRead, [Next]_vars
               PROVE  (TypeOK /\ HasRead)'
    OBVIOUS
  <2> USE DEF TypeOK, HasRead, timerVars, beatVars, Goto
  <2>1. CASE UNCHANGED vars
    BY <2>1 DEF vars
  <2>2. CASE Start
    <3>1. made + 1 \in Thread
      BY <2>2 DEF Start, Thread
    <3>2. pc' \in [Thread -> PC] /\ HasRead'
      BY <2>2, <3>1 DEF Start, PC
    <3>3. \A t \in Thread : pc'[t] = "new" <=> t > made'
      BY <2>2, <3>1 DEF Start, Thread
    <3>4. made' \in 0 .. MaxStarts /\ thread' \in 0 .. made'
      BY <2>2 DEF Start
    <3> QED
      BY <2>2, <3>2, <3>3, <3>4 DEF Start
  <2>3. CASE Stop \/ Join \/ Finish
    <3>1. thread' \in 0 .. made' /\ late' \in 0 .. MaxLate
      BY <2>3 DEF Stop, Join, Finish
    <3> QED
      BY <2>3, <3>1 DEF Stop, Join, Finish
  <2>4. CASE Kill
    BY <2>4 DEF Kill, PC
  <2>5. ASSUME NEW t \in Thread, Loop(t) \/ Update(t) \/ Wait(t)
        PROVE  (TypeOK /\ HasRead)'
    BY <2>5 DEF Loop, Update, Wait, PC
  <2>6. ASSUME NEW t \in Thread, Add(t)
        PROVE  (TypeOK /\ HasRead)'
    BY <2>6 DEF Add, PC
  <2>7. ASSUME NEW t \in Thread, AppendEvent(t)
        PROVE  (TypeOK /\ HasRead)'
    BY <2>7 DEF AppendEvent, PC
  <2> QED
    BY <2>1, <2>2, <2>3, <2>4, <2>5, <2>6, <2>7 DEF Next, Beat
<1> QED
  BY <1>1, <1>2, PTL DEF Spec

\* Every variable keeps to its set of values.
THEOREM TypeCorrect == Spec => []TypeOK
BY Types, PTL

---------------------------------------------------------------------------
LEMMA ThreadsAreFinite ==
    ASSUME NEW S \in SUBSET Thread
    PROVE  IsFiniteSet(S) /\ Cardinality(S) \in Nat
<1>1. IsFiniteSet(Thread)
  BY HeartbeatAssumption, FS_Interval DEF HeartbeatAssumption, Thread
<1> QED
  BY <1>1, FS_Subset, FS_CardinalityType

\* A step that leaves no thread behind keeps the count.
LEMMA NoneLeftBehind ==
    ASSUME TypeOK, LeftBehindOnlyByGivingUp, LeftBehind' \subseteq LeftBehind, late' = late
    PROVE  LeftBehindOnlyByGivingUp'
<1>1. IsFiniteSet(LeftBehind) /\ Cardinality(LeftBehind) \in Nat
  BY ThreadsAreFinite DEF LeftBehind
<1>2. IsFiniteSet(LeftBehind') /\ Cardinality(LeftBehind') =< Cardinality(LeftBehind)
  BY <1>1, FS_Subset
<1>3. Cardinality(LeftBehind') \in Nat
  BY <1>2, FS_CardinalityType
<1> QED
  BY <1>1, <1>2, <1>3 DEF TypeOK, LeftBehindOnlyByGivingUp

\* There are no more stray threads than joins that were given up.
THEOREM LeftBehindAreFew == Spec => []LeftBehindOnlyByGivingUp
<1> USE HeartbeatAssumption DEF HeartbeatAssumption
<1>1. Init => LeftBehindOnlyByGivingUp
  <2> SUFFICES ASSUME Init
               PROVE  LeftBehindOnlyByGivingUp
    OBVIOUS
  <2>1. LeftBehind = {} /\ late = 0
    BY DEF Init, LeftBehind, Alive
  <2> QED
    BY <2>1, FS_EmptySet DEF LeftBehindOnlyByGivingUp
<1>2. LeftBehindOnlyByGivingUp /\ TypeOK /\ [Next]_vars => LeftBehindOnlyByGivingUp'
  <2> SUFFICES ASSUME LeftBehindOnlyByGivingUp, TypeOK, [Next]_vars
               PROVE  LeftBehindOnlyByGivingUp'
    OBVIOUS
  <2> USE DEF timerVars, beatVars, Goto
  <2>1. CASE UNCHANGED vars
    BY <2>1, NoneLeftBehind DEF vars, LeftBehind, Alive
  <2>2. CASE Start
    <3>1. LeftBehind' \subseteq LeftBehind
      BY <2>2 DEF Start, LeftBehind, Alive, TypeOK, Thread
    <3> QED
      BY <2>2, <3>1, NoneLeftBehind DEF Start
  <2>3. CASE Stop \/ Finish \/ Kill
    <3>1. LeftBehind' \subseteq LeftBehind
      BY <2>3 DEF Stop, Finish, Kill, LeftBehind, Alive
    <3> QED
      BY <2>3, <3>1, NoneLeftBehind DEF Stop, Finish, Kill
  <2>4. CASE Join /\ ~Alive(thread)
    <3>1. LeftBehind' \subseteq LeftBehind
      BY <2>4 DEF Join, LeftBehind, Alive
    <3> QED
      BY <2>4, <3>1, NoneLeftBehind DEF Join
  <2>5. CASE Join /\ Alive(thread)
    <3>1. late' = late + 1 /\ LeftBehind' \subseteq LeftBehind \cup {thread}
      BY <2>5 DEF Join, LeftBehind, Alive
    <3>2. IsFiniteSet(LeftBehind) /\ Cardinality(LeftBehind) \in Nat
      BY ThreadsAreFinite DEF LeftBehind
    <3>3. /\ IsFiniteSet(LeftBehind \cup {thread})
          /\ Cardinality(LeftBehind \cup {thread}) =< Cardinality(LeftBehind) + 1
          /\ Cardinality(LeftBehind \cup {thread}) \in Nat
      BY <3>2, FS_AddElement, FS_CardinalityType
    <3>4. /\ Cardinality(LeftBehind') =< Cardinality(LeftBehind \cup {thread})
          /\ Cardinality(LeftBehind') \in Nat
      BY <3>1, <3>3, FS_Subset, FS_CardinalityType
    <3> QED
      BY <3>1, <3>2, <3>3, <3>4 DEF LeftBehindOnlyByGivingUp, TypeOK
  <2>6. ASSUME NEW t \in Thread, Beat(t)
        PROVE  LeftBehindOnlyByGivingUp'
    <3>1. UNCHANGED <<thread, late>> /\ Alive(t)
      BY <2>6 DEF Beat, Loop, Add, Update, AppendEvent, Wait, Alive
    <3>2. \A u \in Thread : u # t => pc'[u] = pc[u]
      BY <2>6 DEF Beat, Loop, Add, Update, AppendEvent, Wait, TypeOK
    <3>3. LeftBehind' \subseteq LeftBehind
      BY <3>1, <3>2 DEF LeftBehind, Alive
    <3> QED
      BY <3>1, <3>3, NoneLeftBehind
  <2> QED
    BY <2>1, <2>2, <2>3, <2>4, <2>5, <2>6 DEF Next
<1> QED
  BY <1>1, <1>2, Types, PTL DEF Spec

\* Without a join given up there is one thread at most.
LEMMA OneThread ==
    ASSUME TypeOK, LeftBehindOnlyByGivingUp, late = 0, NEW t \in Thread, Alive(t)
    PROVE  t = thread
<1>1. IsFiniteSet(LeftBehind) /\ Cardinality(LeftBehind) \in Nat
  BY ThreadsAreFinite DEF LeftBehind
<1>2. LeftBehind = {}
  BY <1>1, FS_EmptySet DEF LeftBehindOnlyByGivingUp
<1> QED
  BY <1>2 DEF LeftBehind

---------------------------------------------------------------------------
(***************************************************************************)
(* IdsAreUniqueUnlessGivenUp.  While there is one thread the counter is    *)
(* what it has read, goes up by one with each beat, and stands above every *)
(* id in the file once the beat has counted.                               *)
(***************************************************************************)
CountedBefore(t) ==
    /\ pc[t] = "add" => got[t] = count
    /\ pc[t] \in {"update", "append"} => count \notin ids

SoleInv ==
    late = 0 =>
        /\ twice = {}
        /\ \A i \in ids : i =< count
        /\ \A t \in Thread : CountedBefore(t)

\* No event's id is used again, until a join is given up.
THEOREM IdsAreUnique == Spec => []IdsAreUniqueUnlessGivenUp
<1> USE HeartbeatAssumption DEF HeartbeatAssumption
<1>1. Init => SoleInv
  BY DEF Init, SoleInv, CountedBefore
<1>2. SoleInv /\ TypeOK /\ LeftBehindOnlyByGivingUp /\ [Next]_vars => SoleInv'
  <2> SUFFICES ASSUME SoleInv, TypeOK, LeftBehindOnlyByGivingUp, [Next]_vars, late' = 0
               PROVE  /\ twice' = {}
                      /\ \A i \in ids' : i =< count'
                      /\ \A t \in Thread : CountedBefore(t)'
    BY DEF SoleInv
  <2> USE DEF timerVars, beatVars, Goto, TypeOK
  <2>1. late = 0
    BY DEF Next, vars, Start, Stop, Join, Finish, Kill, Beat, Loop, Add, Update, AppendEvent, Wait
  <2>2. /\ twice = {}
        /\ \A i \in ids : i =< count
        /\ \A t \in Thread : CountedBefore(t)
    BY <2>1 DEF SoleInv
  <2>3. CASE UNCHANGED vars \/ Stop \/ Join \/ Finish
    BY <2>2, <2>3 DEF vars, Stop, Join, Finish, CountedBefore
  <2>4. CASE Start \/ Kill
    BY <2>2, <2>4 DEF Start, Kill, CountedBefore
  <2>5. ASSUME NEW t \in Thread, Beat(t)
        PROVE  /\ twice' = {}
               /\ \A i \in ids' : i =< count'
               /\ \A u \in Thread : CountedBefore(u)'
    <3>1. \A u \in Thread : u # t => ~Alive(u) /\ pc'[u] = pc[u]
      <4>1. Alive(t)
        BY <2>5 DEF Beat, Loop, Add, Update, AppendEvent, Wait, Alive
      <4>2. \A u \in Thread : u # t => pc'[u] = pc[u]
        BY <2>5 DEF Beat, Loop, Add, Update, AppendEvent, Wait
      <4> QED
        BY <2>1, <4>1, <4>2, OneThread
    <3>2. \A u \in Thread : u # t => CountedBefore(u)'
      BY <3>1 DEF Alive, CountedBefore
    <3>3. CASE Loop(t) \/ Wait(t) \/ Update(t)
      BY <2>2, <2>5, <3>2, <3>3 DEF Loop, Wait, Update, CountedBefore
    <3>4. CASE Add(t)
      <4>1. count' = count + 1 /\ pc'[t] = "update" /\ UNCHANGED <<ids, twice>>
        BY <2>2, <2>5, <3>4 DEF Add, CountedBefore
      <4>2. count' \notin ids /\ \A i \in ids : i =< count'
        BY <2>2, <4>1
      <4> QED
        BY <2>2, <3>2, <4>1, <4>2 DEF CountedBefore
    <3>5. CASE AppendEvent(t)
      <4>1. count \notin ids
        BY <2>2, <2>5, <3>5 DEF AppendEvent, CountedBefore
      <4>2. twice' = twice /\ ids' = ids \cup {count} /\ count' = count /\ pc'[t] = "wait"
        BY <2>5, <3>5, <4>1 DEF AppendEvent
      <4> QED
        BY <2>2, <3>2, <4>2 DEF CountedBefore
    <3> QED
      BY <2>5, <3>3, <3>4, <3>5 DEF Beat
  <2> QED
    BY <2>3, <2>4, <2>5 DEF Next
<1>3. SoleInv => IdsAreUniqueUnlessGivenUp
  BY DEF SoleInv, IdsAreUniqueUnlessGivenUp
<1> QED
  BY <1>1, <1>2, <1>3, Types, LeftBehindAreFew, PTL DEF Spec

---------------------------------------------------------------------------
(***************************************************************************)
(* The safety half of ThreadsEnd: once the worker is through with the      *)
(* timer each step of a thread, one left behind too, brings it nearer to   *)
(* its end.                                                                *)
(***************************************************************************)
StepsLeft(t) ==
    CASE pc[t] = "add" -> 4
      [] pc[t] = "update" -> 3
      [] pc[t] = "append" -> 2
      [] pc[t] \in {"loop", "wait"} -> 1
      [] OTHER -> 0

EndsDrawNear ==
    [][worker = "over" =>
          \A t \in Thread : pc'[t] = pc[t] \/ StepsLeft(t)' < StepsLeft(t)]_vars

\* The timer has been stopped when the worker joins a thread or has none.
StoppedWithout ==
    /\ worker = "joining" => event
    /\ worker = "over" => thread = 0
    /\ made = 0 \/ event \/ thread # 0

\* No thread goes on for ever, only because nothing lets it go round again.
THEOREM ThreadsDoNotGoOn == Spec => EndsDrawNear
<1> USE HeartbeatAssumption DEF HeartbeatAssumption
<1>1. Init => StoppedWithout
  BY DEF Init, StoppedWithout
<1>2. StoppedWithout /\ TypeOK /\ [Next]_vars => StoppedWithout'
  <2> SUFFICES ASSUME StoppedWithout, TypeOK, [Next]_vars
               PROVE  StoppedWithout'
    OBVIOUS
  <2> USE DEF StoppedWithout, timerVars, beatVars, TypeOK
  <2>1. CASE UNCHANGED vars \/ Stop \/ Join \/ Finish \/ Kill
    BY <2>1 DEF vars, Stop, Join, Finish, Kill
  <2>2. CASE Start
    <3>1. thread' # 0 /\ worker' = "up"
      BY <2>2 DEF Start
    <3> QED
      BY <3>1
  <2>3. ASSUME NEW t \in Thread, Beat(t)
        PROVE  StoppedWithout'
    BY <2>3 DEF Beat, Loop, Add, Update, AppendEvent, Wait
  <2> QED
    BY <2>1, <2>2, <2>3 DEF Next
<1>3. StoppedWithout /\ TypeOK /\ [Next]_vars =>
        [worker = "over" =>
           \A t \in Thread : pc'[t] = pc[t] \/ StepsLeft(t)' < StepsLeft(t)]_vars
  <2> SUFFICES ASSUME StoppedWithout, TypeOK, Next, worker = "over", NEW t \in Thread,
                      pc'[t] # pc[t]
               PROVE  StepsLeft(t)' < StepsLeft(t)
    BY DEF vars
  <2> USE DEF TypeOK, Goto
  <2>1. PICK u \in Thread : Beat(u)
    BY DEF Next, Start, Stop, Join, Finish, Kill, timerVars, beatVars
  <2>2. u = t /\ made # 0 /\ event
    BY <2>1 DEF Beat, Loop, Add, Update, AppendEvent, Wait, StoppedWithout, Thread
  <2> QED
    BY <2>1, <2>2 DEF Beat, Loop, Add, Update, AppendEvent, Wait, StepsLeft
<1> QED
  BY <1>1, <1>2, <1>3, Types, PTL DEF Spec, EndsDrawNear
=============================================================================
