------------------------ MODULE ControllerLockProofs ------------------------
(***************************************************************************)
(* Proofs about ControllerLock, for any conductors, runs, lease and stall. *)
(***************************************************************************)
EXTENDS ControllerLock, TLAPS

(***************************************************************************)
(* OneRunUntilALeaseLapses is not inductive: it says nothing of a process  *)
(* about to UPDATE nor of the row.  Until a lapse, every process that has  *)
(* read a row it may take, or is inside, works for the run in the row; the *)
(* others cannot have seen an expired lease because none has expired.      *)
(***************************************************************************)
MayWrite(c) == pc[c] \in {"update", "beat", "working"}

IInv ==
    /\ TypeOK
    /\ leases = "kept" => /\ holder # None => left >= 0
                         /\ \A c \in Conductor : MayWrite(c) => holder = RunOf[c]

\* Every variable keeps to its set of values, whatever the processes do.
LEMMA TypeCorrect == Spec => []TypeOK
<1> USE ControllerLockAssumption DEF ControllerLockAssumption, TypeOK, Floor
<1>1. Init => TypeOK
  BY DEF Init, PC
<1>2. TypeOK /\ [Next]_vars => TypeOK'
  <2> SUFFICES ASSUME TypeOK, [Next]_vars
               PROVE  TypeOK'
    OBVIOUS
  <2> USE DEF Goto, PC
  <2>1. CASE UNCHANGED vars
    BY <2>1 DEF vars
  <2>2. CASE Clock
    BY <2>2 DEF Clock, NoteLapse
  <2>3. ASSUME NEW c \in Conductor, ConductorStep(c)
        PROVE  TypeOK'
    <3>1. CASE Select(c)
      BY <3>1 DEF Select
    <3>2. CASE Insert(c)
      BY <3>2 DEF Insert, LeaseFrom, NoteLapse
    <3>3. CASE Update(c)
      BY <3>3 DEF Update, LeaseFrom, NoteLapse
    <3>4. CASE AcquireFails(c)
      BY <3>4 DEF AcquireFails
    <3>5. CASE Beat(c)
      BY <3>5 DEF Beat, LeaseFrom, NoteLapse
    <3>6. CASE Return(c)
      BY <3>6 DEF Return
    <3>7. CASE Crash(c)
      BY <3>7 DEF Crash
    <3>8. CASE Restart(c)
      BY <3>8 DEF Restart
    <3> QED
      BY <2>3, <3>1, <3>2, <3>3, <3>4, <3>5, <3>6, <3>7, <3>8 DEF ConductorStep
  <2> QED
    BY <2>1, <2>2, <2>3 DEF Next
<1> QED
  BY <1>1, <1>2, PTL DEF Spec

\* The strengthened invariant holds in every reachable state.
LEMMA Strengthened == Spec => []IInv
<1> USE ControllerLockAssumption DEF ControllerLockAssumption
<1>1. Init => IInv
  BY DEF Init, IInv, TypeOK, Floor, PC, MayWrite
<1>2. IInv /\ TypeOK' /\ [Next]_vars => IInv'
  <2> SUFFICES ASSUME IInv, TypeOK', [Next]_vars, leases' = "kept"
               PROVE  /\ (holder # None => left >= 0)'
                      /\ \A c \in Conductor : MayWrite(c)' => holder' = RunOf[c]
    BY DEF IInv
  <2> USE DEF IInv, TypeOK, MayWrite, Goto
  <2>1. CASE UNCHANGED vars
    BY <2>1 DEF vars
  <2>2. CASE Clock
    BY <2>2 DEF Clock, NoteLapse, Floor
  <2>3. ASSUME NEW c \in Conductor, ConductorStep(c)
        PROVE  /\ (holder # None => left >= 0)'
               /\ \A d \in Conductor : MayWrite(d)' => holder' = RunOf[d]
    <3>1. CASE Select(c)
      <4>1. ASSUME NEW s \in 0 .. Stall, Expired(s), holder # None
            PROVE  FALSE
        BY <3>1, <4>1 DEF Select, Expired, Floor
      <4> QED
        BY <3>1, <4>1 DEF Select
    <3>2. CASE Insert(c)
      BY <3>2 DEF Insert, LeaseFrom, NoteLapse, Floor
    <3>3. CASE Update(c)
      <4>1. leases = "kept" /\ (holder # None => left >= 0)'
        BY <3>3 DEF Update, NoteLapse, Floor
      <4>2. holder' = holder
        BY <3>3, <4>1 DEF Update
      <4> QED
        BY <3>3, <4>1, <4>2 DEF Update
    <3>4. CASE AcquireFails(c)
      BY <3>4 DEF AcquireFails
    <3>5. CASE Beat(c)
      <4>1. leases = "kept" /\ (holder # None => left >= 0)'
        BY <3>5 DEF Beat, NoteLapse, Floor
      <4> QED
        BY <3>5, <4>1 DEF Beat
    <3>6. CASE Return(c)
      BY <3>6 DEF Return
    <3>7. CASE Crash(c)
      BY <3>7 DEF Crash
    <3>8. CASE Restart(c)
      BY <3>8 DEF Restart
    <3> QED
      BY <2>3, <3>1, <3>2, <3>3, <3>4, <3>5, <3>6, <3>7, <3>8 DEF ConductorStep
  <2> QED
    BY <2>1, <2>2, <2>3 DEF Next
<1>3. IInv => TypeOK
  BY DEF IInv
<1> QED
  BY <1>1, <1>2, TypeCorrect, PTL DEF Spec

\* Until some lease has run out the lock gives mutual exclusion between
\* runs, for any number of conductor processes and any interleaving of the
\* statements of acquire_controller_lock and heartbeat_controller_lock.
THEOREM MutualExclusionOfRuns == Spec => []OneRunUntilALeaseLapses
<1>1. IInv => OneRunUntilALeaseLapses
  BY DEF IInv, MayWrite, OneRunUntilALeaseLapses, Inside
<1> QED
  BY <1>1, Strengthened, PTL

\* Until then the row does not change hands either: whoever has inserted it
\* keeps it, through the statements other processes have decided on before,
\* crashes of its own processes and a heartbeat that comes late.
THEOREM LockStaysWithItsRun ==
    Spec => [][leases' = "kept" /\ holder # None => holder' = holder]_vars
<1>1. IInv /\ IInv' /\ [Next]_vars
        => [leases' = "kept" /\ holder # None => holder' = holder]_vars
  <2> SUFFICES ASSUME IInv, IInv', [Next]_vars, leases' = "kept", holder # None
               PROVE  holder' = holder
    OBVIOUS
  <2>1. ASSUME NEW c \in Conductor, Update(c)
        PROVE  holder' = holder
    <3>1. pc'[c] = "beat" /\ holder' = RunOf[c] /\ pc[c] = "update"
      BY <2>1 DEF Update, Goto, IInv, TypeOK
    <3>2. leases = "kept"
      BY <2>1 DEF Update, NoteLapse, IInv, TypeOK
    <3> QED
      BY <3>1, <3>2 DEF IInv, MayWrite
  <2>2. ASSUME NEW c \in Conductor, ~Update(c), ConductorStep(c)
        PROVE  holder' = holder
    BY <2>2 DEF ConductorStep, Select, Insert, AcquireFails, Beat, Return, Crash, Restart
  <2>3. CASE Clock \/ UNCHANGED vars
    BY <2>3 DEF Clock, vars
  <2> QED
    BY <2>1, <2>2, <2>3 DEF Next
<1> QED
  BY <1>1, Strengthened, PTL DEF Spec

---------------------------------------------------------------------------
(***************************************************************************)
(* The safety half of TicksGoOn.                                           *)
(***************************************************************************)
LockRunsOut ==
    /\ holder # None => holder' # None
    /\ holder # None /\ (holder' # holder \/ left' > left) =>
          \E c \in Conductor : RunOf[c] = holder' /\ Inside(c)'
    /\ left = Floor => \A c \in Conductor : Select(c) => pc'[c] \in {"insert", "update"}

\* The row is never deleted.  Only a process inside its tick gets it or
\* prolongs its lease, so that the lease of a run that is down falls with the
\* clock; and once it has fallen to Floor (where Clock stops) no SELECT
\* turns a process away, however old the clock reading it uses.
\* (conductor.py:52-91)
THEOREM LocksRunOut == Spec => [][LockRunsOut]_vars
<1> USE ControllerLockAssumption DEF ControllerLockAssumption, TypeOK
<1>1. TypeOK /\ [Next]_vars => [LockRunsOut]_vars
  <2> SUFFICES ASSUME TypeOK, Next
               PROVE  LockRunsOut
    OBVIOUS
  <2>1. ASSUME NEW c \in Conductor, Insert(c) \/ Update(c) \/ Beat(c), holder # None
        PROVE  /\ holder' # None
               /\ holder' # holder \/ left' > left => RunOf[c] = holder' /\ Inside(c)'
    BY <2>1 DEF Insert, Update, Beat, Inside, Goto
  <2>2. Clock => holder' = holder /\ ~(left' > left)
    BY DEF Clock, Floor
  <2>3. ASSUME NEW c \in Conductor,
               Select(c) \/ AcquireFails(c) \/ Return(c) \/ Crash(c) \/ Restart(c)
        PROVE  UNCHANGED <<holder, left>>
    BY <2>3 DEF Select, AcquireFails, Return, Crash, Restart
  <2>4. /\ holder # None => holder' # None
        /\ holder # None /\ (holder' # holder \/ left' > left) =>
              \E c \in Conductor : RunOf[c] = holder' /\ Inside(c)'
    <3>1. left' = left => ~(left' > left)
      OBVIOUS
    <3> QED
      BY <2>1, <2>2, <2>3, <3>1 DEF Next, ConductorStep
  <2>5. ASSUME left = Floor, NEW c \in Conductor, Select(c)
        PROVE  pc'[c] \in {"insert", "update"}
    <3>1. \A s \in 0 .. Stall : Expired(s)
      BY <2>5 DEF Expired, Floor
    <3> QED
      BY <2>5, <3>1 DEF Select, Goto
  <2> QED
    BY <2>4, <2>5 DEF LockRunsOut
<1> QED
  BY <1>1, TypeCorrect, PTL DEF Spec
=============================================================================
