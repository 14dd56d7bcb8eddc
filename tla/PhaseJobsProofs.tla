--------------------------- MODULE PhaseJobsProofs --------------------------
(***************************************************************************)
(* Proofs about PhaseJobs: for any number of conductors, iterations and    *)
(* phases, any lease, grace and stall.                                     *)
(***************************************************************************)
EXTENDS PhaseJobs, TLAPS

\* Every variable keeps to its set of values.
LEMMA TypeCorrect == Spec => []TypeOK
<1> USE PhaseJobsAssumption DEF PhaseJobsAssumption
<1>1. Init => TypeOK
  BY DEF Init, TypeOK, Status, Floor, PC, NoCancel
<1>2. TypeOK /\ [Next]_vars => TypeOK'
  <2> SUFFICES ASSUME TypeOK, [Next]_vars
               PROVE  TypeOK'
    OBVIOUS
  <2> USE DEF TypeOK
  <2>1. CASE UNCHANGED vars
    BY <2>1 DEF vars
  <2>2. CASE Clock
    BY <2>2 DEF Clock, Floor, tickVars, runVars
  <2>3. CASE Operator
    <3> USE DEF tickVars, runVars, Status, NoCancel
    <3>1. ASSUME NEW i \in Iteration, CreateIteration(i)
          PROVE  TypeOK'
      BY <3>1 DEF CreateIteration
    <3>2. ASSUME NEW i \in Iteration, NEW p \in Phase, InsertJob(i, p)
          PROVE  TypeOK'
      BY <3>2 DEF InsertJob, Job
    <3>3. CASE CancelPick
      BY <3>3 DEF CancelPick
    <3>4. CASE CancelIteration
      BY <3>4 DEF CancelIteration
    <3>5. CASE CancelJobs
      BY <3>5 DEF CancelJobs, Final
    <3>6. CASE Pause \/ Resume \/ Halt
      BY <3>6 DEF Pause, Resume, Halt
    <3> QED
      BY <2>3, <3>1, <3>2, <3>3, <3>4, <3>5, <3>6 DEF Operator
  <2>4. ASSUME NEW j \in Job, Worker(j)
        PROVE  TypeOK'
    BY <2>4 DEF Worker, WorkerStart, WorkerEnds, WorkerDies, Status, Final,
                tickVars, runVars
  <2>5. ASSUME NEW c \in Conductor, Tick(c)
        PROVE  TypeOK'
    <3> USE DEF Goto, PC, runVars
    <3>1. CASE Begin(c)
      BY <3>1 DEF Begin, NoteBegin
    <3>2. CASE ReapSelect(c)
      BY <3>2 DEF ReapSelect
    <3>3. ASSUME NEW j \in Job, Reap(c, j)
          PROVE  TypeOK'
      BY <3>3 DEF Reap, Status, Final
    <3>4. CASE ClaimSelect(c)
      BY <3>4 DEF ClaimSelect
    <3>5. CASE ClaimCas(c)
      BY <3>5 DEF ClaimCas, CasHits, JobLease, Status, Floor
    <3>6. CASE EmitStarted(c)
      <4>1. started' \in [Job -> Nat]
        <5>1. CASE picked[c] = None
          BY <3>6, <5>1 DEF EmitStarted
        <5>2. CASE picked[c] \in Job
          BY <3>6, <5>2 DEF EmitStarted
        <5> QED
          BY <5>1, <5>2
      <4> QED
        BY <3>6, <4>1 DEF EmitStarted
    <3>7. CASE LatestSelect(c)
      BY <3>7 DEF LatestSelect
    <3>8. CASE JobsSelect(c)
      BY <3>8 DEF JobsSelect
    <3>9. CASE Promote(c)
      BY <3>9 DEF Promote
    <3> QED
      BY <2>5, <3>1, <3>2, <3>3, <3>4, <3>5, <3>6, <3>7, <3>8, <3>9 DEF Tick, GoOn
  <2>6. ASSUME NEW c \in Conductor, Crash(c) \/ Restart(c)
        PROVE  TypeOK'
    BY <2>6 DEF Crash, Restart, Forget, Goto, PC, runVars
  <2> QED
    BY <2>1, <2>2, <2>3, <2>4, <2>5, <2>6 DEF Next
<1> QED
  BY <1>1, <1>2, PTL DEF Spec

---------------------------------------------------------------------------
(***************************************************************************)
(* Why a job starts once.  A conductor between its compare-and-swap and    *)
(* its events is alone with its job (the swap needs a queued row and       *)
(* leaves none), the job has begun, and no event has been written for it.  *)
(* Nobody turns a job that has begun back: the reaper and the workers,     *)
(* whose UPDATEs do not compare the status, hold only jobs that have.      *)
(***************************************************************************)
Begun(j) == status[j] \notin {"absent", "queued"}

ClaimInv ==
    /\ \A j \in Job : started[j] # 0 => started[j] = 1 /\ Begun(j)
    /\ \A j \in Job : worker[j] # "none" => Begun(j)
    /\ \A c \in Conductor : pc[c] \in {"claim", "claimed"} => picked[c] \in Job
    /\ \A c \in Conductor :
          pc[c] = "claimed" => started[picked[c]] = 0 /\ Begun(picked[c])
    /\ \A c, d \in Conductor :
          pc[c] = "claimed" /\ pc[d] = "claimed" /\ picked[c] = picked[d] => c = d
    /\ \A c \in Conductor : \A j \in overdue[c] : Begun(j)

\* No step takes a job that has begun back to absent or queued.
LEMMA BegunStays ==
  ASSUME TypeOK, ClaimInv, [Next]_vars, NEW j \in Job, Begun(j)
  PROVE  Begun(j)'
<1> USE DEF TypeOK, ClaimInv, Begun
<1>1. CASE UNCHANGED vars
  BY <1>1 DEF vars
<1>2. CASE Clock
  BY <1>2 DEF Clock
<1>3. CASE Operator
  <2>1. CASE \E i \in Iteration, p \in Phase : InsertJob(i, p)
    BY <2>1 DEF InsertJob
  <2>2. CASE CancelJobs
    BY <2>2 DEF CancelJobs
  <2> QED
    BY <1>3, <2>1, <2>2 DEF Operator, CreateIteration, CancelPick,
       CancelIteration, Pause, Resume, Halt
<1>4. ASSUME NEW k \in Job, Worker(k)
      PROVE  Begun(j)'
  BY <1>4 DEF Worker, WorkerStart, WorkerEnds, WorkerDies
<1>5. ASSUME NEW c \in Conductor, Tick(c)
      PROVE  Begun(j)'
  <2>1. ASSUME NEW k \in Job, Reap(c, k)
        PROVE  Begun(j)'
    BY <2>1 DEF Reap
  <2>2. CASE ClaimCas(c)
    BY <2>2 DEF ClaimCas, CasHits
  <2> QED
    BY <1>5, <2>1, <2>2 DEF Tick, GoOn, Begin, NoteBegin, ReapSelect, ClaimSelect, EmitStarted,
       LatestSelect, JobsSelect, Promote
<1>6. ASSUME NEW c \in Conductor, Crash(c) \/ Restart(c)
      PROVE  Begun(j)'
  BY <1>6 DEF Crash, Restart
<1> QED
  BY <1>1, <1>2, <1>3, <1>4, <1>5, <1>6 DEF Next

\* The claim invariant holds in every reachable state.
LEMMA Claims == Spec => []ClaimInv
<1>1. Init => ClaimInv
  BY DEF Init, ClaimInv, Begun
<1>2. TypeOK /\ TypeOK' /\ ClaimInv /\ [Next]_vars => ClaimInv'
  <2> SUFFICES ASSUME TypeOK, TypeOK', ClaimInv, [Next]_vars
               PROVE  ClaimInv'
    OBVIOUS
  <2>0. \A j \in Job : Begun(j) => Begun(j)'
    BY BegunStays
  <2> USE <2>0 DEF TypeOK, ClaimInv
  <2>1. CASE UNCHANGED vars
    BY <2>1 DEF vars
  <2>2. CASE Clock
    BY <2>2 DEF Clock, tickVars
  <2>3. CASE Operator
    <3>1. UNCHANGED <<started, worker, pc, overdue, picked>>
      BY <2>3 DEF Operator, CreateIteration, InsertJob, CancelPick,
         CancelIteration, CancelJobs, Pause, Resume, Halt, tickVars
    <3> QED
      BY <3>1
  <2>4. ASSUME NEW j \in Job, Worker(j)
        PROVE  ClaimInv'
    <3>1. CASE WorkerStart(j)
      BY <2>4, <3>1 DEF WorkerStart, tickVars
    <3>2. CASE WorkerEnds(j) \/ WorkerDies(j)
      BY <3>2 DEF WorkerEnds, WorkerDies, tickVars
    <3> QED
      BY <2>4, <3>1, <3>2 DEF Worker
  <2>5. ASSUME NEW c \in Conductor, Tick(c)
        PROVE  ClaimInv'
    <3> USE DEF Goto
    <3>1. CASE Begin(c) \/ LatestSelect(c) \/ JobsSelect(c) \/ Promote(c)
      BY <3>1 DEF Begin, NoteBegin, LatestSelect, JobsSelect, Promote
    <3>2. CASE ReapSelect(c)
      BY <3>2 DEF ReapSelect, Overdue, Begun
    <3>3. ASSUME NEW j \in Job, Reap(c, j)
          PROVE  ClaimInv'
      BY <3>3 DEF Reap
    <3>4. CASE ClaimSelect(c)
      BY <3>4 DEF ClaimSelect
    <3>5. CASE ClaimCas(c)
      BY <3>5 DEF ClaimCas, CasHits, Begun
    <3>6. CASE EmitStarted(c)
      BY <3>6 DEF EmitStarted
    <3> QED
      BY <2>5, <3>1, <3>2, <3>3, <3>4, <3>5, <3>6 DEF Tick, GoOn
  <2>6. ASSUME NEW c \in Conductor, Crash(c) \/ Restart(c)
        PROVE  ClaimInv'
    <3>1. /\ UNCHANGED <<started, worker>>
          /\ pc'[c] \notin {"claim", "claimed"}
          /\ overdue'[c] \subseteq overdue[c]
      BY <2>6 DEF Crash, Restart, Forget, Goto
    <3>2. \A d \in Conductor : d # c =>
              pc'[d] = pc[d] /\ picked'[d] = picked[d] /\ overdue'[d] = overdue[d]
      BY <2>6 DEF Crash, Restart, Forget, Goto
    <3> QED
      BY <3>1, <3>2
  <2> QED
    BY <2>1, <2>2, <2>3, <2>4, <2>5, <2>6 DEF Next
<1> QED
  BY <1>1, <1>2, TypeCorrect, PTL DEF Spec

\* The phase_jobs table implements the abstract job lifecycle: each job is
\* claimed once, started once and after its claim, and never comes back.
THEOREM LifecycleImplemented == Spec => LifecycleKept
<1> DEFINE stages == [j \in Job |-> Stage(j)]
<1>1. Init => Lifecycle!Init
  BY DEF Init, Lifecycle!Init, Stage, Final
<1>2. ASSUME TypeOK, TypeOK', ClaimInv, [Next]_vars
      PROVE  [Lifecycle!Next]_<<stages, started>>
  <2> USE <1>2 DEF TypeOK
  <2>0. ASSUME UNCHANGED <<status, started>>
        PROVE  UNCHANGED <<stages, started>>
    BY <2>0 DEF Stage
  <2>1. CASE UNCHANGED vars
    BY <2>0, <2>1 DEF vars
  <2>2. CASE Clock
    BY <2>0, <2>2 DEF Clock
  <2>3. CASE Operator
    <3>1. ASSUME NEW i \in Iteration, NEW p \in Phase, InsertJob(i, p)
          PROVE  [Lifecycle!Next]_<<stages, started>>
      <4>1. <<i, p>> \in Job
        BY DEF Job
      <4>2. Lifecycle!Enqueue(<<i, p>>)
        BY <3>1, <4>1 DEF InsertJob, Lifecycle!Enqueue, Stage, Final
      <4> QED
        BY <4>1, <4>2 DEF Lifecycle!Next
    <3>2. CASE CancelJobs
      <4> DEFINE S == {j \in Job : j[1] = cancel.of
                                   /\ status[j] \in {"queued", "running"}}
      <4>1. Lifecycle!End(S)
        BY <3>2 DEF CancelJobs, Lifecycle!End, Stage, Final
      <4> QED
        BY <4>1 DEF Lifecycle!Next
    <3>3. CASE \/ \E i \in Iteration : CreateIteration(i)
               \/ CancelPick \/ CancelIteration \/ Pause \/ Resume \/ Halt
      BY <2>0, <3>3 DEF CreateIteration, CancelPick, CancelIteration, Pause,
                        Resume, Halt
    <3> QED
      BY <2>3, <3>1, <3>2, <3>3 DEF Operator
  <2>4. ASSUME NEW j \in Job, Begun(j), UNCHANGED started,
               NEW s \in Final, status' = [status EXCEPT ![j] = s]
        PROVE  [Lifecycle!Next]_<<stages, started>>
    <3>1. CASE status[j] \in Final
      BY <2>4, <3>1 DEF Stage
    <3>2. CASE status[j] = "running"
      <4>1. Lifecycle!End({j})
        BY <2>4, <3>2 DEF Lifecycle!End, Stage, Final
      <4> QED
        BY <4>1 DEF Lifecycle!Next
    <3> QED
      BY <2>4, <3>1, <3>2 DEF Begun, Status
  <2>5. ASSUME NEW j \in Job, Worker(j)
        PROVE  [Lifecycle!Next]_<<stages, started>>
    <3>1. CASE WorkerStart(j) \/ WorkerDies(j)
      BY <2>0, <3>1 DEF WorkerStart, WorkerDies
    <3>2. CASE WorkerEnds(j)
      <4>1. Begun(j) /\ UNCHANGED started
        BY <3>2 DEF WorkerEnds, ClaimInv
      <4>2. PICK s \in Final : status' = [status EXCEPT ![j] = s]
        BY <3>2 DEF WorkerEnds, Final
      <4> QED
        BY <2>4, <4>1, <4>2
    <3> QED
      BY <2>5, <3>1, <3>2 DEF Worker
  <2>6. ASSUME NEW c \in Conductor, Tick(c)
        PROVE  [Lifecycle!Next]_<<stages, started>>
    <3>1. ASSUME NEW j \in Job, Reap(c, j)
          PROVE  [Lifecycle!Next]_<<stages, started>>
      <4>1. Begun(j) /\ UNCHANGED started
        BY <3>1 DEF Reap, ClaimInv
      <4>2. "orphaned" \in Final /\ status' = [status EXCEPT ![j] = "orphaned"]
        BY <3>1 DEF Reap, Final
      <4> QED
        BY <2>4, <4>1, <4>2
    <3>2. CASE ClaimCas(c)
      <4>1. picked[c] \in Job
        BY <3>2 DEF ClaimCas, ClaimInv
      <4>2. CASE CasHits(picked[c])
        <5>1. /\ status[picked[c]] = "queued" /\ UNCHANGED started
              /\ status' = [status EXCEPT ![picked[c]] = "running"]
          BY <3>2, <4>2 DEF ClaimCas, CasHits
        <5>2. Lifecycle!Claim(picked[c])
          BY <4>1, <5>1 DEF Lifecycle!Claim, Stage, Final
        <5> QED
          BY <4>1, <5>2 DEF Lifecycle!Next
      <4>3. CASE ~CasHits(picked[c])
        BY <2>0, <3>2, <4>3 DEF ClaimCas
      <4> QED
        BY <4>2, <4>3
    <3>3. CASE EmitStarted(c)
      <4>1. picked[c] \in Job /\ started[picked[c]] = 0 /\ Begun(picked[c])
        BY <3>3 DEF EmitStarted, ClaimInv
      <4>2. Lifecycle!Start(picked[c])
        BY <3>3, <4>1 DEF EmitStarted, Lifecycle!Start, Stage, Begun, Status
      <4> QED
        BY <4>1, <4>2 DEF Lifecycle!Next
    <3>4. CASE \/ Begin(c) \/ ReapSelect(c) \/ ClaimSelect(c)
               \/ LatestSelect(c) \/ JobsSelect(c) \/ Promote(c)
      BY <2>0, <3>4 DEF Begin, NoteBegin, ReapSelect, ClaimSelect, LatestSelect,
                        JobsSelect, Promote
    <3> QED
      BY <2>6, <3>1, <3>2, <3>3, <3>4 DEF Tick, GoOn
  <2>7. ASSUME NEW c \in Conductor, Crash(c) \/ Restart(c)
        PROVE  [Lifecycle!Next]_<<stages, started>>
    BY <2>0, <2>7 DEF Crash, Restart
  <2> QED
    BY <2>1, <2>2, <2>3, <2>5, <2>6, <2>7 DEF Next
<1> QED
  BY <1>1, <1>2, TypeCorrect, Claims, PTL DEF Spec, LifecycleKept, Lifecycle!Spec

---------------------------------------------------------------------------
(***************************************************************************)
(* Why an orphan is overdue.  Between the reaper's SELECT and its UPDATE   *)
(* a job may end, but no lease in the reaper's hands grows: only a claim   *)
(* writes a lease, and only of a job that has not begun.                   *)
(***************************************************************************)
OrphanInv ==
    /\ OrphanedOnlyAfterGrace
    /\ \A c \in Conductor : \A j \in overdue[c] : left[j] < -Grace

\* A job is orphaned only when its lease is over by more than the grace.
THEOREM OrphansAreOverdue == Spec => []OrphanedOnlyAfterGrace
<1> USE PhaseJobsAssumption DEF PhaseJobsAssumption, OrphanInv, OrphanedOnlyAfterGrace
<1>1. Init => OrphanInv
  BY DEF Init
<1>2. TypeOK /\ TypeOK' /\ ClaimInv /\ OrphanInv /\ [Next]_vars => OrphanInv'
  <2> SUFFICES ASSUME TypeOK, TypeOK', ClaimInv, OrphanInv, [Next]_vars
               PROVE  OrphanInv'
    OBVIOUS
  <2> USE DEF TypeOK
  <2>1. CASE UNCHANGED vars
    BY <2>1 DEF vars
  <2>2. CASE Clock
    BY <2>2 DEF Clock, tickVars, Floor
  <2>3. CASE Operator
    <3>1. CASE \E i \in Iteration, p \in Phase : InsertJob(i, p)
      BY <3>1 DEF InsertJob, tickVars
    <3>2. CASE CancelJobs
      BY <3>2 DEF CancelJobs, tickVars
    <3> QED
      BY <2>3, <3>1, <3>2 DEF Operator, CreateIteration, CancelPick,
         CancelIteration, Pause, Resume, Halt, tickVars
  <2>4. ASSUME NEW j \in Job, Worker(j)
        PROVE  OrphanInv'
    BY <2>4 DEF Worker, WorkerStart, WorkerEnds, WorkerDies, tickVars
  <2>5. ASSUME NEW c \in Conductor, Tick(c)
        PROVE  OrphanInv'
    <3>1. CASE ReapSelect(c)
      BY <3>1 DEF ReapSelect, Overdue, Floor
    <3>2. ASSUME NEW j \in Job, Reap(c, j)
          PROVE  OrphanInv'
      BY <3>2 DEF Reap
    <3>3. CASE ClaimCas(c)
      <4>1. CASE CasHits(picked[c])
        <5>1. \A d \in Conductor : picked[c] \notin overdue[d]
          BY <4>1 DEF CasHits, ClaimInv, Begun
        <5> QED
          BY <3>3, <4>1, <5>1 DEF ClaimCas
      <4>2. CASE ~CasHits(picked[c])
        BY <3>3, <4>2 DEF ClaimCas
      <4> QED
        BY <4>1, <4>2
    <3>4. CASE \/ Begin(c) \/ ClaimSelect(c) \/ EmitStarted(c)
               \/ LatestSelect(c) \/ JobsSelect(c) \/ Promote(c)
      BY <3>4 DEF Begin, NoteBegin, ClaimSelect, EmitStarted, LatestSelect, JobsSelect,
                  Promote
    <3> QED
      BY <2>5, <3>1, <3>2, <3>3, <3>4 DEF Tick, GoOn
  <2>6. ASSUME NEW c \in Conductor, Crash(c) \/ Restart(c)
        PROVE  OrphanInv'
    BY <2>6 DEF Crash, Restart, Forget
  <2> QED
    BY <2>1, <2>2, <2>3, <2>4, <2>5, <2>6 DEF Next
<1>3. OrphanInv => OrphanedOnlyAfterGrace
  OBVIOUS
<1> QED
  BY <1>1, <1>2, <1>3, TypeCorrect, Claims, PTL DEF Spec

\* The part of EveryJobEnds that no fairness is needed for.  A claim is for
\* good: nobody renews the lease of a job that has begun, no second claim and
\* no worker that is alive, and each tick of the clock takes it down, until
\* every reading a reaper may use finds the job overdue.
THEOREM LeasesRunOut ==
    Spec => [][\A j \in Job : Begun(j) =>
                  /\ left'[j] =< left[j]
                  /\ Clock /\ status[j] = "running" =>
                        \/ left'[j] < left[j]
                        \/ \A s \in 0 .. Stall : Overdue(j, s)]_vars
<1>1. TypeOK /\ ClaimInv /\ [Next]_vars
        => [\A j \in Job : Begun(j) =>
               /\ left'[j] =< left[j]
               /\ Clock /\ status[j] = "running" =>
                     \/ left'[j] < left[j]
                     \/ \A s \in 0 .. Stall : Overdue(j, s)]_vars
  <2> SUFFICES ASSUME TypeOK, ClaimInv, Next, NEW j \in Job, Begun(j)
               PROVE  /\ left'[j] =< left[j]
                      /\ Clock /\ status[j] = "running" =>
                            \/ left'[j] < left[j]
                            \/ \A s \in 0 .. Stall : Overdue(j, s)
    OBVIOUS
  <2> USE PhaseJobsAssumption DEF PhaseJobsAssumption, TypeOK, Floor
  <2>1. ASSUME Clock
        PROVE  /\ left'[j] =< left[j]
               /\ status[j] = "running" =>
                     \/ left'[j] < left[j]
                     \/ \A s \in 0 .. Stall : Overdue(j, s)
    BY <2>1 DEF Clock, Overdue
  <2>2. ASSUME NEW c \in Conductor, ClaimCas(c)
        PROVE  left'[j] = left[j]
    BY <2>2 DEF ClaimCas, CasHits, Begun
  <2>3. Clock \/ UNCHANGED left \/ \E c \in Conductor : ClaimCas(c)
    BY DEF Next, Operator, CreateIteration, InsertJob, CancelPick, CancelIteration, CancelJobs,
           Pause, Resume, Halt, Worker, WorkerStart, WorkerEnds, WorkerDies, Tick, GoOn, Begin,
           ReapSelect, Reap, ClaimSelect, EmitStarted, LatestSelect, JobsSelect, Promote,
           Crash, Restart
  <2>4. left[j] =< left[j]
    OBVIOUS
  <2> QED
    BY <2>1, <2>2, <2>3, <2>4
<1> QED
  BY <1>1, TypeCorrect, Claims, PTL DEF Spec

---------------------------------------------------------------------------
(***************************************************************************)
(* Why late claims are few.  A tick that can still claim read 'running'    *)
(* when it began and has not used its one late claim.                      *)
(***************************************************************************)
LateInv ==
    /\ \A c \in Conductor : credit[c] \in {0, 1}
    /\ \A c \in Conductor : pc[c] \in {"reap", "reaping", "claim"} => credit[c] = 1

\* A pause or a halt lets each tick in progress claim one more job at most,
\* and a tick that begins after it none.
THEOREM LateClaimsAreFew == Spec => []FewLateClaims
<1> USE DEF LateInv, FewLateClaims
<1>1. Init => LateInv
  BY DEF Init
<1>2. TypeOK /\ LateInv /\ [Next]_vars => LateInv'
  <2> SUFFICES ASSUME TypeOK, LateInv, [Next]_vars
               PROVE  LateInv'
    OBVIOUS
  <2> USE DEF TypeOK, tickVars, runVars
  <2>1. CASE UNCHANGED vars
    BY <2>1 DEF vars
  <2>2. CASE Clock
    BY <2>2 DEF Clock
  <2>3. CASE Operator
    <3>1. CASE Pause \/ Resume \/ Halt
      BY <3>1 DEF Pause, Resume, Halt
    <3> QED
      BY <2>3, <3>1 DEF Operator, CreateIteration, InsertJob, CancelPick,
         CancelIteration, CancelJobs
  <2>4. ASSUME NEW j \in Job, Worker(j)
        PROVE  LateInv'
    BY <2>4 DEF Worker, WorkerStart, WorkerEnds, WorkerDies
  <2>5. ASSUME NEW c \in Conductor, Tick(c)
        PROVE  LateInv'
    <3> USE DEF Goto
    <3>1. CASE ClaimCas(c)
      BY <3>1 DEF ClaimCas
    <3>2. CASE ReapSelect(c) \/ ClaimSelect(c) \/ \E j \in Job : Reap(c, j)
      BY <3>2 DEF ReapSelect, ClaimSelect, Reap
    <3>3. CASE \/ Begin(c) \/ EmitStarted(c) \/ LatestSelect(c)
               \/ JobsSelect(c) \/ Promote(c)
      BY <3>3 DEF Begin, NoteBegin, EmitStarted, LatestSelect, JobsSelect, Promote
    <3> QED
      BY <2>5, <3>1, <3>2, <3>3 DEF Tick, GoOn
  <2>6. ASSUME NEW c \in Conductor, Crash(c) \/ Restart(c)
        PROVE  LateInv'
    BY <2>6 DEF Crash, Restart, Goto
  <2> QED
    BY <2>1, <2>2, <2>3, <2>4, <2>5, <2>6 DEF Next
<1>3. LateInv => FewLateClaims
  <2> SUFFICES ASSUME LateInv, NEW c \in Conductor
               PROVE  credit[c] >= 0
    OBVIOUS
  <2>1. credit[c] = 0 \/ credit[c] = 1
    OBVIOUS
  <2> QED
    BY <2>1
<1> QED
  BY <1>1, <1>2, <1>3, TypeCorrect, PTL DEF Spec

---------------------------------------------------------------------------
(***************************************************************************)
(* Why the promotion check sees the whole iteration.  The rows of an       *)
(* iteration are always a prefix of its phases, so the reviewer's row, the *)
(* last, brings all the others with it; and a job that has ended stays so. *)
(***************************************************************************)
PromotionInv ==
    /\ PromotionSeesWholeIteration
    /\ \A i \in Iteration, p, q \in Phase :
          q < p /\ status[<<i, p>>] # "absent" => status[<<i, q>>] # "absent"
    /\ \A c \in Conductor : pc[c] \in {"jobs", "promote"} => latest[c] \in Iteration

\* No step takes a job that has ended out of its end states.
LEMMA EndedStays ==
  ASSUME TypeOK, ClaimInv, [Next]_vars, NEW j \in Job, status[j] \in Final
  PROVE  status'[j] \in Final
<1> USE DEF TypeOK, ClaimInv, Final
<1>1. CASE UNCHANGED vars
  BY <1>1 DEF vars
<1>2. CASE Clock
  BY <1>2 DEF Clock
<1>3. CASE Operator
  <2>1. CASE \E i \in Iteration, p \in Phase : InsertJob(i, p)
    BY <2>1 DEF InsertJob
  <2>2. CASE CancelJobs
    BY <2>2 DEF CancelJobs
  <2> QED
    BY <1>3, <2>1, <2>2 DEF Operator, CreateIteration, CancelPick,
       CancelIteration, Pause, Resume, Halt
<1>4. ASSUME NEW k \in Job, Worker(k)
      PROVE  status'[j] \in Final
  BY <1>4 DEF Worker, WorkerStart, WorkerEnds, WorkerDies
<1>5. ASSUME NEW c \in Conductor, Tick(c)
      PROVE  status'[j] \in Final
  <2>1. ASSUME NEW k \in Job, Reap(c, k)
        PROVE  status'[j] \in Final
    BY <2>1 DEF Reap
  <2>2. CASE ClaimCas(c)
    BY <2>2 DEF ClaimCas, CasHits
  <2> QED
    BY <1>5, <2>1, <2>2 DEF Tick, GoOn, Begin, NoteBegin, ReapSelect, ClaimSelect, EmitStarted,
       LatestSelect, JobsSelect, Promote
<1>6. ASSUME NEW c \in Conductor, Crash(c) \/ Restart(c)
      PROVE  status'[j] \in Final
  BY <1>6 DEF Crash, Restart
<1> QED
  BY <1>1, <1>2, <1>3, <1>4, <1>5, <1>6 DEF Next

\* A row, once inserted, is never removed.
LEMMA RowsStay ==
  ASSUME TypeOK, ClaimInv, [Next]_vars, NEW j \in Job, status[j] # "absent"
  PROVE  status'[j] # "absent"
<1>1. CASE Begun(j)
  BY <1>1, BegunStays DEF Begun
<1>2. CASE status[j] = "queued"
  <2> USE <1>2 DEF TypeOK, ClaimInv, Final
  <2>1. CASE UNCHANGED vars
    BY <2>1 DEF vars
  <2>2. CASE Clock
    BY <2>2 DEF Clock
  <2>3. CASE Operator
    <3>1. CASE \E i \in Iteration, p \in Phase : InsertJob(i, p)
      BY <3>1 DEF InsertJob
    <3>2. CASE CancelJobs
      BY <3>2 DEF CancelJobs
    <3> QED
      BY <2>3, <3>1, <3>2 DEF Operator, CreateIteration, CancelPick,
         CancelIteration, Pause, Resume, Halt
  <2>4. ASSUME NEW k \in Job, Worker(k)
        PROVE  status'[j] # "absent"
    BY <2>4 DEF Worker, WorkerStart, WorkerEnds, WorkerDies
  <2>5. ASSUME NEW c \in Conductor, Tick(c)
        PROVE  status'[j] # "absent"
    BY <2>5 DEF Tick, GoOn, Begin, NoteBegin, ReapSelect, Reap, ClaimSelect, ClaimCas,
                EmitStarted, LatestSelect, JobsSelect, Promote
  <2>6. ASSUME NEW c \in Conductor, Crash(c) \/ Restart(c)
        PROVE  status'[j] # "absent"
    BY <2>6 DEF Crash, Restart
  <2> QED
    BY <2>1, <2>2, <2>3, <2>4, <2>5, <2>6, [Next]_vars DEF Next
<1> QED
  BY <1>1, <1>2 DEF Begun

\* A row that appears was inserted by enqueue_phase_jobs: the other writers
\* change rows that exist.
LEMMA OnlyInsertAdds ==
  ASSUME TypeOK, ClaimInv, [Next]_vars, NEW j \in Job,
         status[j] = "absent", status'[j] # "absent"
  PROVE  \E i \in Iteration, p \in Phase : j = <<i, p>> /\ InsertJob(i, p)
<1> USE DEF TypeOK, ClaimInv
<1>0. status' # status
  OBVIOUS
<1>1. CASE UNCHANGED vars
  BY <1>0, <1>1 DEF vars
<1>2. CASE Clock
  BY <1>0, <1>2 DEF Clock
<1>3. CASE Operator
  <2>1. ASSUME NEW i \in Iteration, NEW p \in Phase, InsertJob(i, p)
        PROVE  j = <<i, p>>
    BY <2>1 DEF InsertJob
  <2>2. ~CancelJobs
    BY DEF CancelJobs
  <2> QED
    BY <1>0, <1>3, <2>1, <2>2 DEF Operator, CreateIteration, CancelPick,
       CancelIteration, Pause, Resume, Halt
<1>4. ASSUME NEW k \in Job, Worker(k)
      PROVE  FALSE
  BY <1>0, <1>4 DEF Worker, WorkerStart, WorkerEnds, WorkerDies, Begun
<1>5. ASSUME NEW c \in Conductor, Tick(c)
      PROVE  FALSE
  <2>1. ASSUME NEW k \in Job, Reap(c, k)
        PROVE  FALSE
    BY <2>1 DEF Reap, Begun
  <2>2. CASE ClaimCas(c)
    BY <2>2 DEF ClaimCas, CasHits
  <2> QED
    BY <1>0, <1>5, <2>1, <2>2 DEF Tick, GoOn, Begin, NoteBegin, ReapSelect, ClaimSelect,
       EmitStarted, LatestSelect, JobsSelect, Promote
<1>6. ASSUME NEW c \in Conductor, Crash(c) \/ Restart(c)
      PROVE  FALSE
  BY <1>0, <1>6 DEF Crash, Restart
<1> QED
  BY <1>1, <1>2, <1>3, <1>4, <1>5, <1>6 DEF Next

\* Only conductors move conductors.
LEMMA OthersKeepPlaces ==
  ASSUME [Next]_vars
  PROVE  \/ UNCHANGED <<pc, latest>>
         \/ \E c \in Conductor : Tick(c) \/ Crash(c) \/ Restart(c)
BY DEF Next, vars, Clock, Operator, CreateIteration, InsertJob, CancelPick,
       CancelIteration, CancelJobs, Pause, Resume, Halt, Worker, WorkerStart,
       WorkerEnds, WorkerDies, tickVars

\* A conductor is about to promote because it was, or because the SELECT of
\* the jobs let it.
LEMMA PromoteEntered ==
  ASSUME TypeOK, [Next]_vars, NEW c \in Conductor, pc'[c] = "promote"
  PROVE  \/ pc[c] = "promote" /\ latest'[c] = latest[c]
         \/ JobsSelect(c)
<1> USE DEF TypeOK, Goto
<1>1. CASE UNCHANGED <<pc, latest>>
  BY <1>1
<1>2. ASSUME NEW d \in Conductor, Tick(d)
      PROVE  \/ pc[c] = "promote" /\ latest'[c] = latest[c]
             \/ JobsSelect(c)
  <2>1. CASE LatestSelect(d)
    BY <2>1 DEF LatestSelect
  <2>2. CASE JobsSelect(d) \/ Promote(d)
    BY <2>2 DEF JobsSelect, Promote
  <2>3. CASE Begin(d) \/ ReapSelect(d) \/ \E j \in Job : Reap(d, j)
    BY <2>3 DEF Begin, NoteBegin, ReapSelect, Reap
  <2>4. CASE ClaimSelect(d) \/ ClaimCas(d) \/ EmitStarted(d)
    BY <2>4 DEF ClaimSelect, ClaimCas, EmitStarted
  <2> QED
    BY <1>2, <2>1, <2>2, <2>3, <2>4 DEF Tick, GoOn
<1>3. ASSUME NEW d \in Conductor, Crash(d) \/ Restart(d)
      PROVE  pc[c] = "promote" /\ latest'[c] = latest[c]
  BY <1>3 DEF Crash, Restart, Forget
<1> QED
  BY <1>1, <1>2, <1>3, OthersKeepPlaces

\* A promotion is only ever considered for an iteration whose every phase
\* has been enqueued and has ended.
THEOREM PromotionIsOfWholeIterations == Spec => []PromotionSeesWholeIteration
<1> USE PhaseJobsAssumption
    DEF PhaseJobsAssumption, PromotionInv, PromotionSeesWholeIteration
<1>1. Init => PromotionInv
  BY DEF Init, Job
<1>2. TypeOK /\ ClaimInv /\ PromotionInv /\ [Next]_vars => PromotionInv'
  <2> SUFFICES ASSUME TypeOK, ClaimInv, PromotionInv, [Next]_vars
               PROVE  PromotionInv'
    OBVIOUS
  <2>a. \A i \in Iteration, p \in Phase : <<i, p>> \in Job
    BY DEF Job
  <2>b. \A i \in Iteration, p \in Phase :
           /\ status[<<i, p>>] \in Final => status'[<<i, p>>] \in Final
           /\ status[<<i, p>>] # "absent" => status'[<<i, p>>] # "absent"
    BY <2>a, EndedStays, RowsStay
  <2>1. \A i \in Iteration, p, q \in Phase :
           q < p /\ status'[<<i, p>>] # "absent" => status'[<<i, q>>] # "absent"
    <3> SUFFICES ASSUME NEW i \in Iteration, NEW p \in Phase, NEW q \in Phase,
                        q < p, status'[<<i, p>>] # "absent",
                        status[<<i, p>>] = "absent"
                 PROVE  status'[<<i, q>>] # "absent"
      BY <2>b
    <3>1. InsertJob(i, p)
      <4>1. PICK k \in Iteration, r \in Phase : <<i, p>> = <<k, r>> /\ InsertJob(k, r)
        BY <2>a, OnlyInsertAdds
      <4> QED
        BY <4>1
    <3>2. status[<<i, q>>] # "absent"
      BY <3>1 DEF InsertJob, InOrder, Phase
    <3> QED
      BY <2>b, <3>2
  <2>2. \A c \in Conductor : (pc[c] \in {"jobs", "promote"})' => latest'[c] \in Iteration
    <3>1. CASE UNCHANGED <<pc, latest>>
      BY <3>1
    <3>2. ASSUME NEW c \in Conductor, Tick(c)
          PROVE  \A d \in Conductor :
                    (pc[d] \in {"jobs", "promote"})' => latest'[d] \in Iteration
      <4> USE DEF TypeOK, Goto
      <4>1. CASE LatestSelect(c)
        BY <4>1 DEF LatestSelect
      <4>2. CASE JobsSelect(c) \/ Promote(c)
        BY <4>2 DEF JobsSelect, Promote
      <4>3. CASE Begin(c) \/ ReapSelect(c) \/ \E j \in Job : Reap(c, j)
        BY <4>3 DEF Begin, NoteBegin, ReapSelect, Reap
      <4>4. CASE ClaimSelect(c) \/ ClaimCas(c) \/ EmitStarted(c)
        BY <4>4 DEF ClaimSelect, ClaimCas, EmitStarted
      <4> QED
        BY <3>2, <4>1, <4>2, <4>3, <4>4 DEF Tick, GoOn
    <3>3. ASSUME NEW c \in Conductor, Crash(c) \/ Restart(c)
          PROVE  \A d \in Conductor :
                    (pc[d] \in {"jobs", "promote"})' => latest'[d] \in Iteration
      BY <3>3 DEF Crash, Restart, Forget, Goto, TypeOK
    <3> QED
      BY <3>1, <3>2, <3>3, OthersKeepPlaces
  <2>3. ASSUME NEW c \in Conductor, pc'[c] = "promote", NEW p \in Phase
        PROVE  status'[<<latest'[c], p>>] \in Final
    <3>1. CASE pc[c] = "promote" /\ latest'[c] = latest[c]
      BY <2>3, <2>b, <3>1
    <3>2. CASE JobsSelect(c)
      <4>1. /\ latest[c] \in Iteration
            /\ UNCHANGED <<status, latest>>
            /\ AllEnded(latest[c])
            /\ status[<<latest[c], NPhases>>] = "completed"
        BY <2>3, <3>2 DEF JobsSelect, Goto, Reviewer, TypeOK
      <4>2. status[<<latest[c], p>>] # "absent"
        BY <4>1 DEF Phase
      <4> QED
        BY <4>1, <4>2 DEF AllEnded
    <3> QED
      BY <2>3, <3>1, <3>2, PromoteEntered
  <2> QED
    BY <2>1, <2>2, <2>3
<1>3. PromotionInv => PromotionSeesWholeIteration
  OBVIOUS
<1> QED
  BY <1>1, <1>2, <1>3, TypeCorrect, Claims, PTL DEF Spec
=============================================================================
