--------------------------- MODULE PipelineProofs ---------------------------
(***************************************************************************)
(* Proofs about Promotion, for any processes, runs, iterations, contents   *)
(* and lease; and about Pipeline, which implements it, for any outcomes,   *)
(* prices and limits.                                                      *)
(***************************************************************************)
EXTENDS Pipeline, SequenceTheorems, TLAPS

(***************************************************************************)
(* I.  Promotion                                                           *)
(***************************************************************************)

Busy(p) == pc[p] \notin {"idle", "down"}

\* A process that is busy promotes an iteration of its own run.
JobsAreOwn ==
    \A p \in Promoter : Busy(p) => job[p] \in Key /\ job[p][1] = RunOf[p]

LEMMA Processes == Spec => [](ProcessOK /\ JobsAreOwn)
<1> USE PromotionAssumption DEF PromotionAssumption
<1>1. Init => ProcessOK /\ JobsAreOwn
  BY DEF Init, ProcessOK, JobsAreOwn, PC, Busy
<1>2. ProcessOK /\ JobsAreOwn /\ [Next]_vars => (ProcessOK /\ JobsAreOwn)'
  <2> SUFFICES ASSUME ProcessOK, JobsAreOwn, [Next]_vars
               PROVE  ProcessOK' /\ JobsAreOwn'
    OBVIOUS
  <2> USE DEF ProcessOK, JobsAreOwn, PC, Busy, Goto, lockVars, gitVars, worldVars
  <2>1. CASE UNCHANGED vars
    BY <2>1 DEF vars
  <2>2. CASE Clock
    BY <2>2 DEF Clock
  <2>3. CASE Edit
    BY <2>3 DEF Edit
  <2>4. ASSUME NEW r \in Run, Iterate(r)
        PROVE  ProcessOK' /\ JobsAreOwn'
    BY <2>4 DEF Iterate
  <2>5. ASSUME NEW k \in Key, Rollback(k)
        PROVE  ProcessOK' /\ JobsAreOwn'
    BY <2>5 DEF Rollback
  <2>6. ASSUME NEW p \in Promoter, Step(p)
        PROVE  ProcessOK' /\ JobsAreOwn'
    <3>1. CASE ClaimSelect(p)
      <4>1. <<RunOf[p], latest[RunOf[p]]>> \in Key
        BY <3>1 DEF ClaimSelect, Key
      <4>2. pc' \in [Promoter -> PC] /\ job' \in [Promoter -> Key \cup {None}]
        BY <3>1, <4>1 DEF ClaimSelect
      <4> QED
        BY <3>1, <4>1, <4>2 DEF ClaimSelect
    <3>2. CASE ClaimInsert(p)
      BY <3>2 DEF ClaimInsert
    <3>3. CASE ClaimTake(p) \/ ClaimFails(p)
      BY <3>3 DEF ClaimTake, ClaimFails
    <3>4. CASE GatesPass(p) \/ GatesRefuse(p) \/ GatesRaise(p) \/ GitFails(p)
      BY <3>4 DEF GatesPass, GatesRefuse, GatesRaise, GitFails
    <3>5. CASE Release(p)
      BY <3>5 DEF Release
    <3>6. CASE Perform(p)
      BY <3>6 DEF Perform, SelectRow, WriteRow, Copy, Add, Commit, MakeCommit, RevParse, Record
    <3> QED
      BY <2>6, <3>1, <3>2, <3>3, <3>4, <3>5, <3>6 DEF Step
  <2>7. ASSUME NEW p \in Promoter, Crash(p) \/ Restart(p)
        PROVE  ProcessOK' /\ JobsAreOwn'
    BY <2>7 DEF Crash, Restart
  <2> QED
    BY <2>1, <2>2, <2>3, <2>4, <2>5, <2>6, <2>7 DEF Next
<1> QED
  BY <1>1, <1>2, PTL DEF Spec

\* Every variable keeps to its set of values.
LEMMA TypeCorrect == Spec => []TypeOK
<1> USE PromotionAssumption DEF PromotionAssumption
<1>1. Init => LockOK /\ RepositoryOK /\ WorldOK
  <2> SUFFICES ASSUME Init
               PROVE  LockOK /\ RepositoryOK /\ WorldOK
    OBVIOUS
  <2>1. LockOK /\ WorldOK
    BY DEF Init, LockOK, WorldOK, Floor
  <2>2. PICK v \in Value : log = <<[tree |-> v, key |-> None]>> /\ best = v /\ index = v
    BY DEF Init
  <2>3. log \in Seq([tree : Value, key : Key \cup {None}]) /\ Len(log) = 1
    BY <2>2
  <2>4. sha \in [Promoter -> 0 .. 1]
    BY DEF Init
  <2>5. row \in [Key -> [status : {"none", "prepared", "applying", "committed"},
                        commit : 0 .. 1]]
    BY DEF Init
  <2> QED
    BY <2>1, <2>2, <2>3, <2>4, <2>5 DEF Init, RepositoryOK
<1>2. TypeOK /\ JobsAreOwn /\ [Next]_vars => LockOK' /\ RepositoryOK' /\ WorldOK'
  <2> SUFFICES ASSUME TypeOK, JobsAreOwn, [Next]_vars
               PROVE  LockOK' /\ RepositoryOK' /\ WorldOK'
    OBVIOUS
  <2> USE DEF TypeOK, lockVars, gitVars, worldVars
  <2>1. CASE UNCHANGED vars
    BY <2>1 DEF vars, LockOK, RepositoryOK, WorldOK
  <2>2. CASE Clock
    BY <2>2 DEF Clock, NoteLapse, Floor, LockOK, RepositoryOK, WorldOK
  <2>3. CASE Edit
    <3>1. notes' \subseteq {"file", "index"} /\ file' \in Value
      BY <2>3 DEF Edit, RepositoryOK, WorldOK
    <3>2. edits' \in 0 .. MaxEdits
      BY <2>3 DEF Edit, WorldOK
    <3> QED
      BY <2>3, <3>1, <3>2 DEF Edit, LockOK, RepositoryOK, WorldOK
  <2>4. ASSUME NEW r \in Run, Iterate(r)
        PROVE  LockOK' /\ RepositoryOK' /\ WorldOK'
    <3>1. LockOK' /\ RepositoryOK'
      BY <2>4 DEF Iterate, LockOK, RepositoryOK
    <3>2. file' \in Value /\ verdict' \in [Key -> Value \cup {None}]
      BY <2>4 DEF Iterate, WorldOK
    <3> QED
      BY <2>4, <3>1, <3>2 DEF Iterate, WorldOK
  <2>5. ASSUME NEW k \in Key, Rollback(k)
        PROVE  LockOK' /\ RepositoryOK' /\ WorldOK'
    <3> DEFINE before == log[row[k].commit - 1].tree
               after == IF log[row[k].commit].tree = before THEN HEAD.tree ELSE before
    <3>1. after \in Value
      <4>1. row[k].commit \in 0 .. Len(log) /\ row[k].commit > 1 /\ Len(log) \in Nat
        BY <2>5 DEF Rollback, RepositoryOK
      <4>2. row[k].commit - 1 \in 1 .. Len(log)
        BY <4>1
      <4>3. log[row[k].commit - 1] \in [tree : Value, key : Key \cup {None}]
        BY <4>2, ElementOfSeq DEF RepositoryOK
      <4>4. HEAD \in [tree : Value, key : Key \cup {None}]
        <5>1. Len(log) \in 1 .. Len(log)
          BY DEF RepositoryOK
        <5> QED
          BY <5>1, ElementOfSeq DEF RepositoryOK, HEAD
      <4> QED
        BY <4>3, <4>4
    <3>2. log' = Append(log, [tree |-> after, key |-> None]) /\ index' = after /\ best' = after
      BY <2>5 DEF Rollback
    <3>3. Len(log') = Len(log) + 1 /\ log' \in Seq([tree : Value, key : Key \cup {None}])
      BY <3>1, <3>2 DEF RepositoryOK
    <3>4. RepositoryOK'
      BY <2>5, <3>1, <3>3 DEF Rollback, RepositoryOK
    <3>5. LockOK' /\ WorldOK'
      BY <2>5 DEF Rollback, LockOK, WorldOK
    <3> QED
      BY <3>4, <3>5
  <2>6. ASSUME NEW p \in Promoter, Step(p)
        PROVE  LockOK' /\ RepositoryOK' /\ WorldOK'
    <3> USE DEF Goto
    <3>1. CASE ClaimSelect(p) \/ ClaimFails(p) \/ GatesPass(p) \/ GatesRefuse(p) \/ GatesRaise(p) \/ GitFails(p)
      BY <3>1 DEF ClaimSelect, ClaimFails, GatesPass, GatesRefuse, GatesRaise, GitFails,
                  LockOK, RepositoryOK, WorldOK
    <3>2. CASE ClaimInsert(p) \/ ClaimTake(p)
      <4>1. LockOK'
        BY <3>2 DEF ClaimInsert, ClaimTake, LeaseFrom, NoteLapse, Floor, LockOK
      <4>2. RepositoryOK' /\ WorldOK'
        BY <3>2 DEF ClaimInsert, ClaimTake, RepositoryOK, WorldOK
      <4> QED
        BY <4>1, <4>2
    <3>3. CASE Release(p)
      BY <3>3 DEF Release, Floor, LockOK, RepositoryOK, WorldOK
    <3>4. CASE SelectRow(p) \/ Copy(p) \/ Add(p)
      BY <3>4 DEF SelectRow, Copy, Add, LockOK, RepositoryOK, WorldOK
    <3>8. CASE RevParse(p)
      <4>1. RepositoryOK'
        BY <3>8 DEF RevParse, RepositoryOK
      <4>2. LockOK' /\ WorldOK'
        BY <3>8 DEF RevParse, LockOK, WorldOK
      <4> QED
        BY <4>1, <4>2
    <3>5. CASE WriteRow(p)
      <4>1. job[p] \in Key
        BY <3>5 DEF WriteRow, JobsAreOwn, Busy
      <4>2. row' \in [Key -> [status : {"none", "prepared", "applying", "committed"},
                               commit : 0 .. Len(log)]]
        <5>1. CASE row' = row
          BY <5>1 DEF RepositoryOK
        <5>2. ASSUME NEW st \in {"prepared", "applying"},
                     row' = [row EXCEPT ![job[p]].status = st]
              PROVE  row' \in [Key -> [status : {"none", "prepared", "applying", "committed"},
                               commit : 0 .. Len(log)]]
          <6>1. row[job[p]] \in [status : {"none", "prepared", "applying", "committed"},
                                 commit : 0 .. Len(log)]
            BY <4>1 DEF RepositoryOK
          <6> QED
            BY <4>1, <5>2, <6>1 DEF RepositoryOK
        <5> QED
          BY <3>5, <5>1, <5>2 DEF WriteRow
      <4>3. RepositoryOK'
        BY <3>5, <4>2 DEF WriteRow, RepositoryOK
      <4>4. LockOK' /\ WorldOK'
        BY <3>5 DEF WriteRow, LockOK, WorldOK
      <4> QED
        BY <4>3, <4>4
    <3>6. CASE Commit(p)
      <4>1. job[p] \in Key
        BY <3>6 DEF Commit, JobsAreOwn, Busy
      <4>0. notes' \subseteq notes
        BY <3>6 DEF Commit, MakeCommit
      <4>2. CASE log' = Append(log, [tree |-> index, key |-> job[p]])
        <5>1. Len(log') = Len(log) + 1 /\ log' \in Seq([tree : Value, key : Key \cup {None}])
          BY <4>1, <4>2 DEF RepositoryOK
        <5> QED
          BY <3>6, <4>0, <5>1 DEF Commit, LockOK, RepositoryOK, WorldOK
      <4>3. CASE UNCHANGED log
        BY <3>6, <4>0, <4>3 DEF Commit, LockOK, RepositoryOK, WorldOK
      <4> QED
        BY <3>6, <4>2, <4>3 DEF Commit, MakeCommit
    <3>7. CASE Record(p)
      BY <3>7 DEF Record, LockOK, RepositoryOK, WorldOK
    <3> QED
      BY <2>6, <3>1, <3>2, <3>3, <3>4, <3>5, <3>6, <3>7, <3>8 DEF Step, Perform
  <2>7. ASSUME NEW p \in Promoter, Crash(p) \/ Restart(p)
        PROVE  LockOK' /\ RepositoryOK' /\ WorldOK'
    <3>1. RepositoryOK'
      <4>1. Len(log) \in Nat
        BY DEF RepositoryOK
      <4>2. sha' \in [Promoter -> 0 .. Len(log)]
        <5>1. sha' = sha \/ sha' = [sha EXCEPT ![p] = 0]
          BY <2>7 DEF Crash, Restart
        <5>2. 0 \in 0 .. Len(log)
          BY <4>1
        <5> QED
          BY <5>1, <5>2 DEF RepositoryOK
      <4> QED
        BY <2>7, <4>2 DEF Crash, Restart, RepositoryOK
    <3>2. LockOK' /\ WorldOK'
      BY <2>7 DEF Crash, Restart, LockOK, WorldOK
    <3> QED
      BY <3>1, <3>2
  <2> QED
    BY <2>1, <2>2, <2>3, <2>4, <2>5, <2>6, <2>7 DEF Next
<1> QED
  BY <1>1, <1>2, Processes, PTL DEF Spec, TypeOK

---------------------------------------------------------------------------
(***************************************************************************)
(* OnePromoterUntilALeaseLapses needs the lock row to be tied to whoever   *)
(* is inside: until a lapse the row names the run of every process inside, *)
(* and nobody has read an expired row.                                     *)
(***************************************************************************)
LockInv ==
    leases = "kept" /\ OneProcessPerRun =>
        /\ holder # None => left >= 0
        /\ \A p \in Promoter : /\ pc[p] # "take"
                               /\ Inside(p) => holder = RunOf[p]

\* One process at a time promotes, until a lease runs out.
THEOREM OnePromoter == Spec => []OnePromoterUntilALeaseLapses
<1> USE PromotionAssumption DEF PromotionAssumption
<1>1. Init => LockInv
  BY DEF Init, LockInv, Inside
<1>2. LockInv /\ TypeOK /\ TypeOK' /\ [Next]_vars => LockInv'
  <2> SUFFICES ASSUME LockInv, LockOK, LockOK', ProcessOK, ProcessOK', [Next]_vars,
                      leases' = "kept", OneProcessPerRun
               PROVE  /\ holder' # None => left' >= 0
                      /\ \A p \in Promoter : /\ pc'[p] # "take"
                                             /\ Inside(p)' => holder' = RunOf[p]
    BY DEF LockInv, TypeOK
  <2> USE DEF LockInv, LockOK, ProcessOK, Inside, Goto, lockVars, gitVars, worldVars, PC
  <2>1. CASE UNCHANGED vars
    BY <2>1 DEF vars
  <2>2. CASE Clock
    BY <2>2 DEF Clock, NoteLapse, Floor
  <2>3. CASE Edit \/ (\E r \in Run : Iterate(r)) \/ (\E k \in Key : Rollback(k))
    BY <2>3 DEF Edit, Iterate, Rollback
  <2>4. ASSUME NEW p \in Promoter, Step(p)
        PROVE  /\ holder' # None => left' >= 0
               /\ \A q \in Promoter : /\ pc'[q] # "take"
                                      /\ Inside(q)' => holder' = RunOf[q]
    <3>1. CASE ClaimSelect(p)
      <4>1. leases = "kept"
        BY <3>1 DEF ClaimSelect
      <4>2. \A s \in 0 .. Stall : holder # None => ~Expired(s)
        BY <4>1 DEF Expired, Floor
      <4> QED
        BY <3>1, <4>1, <4>2 DEF ClaimSelect
    <3>2. CASE ClaimInsert(p)
      <4>1. leases = "kept"
        BY <3>2 DEF ClaimInsert, NoteLapse
      <4>2. holder' # None => left' >= 0
        BY <3>2 DEF ClaimInsert, NoteLapse
      <4> QED
        BY <3>2, <4>1, <4>2 DEF ClaimInsert
    <3>3. CASE ClaimTake(p)
      BY <3>3 DEF ClaimTake, NoteLapse
    <3>4. CASE ClaimFails(p) \/ GatesPass(p) \/ GatesRefuse(p) \/ GatesRaise(p) \/ GitFails(p)
      BY <3>4 DEF ClaimFails, GatesPass, GatesRefuse, GatesRaise, GitFails
    <3>5. CASE Release(p)
      <4>1. \A q \in Promoter : Inside(q) => q = p
        BY <3>5 DEF Release, OneProcessPerRun
      <4> QED
        BY <3>5, <4>1 DEF Release
    <3>6. CASE Perform(p)
      <4>1. UNCHANGED lockVars /\ Inside(p) /\ pc'[p] # "take"
        BY <3>6 DEF Perform, SelectRow, WriteRow, Copy, Add, Commit, MakeCommit, RevParse, Record
      <4>2. \A q \in Promoter : q # p => pc'[q] = pc[q]
        BY <3>6 DEF Perform, SelectRow, WriteRow, Copy, Add, Commit, MakeCommit, RevParse, Record
      <4> QED
        BY <4>1, <4>2
    <3> QED
      BY <2>4, <3>1, <3>2, <3>3, <3>4, <3>5, <3>6 DEF Step
  <2>5. ASSUME NEW p \in Promoter, Crash(p) \/ Restart(p)
        PROVE  /\ holder' # None => left' >= 0
               /\ \A q \in Promoter : /\ pc'[q] # "take"
                                      /\ Inside(q)' => holder' = RunOf[q]
    BY <2>5 DEF Crash, Restart
  <2> QED
    BY <2>1, <2>2, <2>3, <2>4, <2>5 DEF Next
<1>3. LockInv => OnePromoterUntilALeaseLapses
  BY DEF LockInv, OnePromoterUntilALeaseLapses, OneProcessPerRun
<1> QED
  BY <1>1, <1>2, <1>3, TypeCorrect, PTL DEF Spec

---------------------------------------------------------------------------
(***************************************************************************)
(* With one process per run a promotions row belongs to one process, and   *)
(* what that process read of the row is still true when it writes: a row   *)
(* being written, copied or committed is not committed already.            *)
(***************************************************************************)
RowInv ==
    OneProcessPerRun =>
        \A p \in Promoter :
            /\ pc[p] = "write" =>
                  row[job[p]].status = "none" \/ (Unfinished(job[p]) /\ fresh[p] = "old")
            /\ pc[p] \in {"copy", "add", "commit", "head", "record"} => Unfinished(job[p])

\* Different processes have different keys.
LEMMA KeysDiffer ==
    ASSUME OneProcessPerRun, JobsAreOwn,
           NEW p \in Promoter, NEW q \in Promoter, Busy(p), Busy(q), p # q
    PROVE  job[p] # job[q]
BY DEF OneProcessPerRun, JobsAreOwn

LEMMA Rows == Spec => []RowInv
<1>1. Init => RowInv
  BY DEF Init, RowInv
<1>2. RowInv /\ TypeOK /\ ProcessOK' /\ JobsAreOwn /\ [Next]_vars => RowInv'
  <2> SUFFICES ASSUME RowInv, ProcessOK, ProcessOK', RepositoryOK, JobsAreOwn,
                      [Next]_vars, OneProcessPerRun, NEW p \in Promoter
               PROVE  /\ pc'[p] = "write" =>
                            \/ row'[job'[p]].status = "none"
                            \/ Unfinished(job[p])' /\ fresh'[p] = "old"
                      /\ pc'[p] \in {"copy", "add", "commit", "head", "record"} =>
                            Unfinished(job[p])'
    BY DEF RowInv, TypeOK
  <2> USE DEF RowInv, ProcessOK, Unfinished, Goto, lockVars, gitVars, worldVars
  <2>1. CASE UNCHANGED vars
    BY <2>1 DEF vars
  <2>2. CASE Clock \/ Edit \/ (\E r \in Run : Iterate(r)) \/ (\E k \in Key : Rollback(k))
    BY <2>2 DEF Clock, Edit, Iterate, Rollback
  <2>3. ASSUME NEW q \in Promoter, Step(q)
        PROVE  /\ pc'[p] = "write" =>
                     \/ row'[job'[p]].status = "none"
                     \/ Unfinished(job[p])' /\ fresh'[p] = "old"
               /\ pc'[p] \in {"copy", "add", "commit", "head", "record"} =>
                     Unfinished(job[p])'
    <3>1. CASE ClaimSelect(q) \/ ClaimInsert(q) \/ ClaimTake(q) \/ ClaimFails(q)
      BY <3>1 DEF ClaimSelect, ClaimInsert, ClaimTake, ClaimFails
    <3>2. CASE GatesPass(q) \/ GatesRefuse(q) \/ GatesRaise(q) \/ GitFails(q) \/ Release(q)
      BY <3>2 DEF GatesPass, GatesRefuse, GatesRaise, GitFails, Release
    <3>3. CASE SelectRow(q)
      <4>1. job[q] \in Key
        BY <3>3 DEF SelectRow, JobsAreOwn, Busy
      <4>2. row[job[q]].status \in {"none", "prepared", "applying", "committed"}
        BY <4>1 DEF RepositoryOK
      <4> QED
        BY <3>3, <4>2 DEF SelectRow
    <3>4. CASE WriteRow(q)
      <4>1. job[q] \in Key
        BY <3>4 DEF WriteRow, JobsAreOwn, Busy
      <4>2. \A k \in Key : k # job[q] => row'[k] = row[k]
        BY <3>4, <4>1 DEF WriteRow, RepositoryOK
      <4>3. CASE p = q
        <5>1. pc'[p] = "copy" => row'[job[p]].status \in {"prepared", "applying"}
          BY <3>4, <4>1, <4>3 DEF WriteRow, RepositoryOK
        <5> QED
          BY <3>4, <4>3, <5>1 DEF WriteRow
      <4>4. CASE p # q /\ Busy(p)
        <5>1. job[p] \in Key /\ job[p] # job[q]
          BY <3>4, <4>4, KeysDiffer DEF JobsAreOwn, WriteRow, Busy
        <5> QED
          BY <3>4, <4>2, <4>4, <5>1 DEF WriteRow
      <4> QED
        BY <3>4, <4>3, <4>4 DEF WriteRow, Busy
    <3>5. CASE Copy(q) \/ Add(q) \/ Commit(q) \/ RevParse(q)
      BY <3>5 DEF Copy, Add, Commit, MakeCommit, RevParse
    <3>6. CASE Record(q)
      <4>1. job[q] \in Key
        BY <3>6 DEF Record, JobsAreOwn, Busy
      <4>2. \A k \in Key : k # job[q] => row'[k] = row[k]
        BY <3>6, <4>1 DEF Record, RepositoryOK
      <4>3. CASE p # q /\ Busy(p)
        <5>1. job[p] \in Key /\ job[p] # job[q]
          BY <3>6, <4>3, KeysDiffer DEF JobsAreOwn, Record, Busy
        <5> QED
          BY <3>6, <4>2, <4>3, <5>1 DEF Record
      <4> QED
        BY <3>6, <4>3 DEF Record, Busy
    <3> QED
      BY <2>3, <3>1, <3>2, <3>3, <3>4, <3>5, <3>6 DEF Step, Perform
  <2>4. ASSUME NEW q \in Promoter, Crash(q) \/ Restart(q)
        PROVE  /\ pc'[p] = "write" =>
                     \/ row'[job'[p]].status = "none"
                     \/ Unfinished(job[p])' /\ fresh'[p] = "old"
               /\ pc'[p] \in {"copy", "add", "commit", "head", "record"} =>
                     Unfinished(job[p])'
    BY <2>4 DEF Crash, Restart
  <2> QED
    BY <2>1, <2>2, <2>3, <2>4 DEF Next
<1> QED
  BY <1>1, <1>2, Processes, TypeCorrect, PTL DEF Spec

\* A committed row is final.
THEOREM CommittedIsFinal == Spec => CommittedStays
<1>1. RowInv /\ TypeOK /\ JobsAreOwn /\ [Next]_vars =>
        [OneProcessPerRun => \A k \in Key :
            row[k].status = "committed" => row'[k] = row[k]]_vars
  <2> SUFFICES ASSUME RowInv, TypeOK, JobsAreOwn, [Next]_vars, OneProcessPerRun,
                      NEW k \in Key, row[k].status = "committed"
               PROVE  row'[k] = row[k]
    BY DEF vars
  <2>1. CASE \E p \in Promoter : WriteRow(p) \/ Record(p)
    <3> PICK p \in Promoter : WriteRow(p) \/ Record(p)
      BY <2>1
    <3>1. job[p] # k
      BY DEF RowInv, WriteRow, Record, Unfinished
    <3>2. job[p] \in Key
      BY DEF JobsAreOwn, Busy, WriteRow, Record
    <3> QED
      BY <3>1, <3>2 DEF WriteRow, Record, TypeOK, RepositoryOK
  <2>2. CASE ~ \E p \in Promoter : WriteRow(p) \/ Record(p)
    BY <2>2 DEF Next, vars, Clock, Edit, Iterate, Rollback, Step, Perform, ClaimSelect,
                ClaimInsert, ClaimTake, ClaimFails, GatesPass, GatesRefuse, GatesRaise, SelectRow,
                Copy, Add, Commit, MakeCommit, RevParse, GitFails, Release, Crash, Restart
  <2> QED
    BY <2>1, <2>2
<1> QED
  BY <1>1, Rows, TypeCorrect, Processes, PTL DEF Spec, CommittedStays

---------------------------------------------------------------------------
(***************************************************************************)
(* What a retry has to go by, and where it gets to.                        *)
(***************************************************************************)
\* No step but these two touches the table.
LEMMA RowsStay ==
    ASSUME [Next]_vars, \A p \in Promoter : ~WriteRow(p) /\ ~Record(p)
    PROVE  row' = row
BY DEF Next, vars, Clock, Edit, Iterate, Rollback, Step, Perform, ClaimSelect, ClaimInsert,
       ClaimTake, ClaimFails, GatesPass, GatesRefuse, GatesRaise, SelectRow, Copy, Add, Commit, MakeCommit,
       RevParse, GitFails, Release, Crash, Restart

\* Commits are only added.
LEMMA LogGrows ==
    ASSUME RepositoryOK, [Next]_vars
    PROVE  /\ Len(log') \in Nat /\ Len(log) =< Len(log')
           /\ \A i \in 1 .. Len(log) : log'[i] = log[i]
<1>1. log' = log \/ \E v, k : log' = Append(log, [tree |-> v, key |-> k])
  BY DEF Next, vars, Clock, Edit, Iterate, Rollback, Step, Perform, ClaimSelect, ClaimInsert,
         ClaimTake, ClaimFails, GatesPass, GatesRefuse, GatesRaise, SelectRow, WriteRow, Copy,
         Add, Commit, MakeCommit, RevParse, Record, GitFails, Release, Crash, Restart, gitVars
<1>2. log \in Seq([tree : Value, key : Key \cup {None}]) /\ Len(log) \in Nat
  BY DEF RepositoryOK
<1>3. CASE log' = log
  BY <1>2, <1>3
<1>4. ASSUME NEW v, NEW k, log' = Append(log, [tree |-> v, key |-> k])
      PROVE  /\ Len(log') \in Nat /\ Len(log) =< Len(log')
             /\ \A i \in 1 .. Len(log) : log'[i] = log[i]
  BY <1>2, <1>4
<1> QED
  BY <1>1, <1>3, <1>4

\* The commit of k is made, and its row is not 'committed' yet.
Unrecorded(k) == Unfinished(k) /\ \E i \in 1 .. Len(log) : log[i].key = k

StaysOrIsCommitted(k) == Unrecorded(k) => Unrecorded(k)' \/ row'[k].status = "committed"

\* A promotion whose commit is made and whose row is unfinished stays so, for
\* any number of processes, runs, kills and reverts, until the row says
\* 'committed': no row is taken back or deleted, no commit is lost.
\* (promotion_gate.py:332-371)
THEOREM UnrecordedUntilCommitted == Spec => [][\A j \in Key : StaysOrIsCommitted(j)]_vars
<1>1. TypeOK /\ JobsAreOwn /\ [Next]_vars => [\A j \in Key : StaysOrIsCommitted(j)]_vars
  <2> SUFFICES ASSUME TypeOK, JobsAreOwn, [Next]_vars, NEW k \in Key, Unrecorded(k)
               PROVE  Unrecorded(k)' \/ row'[k].status = "committed"
    BY DEF StaysOrIsCommitted
  <2>1. PICK i \in 1 .. Len(log) : log[i].key = k
    BY DEF Unrecorded
  <2>2. i \in 1 .. Len(log') /\ log'[i].key = k
    BY <2>1, LogGrows DEF TypeOK, RepositoryOK
  <2>3. row'[k].status \in {"prepared", "applying", "committed"}
    <3>1. CASE \E p \in Promoter : WriteRow(p) \/ Record(p)
      <4> PICK p \in Promoter : WriteRow(p) \/ Record(p)
        BY <3>1
      <4>1. job[p] \in Key
        BY DEF JobsAreOwn, Busy, WriteRow, Record
      <4>2. row \in [Key -> [status : {"none", "prepared", "applying", "committed"},
                             commit : 0 .. Len(log)]]
        BY DEF TypeOK, RepositoryOK
      <4>3. row[k].status \in {"prepared", "applying"}
        BY DEF Unrecorded, Unfinished
      <4> QED
        BY <4>1, <4>2, <4>3 DEF WriteRow, Record
    <3>2. CASE ~ \E p \in Promoter : WriteRow(p) \/ Record(p)
      <4>1. row' = row
        BY <3>2, RowsStay
      <4> QED
        BY <4>1 DEF Unrecorded, Unfinished
    <3> QED
      BY <3>1, <3>2
  <2> QED
    BY <2>2, <2>3 DEF Unrecorded, Unfinished
<1> QED
  BY <1>1, TypeCorrect, Processes, PTL DEF Spec

\* The sha a row or a process has is one of a commit, once it has any.
ShasAreOfCommits ==
    /\ \A p \in Promoter : pc[p] = "record" => sha[p] > 0
    /\ \A k \in Key : row[k].status = "committed" => row[k].commit > 0

\* What a committed row names is a commit that HEAD has below it, for any
\* number of processes, whatever leases lapse and whatever is reverted: the
\* sha is read after the commit, and no attempt gets to the UPDATE without.
\* (promotion_gate.py:359-371)
THEOREM CommittedRowsNameCommits ==
    Spec => [](\A k \in Key : row[k].status = "committed" => row[k].commit \in 1 .. Len(log))
<1>1. Init => ShasAreOfCommits
  BY DEF Init, ShasAreOfCommits
<1>2. ShasAreOfCommits /\ TypeOK /\ JobsAreOwn /\ [Next]_vars => ShasAreOfCommits'
  <2> SUFFICES ASSUME ShasAreOfCommits, TypeOK, JobsAreOwn, [Next]_vars
               PROVE  ShasAreOfCommits'
    OBVIOUS
  <2> USE DEF ShasAreOfCommits, TypeOK, ProcessOK, Goto
  <2>1. ASSUME NEW p \in Promoter, RevParse(p)
        PROVE  ShasAreOfCommits'
    BY <2>1 DEF RevParse, RepositoryOK
  <2>2. ASSUME NEW p \in Promoter, WriteRow(p)
        PROVE  ShasAreOfCommits'
    <3>1. job[p] \in Key
      BY <2>2 DEF JobsAreOwn, Busy, WriteRow
    <3>2. \A k \in Key : row'[k].status = "committed" => row'[k] = row[k]
      BY <2>2, <3>1 DEF WriteRow, RepositoryOK
    <3>3. sha' = sha /\ \A q \in Promoter : pc'[q] = "record" => pc[q] = "record"
      BY <2>2 DEF WriteRow
    <3> QED
      BY <3>2, <3>3
  <2>3. ASSUME NEW p \in Promoter, Record(p)
        PROVE  ShasAreOfCommits'
    <3>1. job[p] \in Key
      BY <2>3 DEF JobsAreOwn, Busy, Record
    <3> QED
      BY <2>3, <3>1 DEF Record, RepositoryOK
  <2>4. ASSUME NEW p \in Promoter, Release(p) \/ Crash(p)
        PROVE  ShasAreOfCommits'
    BY <2>4 DEF Release, Crash, RepositoryOK
  <2>5. CASE \A p \in Promoter : /\ ~RevParse(p) /\ ~WriteRow(p) /\ ~Record(p)
                                /\ ~Release(p) /\ ~Crash(p)
    <3>1. row' = row
      BY <2>5, RowsStay
    <3>2. sha' = sha /\ (pc' = pc \/ \E p \in Promoter, place \in PC \ {"record"} :
                                          pc' = [pc EXCEPT ![p] = place])
      <4>1. CASE \E p \in Promoter : Step(p)
        BY <2>5, <4>1 DEF Step, Perform, ClaimSelect, ClaimInsert, ClaimTake, ClaimFails,
                          GatesPass, GatesRefuse, GatesRaise, SelectRow, Copy, Add, Commit, MakeCommit,
                          GitFails, PC
      <4>2. CASE ~ \E p \in Promoter : Step(p)
        BY <2>5, <4>2 DEF Next, vars, Clock, Edit, Iterate, Rollback, Restart, PC
      <4> QED
        BY <4>1, <4>2
    <3>3. \A p \in Promoter : pc'[p] = "record" => pc[p] = "record"
      BY <3>2
    <3> QED
      BY <3>1, <3>2, <3>3
  <2> QED
    BY <2>1, <2>2, <2>3, <2>4, <2>5
<1>3. ShasAreOfCommits /\ TypeOK =>
        \A k \in Key : row[k].status = "committed" => row[k].commit \in 1 .. Len(log)
  BY DEF ShasAreOfCommits, TypeOK, RepositoryOK
<1> QED
  BY <1>1, <1>2, <1>3, TypeCorrect, Processes, PTL DEF Spec

\* Statements of perform_promotion an attempt has before it.
StepsLeft(p) ==
    CASE pc[p] = "select" -> 7
      [] pc[p] = "write" -> 6
      [] pc[p] = "copy" -> 5
      [] pc[p] = "add" -> 4
      [] pc[p] = "commit" -> 3
      [] pc[p] = "head" -> 2
      [] pc[p] = "record" -> 1
      [] OTHER -> 0

GoesForward(p) ==
    Performing(p) /\ pc'[p] # pc[p] =>
        /\ StepsLeft(p)' < StepsLeft(p)
        /\ pc'[p] = "release" => row'[job[p]].status = "committed"

\* The safety half of an idempotent retry: an attempt never goes back, so it
\* ends within seven steps of its own, and it returns only when its row says
\* 'committed', by its own hand or another's; any other end is an exception
\* or a kill.  (promotion_gate.py:318-373)
THEOREM AttemptsGoForward == Spec => [][\A p \in Promoter : GoesForward(p)]_vars
<1>1. TypeOK /\ JobsAreOwn /\ [Next]_vars => [\A p \in Promoter : GoesForward(p)]_vars
  <2> SUFFICES ASSUME TypeOK, JobsAreOwn, Next, NEW p \in Promoter, Performing(p), pc'[p] # pc[p]
               PROVE  /\ StepsLeft(p)' < StepsLeft(p)
                      /\ pc'[p] = "release" => row'[job[p]].status = "committed"
    BY DEF GoesForward, vars
  <2> USE DEF TypeOK, ProcessOK, Goto
  <2>1. Step(p) \/ Crash(p)
    <3>1. PICK q \in Promoter : Step(q) \/ Crash(q) \/ Restart(q)
      BY DEF Next, Clock, Edit, Iterate, Rollback
    <3>2. \E place : pc' = [pc EXCEPT ![q] = place]
      BY <3>1 DEF Step, Perform, ClaimSelect, ClaimInsert, ClaimTake, ClaimFails, GatesPass,
                  GatesRefuse, GatesRaise, SelectRow, WriteRow, Copy, Add, Commit, MakeCommit, RevParse,
                  Record, GitFails, Release, Crash, Restart
    <3>3. p = q
      BY <3>2
    <3> QED
      BY <3>1, <3>3 DEF Restart, Performing
  <2>2. job[p] \in Key
    BY DEF JobsAreOwn, Busy, Performing
  <2>3. CASE SelectRow(p) \/ WriteRow(p) \/ Copy(p) \/ Add(p)
    BY <2>3 DEF SelectRow, WriteRow, Copy, Add, StepsLeft
  <2>4. CASE Commit(p) \/ RevParse(p)
    BY <2>4 DEF Commit, MakeCommit, RevParse, StepsLeft
  <2>5. CASE Record(p)
    BY <2>2, <2>5 DEF Record, StepsLeft, RepositoryOK
  <2>6. CASE GitFails(p) \/ Crash(p)
    BY <2>6 DEF GitFails, Crash, StepsLeft, Performing
  <2> QED
    BY <2>1, <2>3, <2>4, <2>5, <2>6 DEF Step, Perform, ClaimSelect, ClaimInsert, ClaimTake,
       ClaimFails, GatesPass, GatesRefuse, GatesRaise, Release, Performing
<1> QED
  BY <1>1, TypeCorrect, Processes, PTL DEF Spec

---------------------------------------------------------------------------
(***************************************************************************)
(* DirtyBestIsDeclared.  The row that announces a difference must survive  *)
(* the steps to come: it is unfinished and no process is past its commit   *)
(* with it.  For best/ against the index, no process is past its add.      *)
(***************************************************************************)
Declares(k, places) ==
    Unfinished(k) /\ \A p \in Promoter : job[p] = k => pc[p] \notin places

Added == {"commit", "head", "record"}
Past == {"head", "record"}

DirtyInv ==
    OneProcessPerRun =>
        /\ best # index => \E k \in Key : Declares(k, Added)
        /\ best # HEAD.tree => \E k \in Key : Declares(k, Past)

\* A step that leaves best/, index and log alone, and takes no process past
\* its add, keeps every declaration.
LEMMA QuietStep ==
    ASSUME DirtyInv, OneProcessPerRun, UNCHANGED <<best, index, log, row>>,
           \A p \in Promoter : /\ job'[p] \in {job[p], None} \/ pc'[p] \notin Added
                               /\ pc'[p] \in Added => pc[p] \in Added /\ job'[p] = job[p]
                               /\ pc'[p] \in Past => pc[p] \in Past
    PROVE  DirtyInv'
BY DEF DirtyInv, Declares, Unfinished, HEAD, Added, Past

\* best/ differs from git only while a row says so.
THEOREM DirtyIsDeclared == Spec => []DirtyBestIsDeclared
<1> USE DEF Added, Past
<1>1. Init => DirtyInv
  <2> SUFFICES ASSUME Init
               PROVE  DirtyInv
    OBVIOUS
  <2>1. PICK v \in Value : best = v /\ index = v /\ log = <<[tree |-> v, key |-> None]>>
    BY DEF Init
  <2>2. Len(log) = 1 /\ log[1].tree = v
    BY <2>1
  <2> QED
    BY <2>1, <2>2 DEF DirtyInv, HEAD
<1>2. DirtyInv /\ RowInv /\ TypeOK /\ ProcessOK' /\ JobsAreOwn /\ [Next]_vars => DirtyInv'
  <2> SUFFICES ASSUME DirtyInv, RowInv, ProcessOK, ProcessOK', RepositoryOK, JobsAreOwn,
                      [Next]_vars, OneProcessPerRun
               PROVE  DirtyInv'
    BY DEF DirtyInv, TypeOK
  <2> USE DEF ProcessOK, Goto
  <2>1. CASE UNCHANGED vars
    BY <2>1, QuietStep DEF vars, gitVars
  <2>2. CASE Clock \/ Edit \/ (\E r \in Run : Iterate(r))
    BY <2>2, QuietStep DEF Clock, Edit, Iterate, gitVars, worldVars
  <2>3. ASSUME NEW k \in Key, Rollback(k)
        PROVE  DirtyInv'
    <3> DEFINE before == log[row[k].commit - 1].tree
               after == IF log[row[k].commit].tree = before THEN HEAD.tree ELSE before
    <3>1. log' = Append(log, [tree |-> after, key |-> None]) /\ index' = after /\ best' = after
      BY <2>3 DEF Rollback
    <3> HIDE DEF after
    <3>2. Len(log') = Len(log) + 1 /\ log'[Len(log) + 1] = [tree |-> after, key |-> None]
      BY <3>1 DEF RepositoryOK
    <3>3. HEAD'.tree = after
      BY <3>2 DEF HEAD
    <3> QED
      BY <3>1, <3>3 DEF DirtyInv
  <2>4. ASSUME NEW p \in Promoter, Step(p)
        PROVE  DirtyInv'
    <3>1. CASE ClaimSelect(p) \/ ClaimInsert(p) \/ ClaimTake(p) \/ ClaimFails(p)
      BY <3>1, QuietStep DEF ClaimSelect, ClaimInsert, ClaimTake, ClaimFails, gitVars
    <3>2. CASE GatesPass(p) \/ GatesRefuse(p) \/ GatesRaise(p) \/ GitFails(p) \/ Release(p) \/ SelectRow(p)
      BY <3>2, QuietStep DEF GatesPass, GatesRefuse, GatesRaise, GitFails, Release, SelectRow, gitVars
    <3>3. CASE RevParse(p)
      BY <3>3, QuietStep DEF RevParse, gitVars
    <3>4. CASE WriteRow(p)
      <4>1. job[p] \in Key
        BY <3>4 DEF WriteRow, JobsAreOwn, Busy
      <4>2. \A k \in Key : Unfinished(k) => Unfinished(k)'
        <5> SUFFICES ASSUME NEW k \in Key, Unfinished(k)
                     PROVE  row'[k].status \in {"prepared", "applying"}
          BY DEF Unfinished
        <5>1. CASE row' = row
          BY <5>1 DEF Unfinished
        <5>2. ASSUME NEW st \in {"prepared", "applying"},
                     row' = [row EXCEPT ![job[p]].status = st]
              PROVE  row'[k].status \in {"prepared", "applying"}
          <6>1. row'[k] = IF k = job[p] THEN [row[k] EXCEPT !.status = st] ELSE row[k]
            BY <4>1, <5>2 DEF RepositoryOK
          <6> QED
            BY <6>1 DEF Unfinished, RepositoryOK
        <5> QED
          BY <3>4, <5>1, <5>2 DEF WriteRow
      <4>3. UNCHANGED <<best, index, log, job>>
        BY <3>4 DEF WriteRow, gitVars
      <4>4. \A q \in Promoter : pc'[q] \in Added => pc[q] \in Added /\ pc'[q] = pc[q]
        BY <3>4 DEF WriteRow
      <4> QED
        BY <4>2, <4>3, <4>4 DEF DirtyInv, Declares, HEAD
    <3>5. CASE Copy(p)
      <4>1. job[p] \in Key /\ Busy(p) /\ Unfinished(job[p])
        BY <3>5 DEF Copy, JobsAreOwn, Busy, RowInv
      <4>2. \A q \in Promoter : q # p /\ Busy(q) => job[q] # job[p]
        BY <4>1, KeysDiffer
      <4>3. UNCHANGED <<job, row>> /\ pc' = [pc EXCEPT ![p] = "add"]
        BY <3>5 DEF Copy
      <4>4. \A q \in Promoter : job'[q] = job[p] => pc'[q] \notin Added
        BY <4>2, <4>3 DEF Busy
      <4>5. Unfinished(job[p])'
        <5>1. row'[job[p]] = row[job[p]] /\ job'[p] = job[p]
          BY <4>3
        <5> QED
          BY <4>1, <5>1 DEF Unfinished
      <4>6. \E k \in Key : row' = row /\ row[k].status \in {"prepared", "applying"} /\ \A q \in Promoter : job'[q] = k => pc'[q] \notin Added
        BY <4>1, <4>3, <4>4 DEF Unfinished
      <4> QED
        BY <4>6 DEF DirtyInv, Declares, Unfinished
    <3>6. CASE Add(p)
      <4>1. index' = best /\ UNCHANGED <<best, log, row, job>> /\ pc' = [pc EXCEPT ![p] = "commit"]
        BY <3>6 DEF Add
      <4> QED
        BY <4>1 DEF DirtyInv, Declares, Unfinished, HEAD
    <3>7. CASE Commit(p)
      <4>1. UNCHANGED <<best, index, row, job>> /\ pc[p] = "commit"
            /\ \E place \in {"head", "abort"} : pc' = [pc EXCEPT ![p] = place]
        BY <3>7 DEF Commit, MakeCommit
      <4>2. \A k \in Key : Declares(k, Added) => Declares(k, Added)'
        BY <4>1 DEF Declares, Unfinished
      <4>3. HEAD'.tree = index
        <5>1. CASE log' = Append(log, [tree |-> index, key |-> job[p]])
          <6>1. Len(log') = Len(log) + 1 /\ log'[Len(log) + 1] = [tree |-> index, key |-> job[p]]
            BY <5>1 DEF RepositoryOK
          <6> QED
            BY <6>1 DEF HEAD
        <5>2. CASE index = HEAD.tree /\ UNCHANGED log
          BY <5>2 DEF HEAD
        <5> QED
          BY <3>7, <5>1, <5>2 DEF Commit, MakeCommit, Staged
      <4>4. \A k \in Key : Declares(k, Added)' => Declares(k, Past)'
        BY DEF Declares
      <4> QED
        BY <4>1, <4>2, <4>3, <4>4 DEF DirtyInv
    <3>8. CASE Record(p)
      <4>1. job[p] \in Key /\ pc[p] = "record"
        BY <3>8 DEF Record, JobsAreOwn, Busy
      <4>2. \A k \in Key : k # job[p] => row'[k] = row[k]
        BY <3>8, <4>1 DEF Record, RepositoryOK
      <4>3. UNCHANGED <<best, index, log, job>> /\ pc' = [pc EXCEPT ![p] = "release"]
        BY <3>8 DEF Record, gitVars
      <4>4. \A k \in Key : Declares(k, Past) => Declares(k, Past)'
        BY <4>1, <4>2, <4>3 DEF Declares, Unfinished
      <4>5. \A k \in Key : Declares(k, Added) => Declares(k, Added)'
        BY <4>1, <4>2, <4>3 DEF Declares, Unfinished
      <4> QED
        BY <4>3, <4>4, <4>5 DEF DirtyInv, HEAD
    <3> QED
      BY <2>4, <3>1, <3>2, <3>3, <3>4, <3>5, <3>6, <3>7, <3>8 DEF Step, Perform
  <2>5. ASSUME NEW p \in Promoter, Crash(p) \/ Restart(p)
        PROVE  DirtyInv'
    BY <2>5, QuietStep DEF Crash, Restart, gitVars
  <2> QED
    BY <2>1, <2>2, <2>3, <2>4, <2>5 DEF Next
<1>3. DirtyInv => DirtyBestIsDeclared
  BY DEF DirtyInv, DirtyBestIsDeclared, Declares
<1> QED
  BY <1>1, <1>2, <1>3, Rows, TypeCorrect, Processes, PTL DEF Spec
---------------------------------------------------------------------------
(***************************************************************************)
(* OneCommitPerKey and CommittedWasEvaluated.  Alone, and with a file that *)
(* keeps its evaluated content, a process that works on iteration n finds  *)
(* at its commit what the commits say: when one of them names n already,   *)
(* HEAD has the content of the file, and so has the index by then, and all *)
(* the notes, so that git finds nothing to commit.                         *)
(***************************************************************************)
Current(p) == <<RunOf[p], latest[RunOf[p]]>>

SoloProcess(p) ==
    /\ Busy(p) => job[p] = Current(p)
    /\ latest[RunOf[p]] > 0 => verdict[Current(p)] = file
    /\ pc[p] = "add" => best = file
    /\ pc[p] = "commit" => best = file /\ index = file /\ "file" \notin notes
    /\ pc[p] \in {"head", "record"} => HEAD.tree = file
    /\ pc[p] = "record" => sha[p] = Len(log)
    /\ \A i \in 1 .. Len(log) :
          log[i].key = Current(p) => HEAD.tree = file /\ notes = {}

SoloCommit(i) ==
    log[i].key # None =>
        /\ log[i].key[2] =< latest[log[i].key[1]]
        /\ log[i].tree = verdict[log[i].key]

SoloLog ==
    /\ \A i \in 1 .. Len(log) : SoloCommit(i)
    /\ \A i, j \in 1 .. Len(log) : log[i].key = log[j].key /\ log[i].key # None => i = j

SoloRow(k) ==
    row[k].status = "committed" =>
        /\ k[2] =< latest[k[1]]
        /\ row[k].commit \in 1 .. Len(log)
        /\ log[row[k].commit].tree = verdict[k]

SoloState == (\A p \in Promoter : SoloProcess(p)) /\ SoloLog /\ (\A k \in Key : SoloRow(k))

SoloInv == Alone /\ edits = 0 /\ rollbacks = 0 => SoloState

\* A commit on top leaves the ones below as they are.
LEMMA Appended ==
    ASSUME NEW S, NEW s \in Seq(S), NEW e \in S
    PROVE  /\ Len(Append(s, e)) = Len(s) + 1
           /\ Append(s, e)[Len(s) + 1] = e
           /\ \A i \in 1 .. Len(s) : Append(s, e)[i] = s[i]
OBVIOUS

\* The next iteration of run r is not one that a commit or a row has yet.
LEMMA SoloIterate ==
    ASSUME TypeOK, Alone, SoloState, NEW r \in Run, Iterate(r)
    PROVE  SoloState'
<1> USE PromotionAssumption DEF PromotionAssumption, TypeOK, ProcessOK
<1> DEFINE new == <<r, latest[r] + 1>>
<1>1. PICK p \in Promoter : RunOf[p] = r /\ pc[p] = "idle"
  BY DEF Iterate
<1>2. PICK v \in Value : file' = v /\ verdict' = [verdict EXCEPT ![new] = v]
  BY DEF Iterate
<1>3. latest' = [latest EXCEPT ![r] = @ + 1] /\ new \in Key
      /\ UNCHANGED <<pc, job, sha, row, best, index, log, HEAD>>
  BY DEF Iterate, Key, HEAD
<1>4. verdict'[new] = file' /\ \A k \in Key : k # new => verdict'[k] = verdict[k]
  BY <1>2, <1>3 DEF WorldOK
<1>5. \A k \in Key : k[2] =< latest[k[1]] =>
          /\ k # new
          /\ k[2] =< latest'[k[1]]
          /\ verdict'[k] = verdict[k]
  BY <1>3, <1>4 DEF Key
<1>6. ASSUME NEW i \in 1 .. Len(log)
      PROVE  log[i].key \in Key \cup {None}
  <2>1. log \in Seq([tree : Value, key : Key \cup {None}])
    BY DEF RepositoryOK
  <2>2. log[i] \in [tree : Value, key : Key \cup {None}]
    BY <2>1, ElementOfSeq
  <2> QED
    BY <2>2
<1>7. SoloLog'
  BY <1>3, <1>5, <1>6 DEF SoloState, SoloLog, SoloCommit, gitVars
<1>8. \A k \in Key : SoloRow(k)'
  BY <1>3, <1>5 DEF SoloState, SoloRow, gitVars
<1>9. ASSUME NEW q \in Promoter
      PROVE  SoloProcess(q)'
  <2>1. q = p /\ Current(q)' = new
    BY <1>1, <1>3 DEF Alone, Current
  <2>2. ASSUME NEW i \in 1 .. Len(log)
        PROVE  log[i].key # new
    <3>1. CASE log[i].key = None
      BY <1>3, <3>1 DEF Key
    <3>2. CASE log[i].key # None
      <4>1. log[i].key \in Key
        BY <1>6, <3>2
      <4>2. log[i].key[2] =< latest[log[i].key[1]]
        BY <3>2 DEF SoloState, SoloLog, SoloCommit
      <4> QED
        BY <1>5, <4>1, <4>2
    <3> QED
      BY <3>1, <3>2
  <2> QED
    BY <1>1, <1>3, <1>4, <2>1, <2>2 DEF SoloProcess, Busy, gitVars
<1> QED
  BY <1>7, <1>8, <1>9 DEF SoloState

\* A commit is made only if HEAD has not the content of the file, and so if
\* none names the iteration.
LEMMA SoloCommitStep ==
    ASSUME TypeOK, JobsAreOwn, Alone, SoloState, NEW p \in Promoter, Commit(p)
    PROVE  SoloState'
<1> USE PromotionAssumption DEF PromotionAssumption, TypeOK, ProcessOK
<1>1. job[p] = Current(p) /\ job[p] \in Key /\ index = file
      /\ \A q \in Promoter : q = p
  BY DEF Commit, SoloState, SoloProcess, Busy, JobsAreOwn, Alone
<1>2. UNCHANGED <<job, sha, row, best, index, worldVars, Current(p)>>
  BY DEF Commit, Current, worldVars
<1>6. best = file /\ "file" \notin notes
  BY DEF Commit, SoloState, SoloProcess
<1>3. latest[RunOf[p]] > 0 /\ job[p][2] = latest[job[p][1]] /\ verdict[job[p]] = file
  BY <1>1 DEF Key, Current, SoloState, SoloProcess
<1>4. CASE ~Staged /\ UNCHANGED <<log, notes>> /\ \E place \in {"head", "abort"} : Goto(p, place)
  <2>1. HEAD.tree = file /\ HEAD' = HEAD /\ pc'[p] \in {"head", "abort"}
    BY <1>1, <1>4 DEF Staged, HEAD, Goto
  <2>2. UNCHANGED <<log, notes, row, latest, verdict, file>>
    BY <1>2, <1>4 DEF worldVars
  <2>3. SoloLog' /\ \A k \in Key : SoloRow(k)'
    BY <2>2 DEF SoloState, SoloLog, SoloCommit, SoloRow
  <2>4. SoloProcess(p)'
    BY <1>1, <1>2, <2>1, <2>2 DEF SoloState, SoloProcess
  <2> QED
    BY <1>1, <2>3, <2>4 DEF SoloState
<1>5. CASE Staged /\ MakeCommit(p)
  <2> DEFINE n == Len(log) + 1
  <2>1. Len(log) \in Nat /\ Len(log') = n /\ log'[n] = [tree |-> file, key |-> job[p]]
        /\ \A i \in 1 .. Len(log) : log'[i] = log[i]
    BY <1>1, <1>5, Appended DEF MakeCommit, RepositoryOK
  <2>2. HEAD'.tree = file /\ pc'[p] = "head" /\ notes' = {}
    BY <1>5, <1>6, <2>1 DEF MakeCommit, HEAD, Goto, RepositoryOK
  <2>3. \A i \in 1 .. Len(log) : log[i].key # job[p]
    BY <1>1, <1>5 DEF Staged, SoloState, SoloProcess
  <2>4. \A i \in 1 .. n : i = n \/ i \in 1 .. Len(log)
    BY <2>1
  <2>5. SoloLog'
    <3>1. ASSUME NEW i \in 1 .. n
          PROVE  SoloCommit(i)'
      <4>1. CASE i = n
        <5>1. log'[i].key = job[p] /\ log'[i].tree = file
          BY <2>1, <4>1
        <5>2. latest' = latest /\ verdict' = verdict
          BY <1>2 DEF worldVars
        <5>3. job[p][2] =< latest[job[p][1]]
          BY <1>1, <1>3 DEF Key
        <5> QED
          BY <1>3, <5>1, <5>2, <5>3 DEF SoloCommit
      <4>2. CASE i \in 1 .. Len(log)
        <5>1. SoloCommit(i) /\ log'[i] = log[i]
          BY <2>1, <4>2 DEF SoloState, SoloLog
        <5> QED
          BY <1>2, <5>1 DEF SoloCommit, worldVars
      <4> QED
        BY <2>4, <4>1, <4>2
    <3>2. ASSUME NEW i \in 1 .. n, NEW j \in 1 .. n,
                 log'[i].key = log'[j].key, log'[i].key # None
          PROVE  i = j
      <4>1. CASE i \in 1 .. Len(log) /\ j \in 1 .. Len(log)
        BY <2>1, <3>2, <4>1 DEF SoloState, SoloLog
      <4>2. CASE i = n \/ j = n
        <5>1. \A l \in 1 .. Len(log) : log'[l].key # log'[n].key
          BY <2>1, <2>3
        <5> QED
          BY <2>4, <3>2, <4>2, <5>1
      <4> QED
        BY <2>4, <4>1, <4>2
    <3> QED
      BY <2>1, <3>1, <3>2 DEF SoloLog
  <2>6. ASSUME NEW k \in Key, row[k].status = "committed"
        PROVE  SoloRow(k)'
    <3>1. SoloRow(k) /\ row'[k] = row[k] /\ latest' = latest /\ verdict' = verdict
      BY <1>2 DEF SoloState, worldVars
    <3>2. row[k].commit \in 1 .. Len(log) /\ log'[row[k].commit] = log[row[k].commit]
      BY <2>1, <2>6, <3>1 DEF SoloRow
    <3> QED
      BY <2>1, <2>6, <3>1, <3>2 DEF SoloRow
  <2>7. SoloProcess(p)'
    BY <1>1, <1>2, <2>2 DEF SoloState, SoloProcess, worldVars
  <2> QED
    BY <1>1, <1>2, <2>5, <2>6, <2>7 DEF SoloState, SoloRow
<1> QED
  BY <1>4, <1>5 DEF Commit

\* The other steps of the transaction.
LEMMA SoloPerform ==
    ASSUME TypeOK, JobsAreOwn, Alone, SoloState, NEW p \in Promoter,
           SelectRow(p) \/ WriteRow(p) \/ Copy(p) \/ Add(p) \/ RevParse(p) \/ Record(p)
    PROVE  SoloState'
<1> USE PromotionAssumption DEF PromotionAssumption, TypeOK, ProcessOK, Goto, worldVars, gitVars
<1>1. job[p] = Current(p) /\ job[p] \in Key /\ \A q \in Promoter : q = p
  BY DEF SelectRow, WriteRow, Copy, Add, RevParse, Record, SoloState, SoloProcess, Busy,
         JobsAreOwn, Alone
<1>2. UNCHANGED <<log, HEAD, file, latest, verdict, job, Current(p)>>
  BY DEF SelectRow, WriteRow, Copy, Add, RevParse, Record, HEAD, Current
<1>6. (notes = {} => notes' = {}) /\ (~Add(p) => notes' = notes)
      /\ (Add(p) => "file" \notin notes')
  BY DEF SelectRow, WriteRow, Copy, Add, RevParse, Record
<1>3. SoloLog'
  BY <1>2 DEF SoloState, SoloLog, SoloCommit
<1>4. SoloProcess(p)'
  <2>1. latest[RunOf[p]] > 0 /\ verdict[Current(p)] = file
    <3>1. latest[RunOf[p]] > 0
      BY <1>1 DEF Key, Current
    <3> QED
      BY <3>1 DEF SoloState, SoloProcess
  <2>2. CASE SelectRow(p) \/ WriteRow(p)
    BY <1>1, <1>2, <1>6, <2>1, <2>2 DEF SelectRow, WriteRow, SoloState, SoloProcess
  <2>3. CASE Copy(p) \/ Add(p)
    BY <1>1, <1>2, <1>6, <2>1, <2>3 DEF Copy, Add, SoloState, SoloProcess
  <2>4. CASE RevParse(p)
    <3>1. sha'[p] = Len(log) /\ pc' = [pc EXCEPT ![p] = "record"] /\ pc[p] = "head"
      BY <2>4 DEF RevParse, RepositoryOK
    <3> QED
      BY <1>1, <1>2, <1>6, <2>1, <3>1 DEF SoloState, SoloProcess
  <2>5. CASE Record(p)
    BY <1>1, <1>2, <1>6, <2>1, <2>5 DEF Record, SoloState, SoloProcess
  <2> QED
    BY <2>2, <2>3, <2>4, <2>5
<1>5. ASSUME NEW k \in Key
      PROVE  SoloRow(k)'
  <2>1. CASE Record(p) /\ k = job[p]
    <3>1. row'[k].commit = sha[p]
      BY <2>1 DEF Record, RepositoryOK
    <3>2. k[1] = RunOf[p] /\ k[2] = latest[RunOf[p]] /\ k[2] \in Nat /\ k[2] > 0
      BY <1>1, <2>1 DEF Key, Current
    <3>3. sha[p] = Len(log) /\ HEAD.tree = file /\ verdict[k] = file /\ k[2] =< latest[k[1]]
      BY <1>1, <2>1, <3>2 DEF Record, SoloState, SoloProcess
    <3>4. Len(log) \in 1 .. Len(log)
      BY DEF RepositoryOK
    <3> QED
      BY <1>2, <3>1, <3>3, <3>4 DEF SoloRow, HEAD
  <2>2. CASE ~(Record(p) /\ k = job[p])
    <3>1. row'[k].status = "committed" => row'[k] = row[k]
      <4>1. CASE WriteRow(p) /\ k = job[p]
        BY <4>1 DEF WriteRow, RepositoryOK
      <4>2. CASE ~(WriteRow(p) /\ k = job[p])
        BY <1>1, <2>2, <4>2 DEF SelectRow, WriteRow, Copy, Add, RevParse, Record, RepositoryOK
      <4> QED
        BY <4>1, <4>2
    <3> QED
      BY <1>2, <3>1 DEF SoloState, SoloRow
  <2> QED
    BY <2>1, <2>2
<1> QED
  BY <1>1, <1>3, <1>4, <1>5 DEF SoloState

\* The steps before and after it.
LEMMA SoloElsewhere ==
    ASSUME TypeOK, Alone, SoloState, NEW p \in Promoter,
           \/ ClaimSelect(p) \/ ClaimInsert(p) \/ ClaimTake(p) \/ ClaimFails(p)
           \/ GatesPass(p) \/ GatesRefuse(p) \/ GatesRaise(p) \/ GitFails(p)
           \/ Release(p) \/ Crash(p) \/ Restart(p)
    PROVE  SoloState'
<1> USE DEF TypeOK, ProcessOK, Goto, worldVars, gitVars
<1>1. UNCHANGED <<row, log, HEAD, file, latest, verdict, best, index, notes, Current(p)>>
  BY DEF ClaimSelect, ClaimInsert, ClaimTake, ClaimFails, GatesPass, GatesRefuse, GatesRaise,
         GitFails, Release, Crash, Restart, HEAD, Current
<1>2. SoloLog' /\ \A k \in Key : SoloRow(k)'
  BY <1>1 DEF SoloState, SoloLog, SoloCommit, SoloRow
<1>3. pc'[p] \notin {"add", "commit", "head", "record"}
  BY DEF ClaimSelect, ClaimInsert, ClaimTake, ClaimFails, GatesPass, GatesRefuse, GatesRaise,
         GitFails, Release, Crash, Restart
<1>4. Busy(p)' => job'[p] = Current(p)
  <2>1. CASE ClaimSelect(p)
    BY <2>1 DEF ClaimSelect, Current
  <2>2. CASE ~ClaimSelect(p)
    BY <2>2 DEF ClaimInsert, ClaimTake, ClaimFails, GatesPass, GatesRefuse, GatesRaise,
                GitFails, Release, Crash, Restart, Busy, SoloState, SoloProcess
  <2> QED
    BY <2>1, <2>2
<1>5. SoloProcess(p)'
  BY <1>1, <1>3, <1>4 DEF SoloState, SoloProcess
<1> QED
  BY <1>2, <1>5 DEF SoloState, Alone

\* What has not been edited or reverted yet had not before.
LEMMA UndisturbedSoFar ==
    ASSUME TypeOK, [Next]_vars, edits' = 0, rollbacks' = 0
    PROVE  edits = 0 /\ rollbacks = 0 /\ ~Edit /\ ~(\E k \in Key : Rollback(k))
<1>1. ~Edit /\ ~(\E k \in Key : Rollback(k))
  <2>1. edits \in Nat /\ rollbacks \in Nat
    BY PromotionAssumption DEF TypeOK, WorldOK, PromotionAssumption
  <2>2. Edit => edits' = edits + 1
    BY DEF Edit
  <2>3. (\E k \in Key : Rollback(k)) => rollbacks' = rollbacks + 1
    BY DEF Rollback
  <2> QED
    BY <2>1, <2>2, <2>3
<1>2. ASSUME NEW p \in Promoter, Step(p)
      PROVE  UNCHANGED <<edits, rollbacks>>
  BY <1>2 DEF Step, Perform, ClaimSelect, ClaimInsert, ClaimTake, ClaimFails, GatesPass,
              GatesRefuse, GatesRaise, SelectRow, WriteRow, Copy, Add, Commit, MakeCommit,
              RevParse, Record, GitFails, Release, worldVars
<1>3. ASSUME UNCHANGED vars \/ Clock \/ (\E r \in Run : Iterate(r))
             \/ (\E p \in Promoter : Crash(p) \/ Restart(p))
      PROVE  UNCHANGED <<edits, rollbacks>>
  BY <1>3 DEF vars, Clock, Iterate, Crash, Restart, worldVars
<1> QED
  BY <1>1, <1>2, <1>3 DEF Next

\* As long as nobody edits or reverts, the process that is alone keeps its
\* files, commits and rows consistent with what was evaluated.
LEMMA Solo == Spec => []SoloInv
<1>1. Init => SoloInv
  <2> SUFFICES ASSUME Init
               PROVE  SoloState
    BY DEF SoloInv
  <2>1. PICK v \in Value : log = <<[tree |-> v, key |-> None]>> /\ file = v
    BY DEF Init
  <2>2. Len(log) = 1 /\ log[1].key = None /\ HEAD.tree = file
    BY <2>1 DEF HEAD
  <2>3. SoloLog /\ \A k \in Key : SoloRow(k)
    BY <2>2 DEF Init, SoloLog, SoloCommit, SoloRow
  <2>4. ASSUME NEW p \in Promoter
        PROVE  SoloProcess(p)
    <3>1. pc[p] = "idle" /\ latest[RunOf[p]] = 0 /\ notes = {}
      BY PromotionAssumption DEF Init, PromotionAssumption
    <3> QED
      BY <2>2, <3>1 DEF SoloProcess, Busy
  <2> QED
    BY <2>3, <2>4 DEF SoloState
<1>2. SoloInv /\ TypeOK /\ JobsAreOwn /\ [Next]_vars => SoloInv'
  <2> SUFFICES ASSUME SoloInv, TypeOK, JobsAreOwn, [Next]_vars,
                      Alone, edits' = 0, rollbacks' = 0
               PROVE  SoloState'
    BY DEF SoloInv, Alone
  <2>1. edits = 0 /\ rollbacks = 0 /\ ~Edit /\ ~(\E k \in Key : Rollback(k))
    BY UndisturbedSoFar
  <2>2. SoloState
    BY <2>1 DEF SoloInv
  <2>3. CASE UNCHANGED vars \/ Clock
    <3>1. UNCHANGED <<pc, job, sha, row, log, HEAD, best, index, notes, file, latest, verdict>>
      BY <2>3 DEF vars, Clock, gitVars, worldVars, HEAD
    <3> QED
      BY <2>2, <3>1 DEF SoloState, SoloProcess, SoloLog, SoloCommit, SoloRow, Busy, Current
  <2>4. CASE \E r \in Run : Iterate(r)
    BY <2>2, <2>4, SoloIterate
  <2>5. CASE \E p \in Promoter : Step(p) \/ Crash(p) \/ Restart(p)
    BY <2>2, <2>5, SoloCommitStep, SoloPerform, SoloElsewhere DEF Step, Perform
  <2> QED
    BY <2>1, <2>3, <2>4, <2>5 DEF Next
<1> QED
  BY <1>1, <1>2, TypeCorrect, Processes, PTL DEF Spec

\* Kills and retries make no second commit.
THEOREM OneCommit == Spec => []OneCommitPerKey
<1>1. SoloInv => OneCommitPerKey
  BY DEF SoloInv, SoloState, SoloLog, OneCommitPerKey
<1> QED
  BY <1>1, Solo, PTL

\* What is committed is what was evaluated.
THEOREM EvaluatedIsCommitted == Spec => []CommittedWasEvaluated
<1>1. SoloInv /\ TypeOK => CommittedWasEvaluated
  <2> SUFFICES ASSUME SoloLog, \A k \in Key : SoloRow(k), Len(log) \in Nat
               PROVE  /\ \A i \in 2 .. Len(log) :
                            log[i].key # None => log[i].tree = verdict[log[i].key]
                      /\ \A k \in Key :
                            row[k].status = "committed" =>
                              row[k].commit > 0 /\ log[row[k].commit].tree = verdict[k]
    BY LenProperties DEF SoloInv, SoloState, CommittedWasEvaluated, TypeOK, RepositoryOK
  <2>1. \A i \in 2 .. Len(log) : SoloCommit(i)
    BY DEF SoloLog
  <2>2. ASSUME NEW k \in Key, row[k].status = "committed"
        PROVE  row[k].commit > 0 /\ log[row[k].commit].tree = verdict[k]
    BY <2>2 DEF SoloRow
  <2> QED
    BY <2>1, <2>2 DEF SoloCommit
<1> QED
  BY <1>1, Solo, TypeCorrect, PTL
---------------------------------------------------------------------------
Judged(k) == k[2] =< latest[k[1]]

\* Keys up to the latest have a verdict, and jobs have such keys.
KeysAreJudged ==
    /\ \A k \in Key : Judged(k) => verdict[k] \in Value
    /\ \A p \in Promoter : Busy(p) => Judged(job[p])

\* A verdict is final.
LEMMA VerdictStays ==
    ASSUME TypeOK, [Next]_vars, NEW k \in Key, Judged(k)
    PROVE  verdict'[k] = verdict[k] /\ Judged(k)'
<1> USE PromotionAssumption DEF PromotionAssumption, TypeOK, ProcessOK, WorldOK, Key, Judged
<1>1. ASSUME NEW r \in Run, Iterate(r)
      PROVE  verdict'[k] = verdict[k] /\ Judged(k)'
  BY <1>1 DEF Iterate
<1>2. CASE ~\E r \in Run : Iterate(r)
  <2>1. UNCHANGED <<latest, verdict>>
    BY <1>2 DEF Next, vars, Clock, Edit, Rollback, Step, Perform, ClaimSelect, ClaimInsert,
                ClaimTake, ClaimFails, GatesPass, GatesRefuse, GatesRaise, SelectRow, WriteRow,
                Copy, Add, Commit, MakeCommit, RevParse, Record, GitFails, Release, Crash, Restart, worldVars
  <2> QED
    BY <2>1
<1> QED
  BY <1>1, <1>2

LEMMA Judgements == Spec => []KeysAreJudged
<1> USE PromotionAssumption DEF PromotionAssumption, ProcessOK, Goto, worldVars
<1>1. Init => KeysAreJudged
  BY DEF Init, KeysAreJudged, Judged, Key, Busy
<1>2. KeysAreJudged /\ TypeOK /\ JobsAreOwn /\ [Next]_vars => KeysAreJudged'
  <2> SUFFICES ASSUME KeysAreJudged, TypeOK, JobsAreOwn, [Next]_vars
               PROVE  KeysAreJudged'
    OBVIOUS
  <2>1. ASSUME NEW k \in Key, Judged(k)'
        PROVE  verdict'[k] \in Value
    <3>1. CASE Judged(k)
      BY <3>1, VerdictStays DEF KeysAreJudged
    <3>2. CASE ~Judged(k)
      <4>1. PICK r \in Run : Iterate(r)
        BY <2>1, <3>2 DEF Judged, Next, vars, Clock, Edit, Rollback, Step, Perform, ClaimSelect,
             ClaimInsert, ClaimTake, ClaimFails, GatesPass, GatesRefuse, GatesRaise, SelectRow,
             WriteRow, Copy, Add, Commit, MakeCommit, RevParse, Record, GitFails, Release, Crash, Restart
      <4>2. k = <<r, latest[r] + 1>>
        BY <2>1, <3>2, <4>1 DEF Judged, Iterate, Key, TypeOK
      <4> QED
        BY <4>1, <4>2 DEF Iterate, TypeOK, WorldOK
    <3> QED
      BY <3>1, <3>2
  <2>2. ASSUME NEW p \in Promoter, Busy(p)'
        PROVE  Judged(job[p])'
    <3>1. CASE Busy(p) /\ job'[p] = job[p]
      BY <3>1, VerdictStays DEF KeysAreJudged, JobsAreOwn
    <3>2. CASE ~(Busy(p) /\ job'[p] = job[p])
      <4>1. ClaimSelect(p)
        <5>1. ~UNCHANGED <<pc, job>>
          BY <2>2, <3>2 DEF Busy
        <5>2. PICK q \in Promoter : Step(q) \/ Crash(q) \/ Restart(q)
          BY <5>1 DEF Next, vars, Clock, Edit, Iterate, Rollback
        <5>3. \A o \in Promoter : o # q => job'[o] = job[o] /\ pc'[o] = pc[o]
          BY <5>2 DEF Step, Perform, ClaimSelect, ClaimInsert, ClaimTake, ClaimFails,
               GatesPass, GatesRefuse, GatesRaise, SelectRow, WriteRow, Copy, Add, Commit, MakeCommit,
               RevParse, Record, GitFails, Release, Crash, Restart, TypeOK
        <5>4. ~ClaimSelect(q) /\ Busy(q)' => Busy(q) /\ job'[q] = job[q]
          BY <5>2 DEF Step, Perform, ClaimInsert, ClaimTake, ClaimFails,
               GatesPass, GatesRefuse, GatesRaise, SelectRow, WriteRow, Copy, Add, Commit, MakeCommit,
               RevParse, Record, GitFails, Release, Crash, Restart, TypeOK, Busy
        <5> QED
          BY <2>2, <3>2, <5>3, <5>4 DEF Busy
      <4> QED
        BY <4>1 DEF ClaimSelect, Judged, TypeOK
    <3> QED
      BY <3>1, <3>2
  <2> QED
    BY <2>1, <2>2 DEF KeysAreJudged
<1> QED
  BY <1>1, <1>2, TypeCorrect, Processes, PTL DEF Spec

---------------------------------------------------------------------------
(***************************************************************************)
(* LedgerKept.  A promoter that is alone publishes with its commit and     *)
(* records with its last statement; whatever else it does, and a kill of   *)
(* it, the ledger does not see.                                            *)
(***************************************************************************)

\* No process gives a verdict.
LEMMA OnlyIterateJudges ==
    ASSUME [Next]_vars
    PROVE  UNCHANGED <<latest, verdict>> \/ \E r \in Run : Iterate(r)
<1> USE DEF worldVars
<1>1. ASSUME NEW p \in Promoter, Step(p)
      PROVE  UNCHANGED worldVars
  <2>1. CASE Perform(p)
    BY <2>1 DEF Perform, SelectRow, WriteRow, Copy, Add, Commit, MakeCommit, RevParse, Record
  <2> QED
    BY <1>1, <2>1 DEF Step, ClaimSelect, ClaimInsert, ClaimTake, ClaimFails, GatesPass,
                      GatesRefuse, GatesRaise, GitFails, Release
<1> QED
  BY <1>1 DEF Next, vars, Clock, Edit, Rollback, Crash, Restart

\* What has had no KEEP yet has not been evaluated.
NotYetJudged == \A k \in Key : ~Judged(k) => verdict[k] = None

LEMMA Unjudged == Spec => []NotYetJudged
<1> USE PromotionAssumption DEF PromotionAssumption, NotYetJudged, Judged
<1>1. Init => NotYetJudged
  BY DEF Init
<1>2. NotYetJudged /\ TypeOK /\ [Next]_vars => NotYetJudged'
  <2> SUFFICES ASSUME NotYetJudged, TypeOK, [Next]_vars, NEW k \in Key, ~Judged(k)'
               PROVE  verdict'[k] = None
    OBVIOUS
  <2>1. CASE UNCHANGED <<latest, verdict>>
    BY <2>1
  <2>2. ASSUME NEW r \in Run, Iterate(r)
        PROVE  verdict'[k] = None
    BY <2>2 DEF Iterate, Key, TypeOK, ProcessOK, WorldOK
  <2>3. UNCHANGED <<latest, verdict>> \/ \E r \in Run : Iterate(r)
    BY OnlyIterateJudges
  <2> QED
    BY <2>1, <2>2, <2>3
<1> QED
  BY <1>1, <1>2, TypeCorrect, PTL DEF Spec

\* A key has a verdict when its run has got that far.
LEMMA JudgedIffEvaluated ==
    ASSUME KeysAreJudged, NotYetJudged, NEW k \in Key
    PROVE  verdict[k] # None <=> Judged(k)
BY PromotionAssumption DEF PromotionAssumption, KeysAreJudged, NotYetJudged

\* The iteration that is promoted is the newest of its run.
LEMMA CurrentIsNewest ==
    ASSUME TypeOK, KeysAreJudged, NotYetJudged, NEW p \in Promoter, Current(p) \in Key
    PROVE  Ledger!Newest(Current(p))
<1>1. verdict[Current(p)] # None
  BY JudgedIffEvaluated, PromotionAssumption
     DEF Current, Judged, PromotionAssumption, TypeOK, ProcessOK
<1>2. \A j \in Key : j[1] = Current(p)[1] /\ verdict[j] # None => j[2] =< Current(p)[2]
  BY JudgedIffEvaluated DEF Current, Judged
<1> QED
  BY <1>1, <1>2 DEF Ledger!Newest

\* And the candidate's file is what was evaluated under it.
LEMMA CurrentIsEvaluated ==
    ASSUME TypeOK, SoloState, NEW p \in Promoter, Current(p) \in Key
    PROVE  verdict[Current(p)] = file
<1>1. latest[RunOf[p]] \in 1 .. NIterations
  BY DEF Current, Key
<1> QED
  BY <1>1, PromotionAssumption DEF SoloState, SoloProcess, PromotionAssumption

LEMMA LedgerIterate ==
    ASSUME TypeOK, KeysAreJudged, NotYetJudged, NEW r \in Run, Iterate(r)
    PROVE  Ledger!Next
<1> USE PromotionAssumption DEF PromotionAssumption, TypeOK, ProcessOK
<1> DEFINE k == <<r, latest[r] + 1>>
<1>1. k \in Key
  BY DEF Iterate, Key
<1>2. \A j \in Key : j[1] = r => (verdict[j] # None <=> j[2] < latest[r] + 1)
  BY JudgedIffEvaluated DEF Judged, Key
<1>3. UNCHANGED <<log, RecordedCommit>> /\ \E v \in Value : verdict' = [verdict EXCEPT ![k] = v]
  BY DEF Iterate, RecordedCommit, gitVars
<1>4. Ledger!Evaluate(k)
  BY <1>2, <1>3 DEF Ledger!Evaluate
<1> QED
  BY <1>1, <1>4 DEF Ledger!Next

LEMMA LedgerCommit ==
    ASSUME TypeOK, JobsAreOwn, KeysAreJudged, NotYetJudged, RowInv, Alone, SoloState,
           NEW p \in Promoter, Commit(p), log' # log
    PROVE  Ledger!Next
<1> USE PromotionAssumption DEF PromotionAssumption, TypeOK, ProcessOK
<1>1. job[p] = Current(p) /\ job[p] \in Key /\ index = file /\ verdict[job[p]] = file
  <2>1. job[p] = Current(p) /\ job[p] \in Key /\ index = file
    BY DEF Commit, SoloState, SoloProcess, Busy, JobsAreOwn
  <2> QED
    BY <2>1, CurrentIsEvaluated
<1>2. Staged /\ log' = Append(log, [tree |-> index, key |-> job[p]])
      /\ UNCHANGED <<verdict, RecordedCommit>>
  BY DEF Commit, MakeCommit, RecordedCommit, worldVars
<1>3. \A i \in 1 .. Len(log) : log[i].key # job[p]
  BY <1>1, <1>2 DEF Staged, SoloState, SoloProcess
<1>4. RecordedCommit[job[p]] = 0
  BY <1>1 DEF Commit, RecordedCommit, RowInv, Alone, OneProcessPerRun, Unfinished
<1>5. Ledger!Newest(job[p])
  BY <1>1, CurrentIsNewest
<1>6. Ledger!Publish(job[p])
  BY <1>1, <1>2, <1>3, <1>4, <1>5 DEF Ledger!Publish
<1> QED
  BY <1>1, <1>6 DEF Ledger!Next

LEMMA LedgerRecord ==
    ASSUME TypeOK, JobsAreOwn, KeysAreJudged, NotYetJudged, RowInv, Alone, SoloState,
           NEW p \in Promoter, Record(p)
    PROVE  Ledger!Next
<1> USE PromotionAssumption DEF PromotionAssumption, TypeOK, ProcessOK
<1>1. job[p] = Current(p) /\ job[p] \in Key /\ sha[p] = Len(log) /\ HEAD.tree = verdict[job[p]]
  <2>1. job[p] = Current(p) /\ job[p] \in Key /\ HEAD.tree = file /\ sha[p] = Len(log)
    BY DEF Record, SoloState, SoloProcess, Busy, JobsAreOwn
  <2> QED
    BY <2>1, CurrentIsEvaluated
<1>2. RecordedCommit[job[p]] = 0
  BY <1>1 DEF Record, RecordedCommit, RowInv, Alone, OneProcessPerRun, Unfinished
<1>3. UNCHANGED <<verdict, log>>
  BY DEF Record, gitVars, worldVars
<1>4. RecordedCommit' = [RecordedCommit EXCEPT ![job[p]] = Len(log)]
  <2>1. row' = [row EXCEPT ![job[p]] = [status |-> "committed", commit |-> Len(log)]]
    BY <1>1 DEF Record
  <2>2. row'[job[p]] = [status |-> "committed", commit |-> Len(log)]
    BY <1>1, <2>1 DEF RepositoryOK
  <2>3. \A k \in Key : k # job[p] => row'[k] = row[k]
    BY <2>1 DEF RepositoryOK
  <2>4. row'[job[p]].status = "committed" /\ row'[job[p]].commit = Len(log)
    BY <2>2
  <2>5. \A k \in Key : (IF row'[k].status = "committed" THEN row'[k].commit ELSE 0)
                        = IF k = job[p] THEN Len(log)
                          ELSE IF row[k].status = "committed" THEN row[k].commit ELSE 0
    BY <2>3, <2>4
  <2> QED
    BY <1>1, <2>5 DEF RecordedCommit
<1>5. Ledger!Newest(job[p])
  BY <1>1, CurrentIsNewest
<1>6. Ledger!Record(job[p])
  BY <1>1, <1>2, <1>3, <1>4, <1>5 DEF Ledger!Record, Ledger!Latest, HEAD
<1> QED
  BY <1>1, <1>6 DEF Ledger!Next

\* The other steps of a process: the ledger does not see them.
LEMMA LedgerStutters ==
    ASSUME TypeOK, JobsAreOwn, RowInv, OneProcessPerRun, NEW p \in Promoter,
           Step(p) \/ Crash(p) \/ Restart(p), ~Record(p), ~(Commit(p) /\ log' # log)
    PROVE  UNCHANGED <<verdict, log, RecordedCommit>>
<1> USE DEF gitVars, worldVars
<1>1. CASE WriteRow(p)
  <2>1. job[p] \in Key /\ row[job[p]].status # "committed"
    BY <1>1 DEF WriteRow, JobsAreOwn, Busy, RowInv, Unfinished
  <2>2. \A k \in Key : /\ k # job[p] => row'[k] = row[k]
                       /\ k = job[p] => row'[k].status # "committed"
    BY <1>1, <2>1 DEF WriteRow, TypeOK, RepositoryOK
  <2>3. RecordedCommit' = RecordedCommit
    BY <2>1, <2>2 DEF RecordedCommit
  <2> QED
    BY <1>1, <2>3 DEF WriteRow
<1>2. CASE ~WriteRow(p)
  <2>1. UNCHANGED <<verdict, log, row>>
    BY <1>2 DEF Step, Perform, ClaimSelect, ClaimInsert, ClaimTake, ClaimFails, GatesPass,
                GatesRefuse, GatesRaise, SelectRow, Copy, Add, Commit, MakeCommit, RevParse, GitFails,
                Release, Crash, Restart
  <2> QED
    BY <2>1 DEF RecordedCommit
<1> QED
  BY <1>1, <1>2

\* With one promoter and nobody who edits a candidate or reverts a commit,
\* the transaction is the ledger's: what a kill leaves half done is taken up
\* where it stopped, or never shows.
THEOREM LedgerImplemented ==
    ASSUME Alone, MaxEdits = 0, MaxRollbacks = 0
    PROVE  Spec => LedgerKept
<1>1. Init => Ledger!Init
  <2> SUFFICES ASSUME Init
               PROVE  Ledger!Init
    OBVIOUS
  <2>1. RecordedCommit = [k \in Key |-> 0]
    BY DEF Init, RecordedCommit
  <2> QED
    BY <2>1 DEF Init, Ledger!Init
<1>2. TypeOK /\ JobsAreOwn /\ KeysAreJudged /\ NotYetJudged /\ RowInv /\ SoloInv /\ [Next]_vars
        => [Ledger!Next]_<<verdict, log, RecordedCommit>>
  <2> SUFFICES ASSUME TypeOK, JobsAreOwn, KeysAreJudged, NotYetJudged, RowInv, SoloInv, [Next]_vars
               PROVE  [Ledger!Next]_<<verdict, log, RecordedCommit>>
    OBVIOUS
  <2>1. edits = 0 /\ rollbacks = 0
    BY DEF TypeOK, WorldOK
  <2>2. SoloState /\ OneProcessPerRun
    BY <2>1 DEF SoloInv, Alone, OneProcessPerRun
  <2>3. CASE UNCHANGED vars \/ Clock
    BY <2>3 DEF vars, Clock, gitVars, worldVars, RecordedCommit
  <2>4. ~Edit /\ ~(\E k \in Key : Rollback(k))
    BY <2>1 DEF Edit, Rollback
  <2>5. CASE \E r \in Run : Iterate(r)
    BY <2>5, LedgerIterate
  <2>6. CASE \E p \in Promoter : Step(p) \/ Crash(p) \/ Restart(p)
    BY <2>2, <2>6, LedgerCommit, LedgerRecord, LedgerStutters
  <2> QED
    BY <2>3, <2>4, <2>5, <2>6 DEF Next
<1> QED
  BY <1>1, <1>2, TypeCorrect, Processes, Judgements, Unjudged, Rows, Solo, PTL
     DEF Spec, LedgerKept, Ledger!Spec

---------------------------------------------------------------------------
(***************************************************************************)
(* A retry that cannot succeed: promotion_gate.py:318-319 has the          *)
(* transaction idempotent, and 393-398 make it raise.                      *)
(***************************************************************************)
\* No other statement leads to the ones after a commit, or gives a process
\* that is there its job.
LEMMA OnlyCommitAndRevParseLead ==
    ASSUME TypeOK, Next, NEW p \in Promoter, pc'[p] \in {"head", "record"},
           ~RevParse(p), ~(Commit(p) /\ pc'[p] = "head")
    PROVE  pc[p] = pc'[p] /\ job'[p] = job[p]
<1> USE DEF TypeOK, ProcessOK, Goto
<1>1. CASE \E q \in Promoter : Step(q) \/ Crash(q) \/ Restart(q)
  <2> PICK q \in Promoter : Step(q) \/ Crash(q) \/ Restart(q)
    BY <1>1
  <2>1. CASE q # p
    BY <2>1 DEF Step, Perform, ClaimSelect, ClaimInsert, ClaimTake, ClaimFails, GatesPass,
                GatesRefuse, GatesRaise, SelectRow, WriteRow, Copy, Add, Commit, MakeCommit,
                RevParse, Record, GitFails, Release, Crash, Restart
  <2>2. CASE q = p
    BY <2>2 DEF Step, Perform, ClaimSelect, ClaimInsert, ClaimTake, ClaimFails, GatesPass,
                GatesRefuse, GatesRaise, SelectRow, WriteRow, Copy, Add, Commit, MakeCommit,
                Record, GitFails, Release, Crash, Restart
  <2> QED
    BY <2>1, <2>2
<1>2. CASE Clock \/ Edit \/ (\E r \in Run : Iterate(r)) \/ (\E k \in Key : Rollback(k))
  BY <1>2 DEF Clock, Edit, Iterate, Rollback
<1> QED
  BY <1>1, <1>2 DEF Next

\* The commit of k is made, nobody knows its sha, and the row wants it.
Stuck(k) ==
    /\ Unrecorded(k)
    /\ \A p \in Promoter : job[p] = k => pc[p] \notin {"head", "record"}

StaysStuck(k) == edits' = 0 /\ rollbacks' = 0 /\ Stuck(k) => Stuck(k)'

\* A promotion that is killed, or fails, between its commit and its row is
\* never recorded by a promoter that is alone in a tree with other changes,
\* however often it tries and whatever the gates say: a retry has nothing to
\* stage, and git's word for that is an error here.  (promotion_gate.py:318,
\* 393-398)
THEOREM StuckForGood ==
    ASSUME Alone, FALSE \notin Stray
    PROVE  Spec => [][\A k \in Key : StaysStuck(k)]_vars
<1>1. TypeOK /\ JobsAreOwn /\ SoloInv /\ [Next]_vars => [\A k \in Key : StaysStuck(k)]_vars
  <2> SUFFICES ASSUME TypeOK, JobsAreOwn, SoloInv, Next, edits' = 0, rollbacks' = 0,
                      NEW k \in Key, Stuck(k)
               PROVE  Stuck(k)'
    BY DEF StaysStuck
  <2>1. edits = 0 /\ rollbacks = 0
    BY UndisturbedSoFar DEF vars
  <2>2. SoloState
    BY <2>1 DEF SoloInv
  <2>3. \A p \in Promoter : job[p] = k => ~RevParse(p) /\ ~Record(p)
    BY DEF Stuck, RevParse, Record
  <2>4. \A p \in Promoter : job[p] = k /\ Commit(p) => pc'[p] = "abort"
    <3> SUFFICES ASSUME NEW p \in Promoter, job[p] = k, Commit(p)
                 PROVE  pc'[p] = "abort"
      OBVIOUS
    <3>1. k = Current(p) /\ index = file /\ pc[p] = "commit"
      BY <2>2 DEF Commit, SoloState, SoloProcess, Busy
    <3>2. HEAD.tree = file /\ notes = {}
      BY <2>2, <3>1 DEF Stuck, Unrecorded, SoloState, SoloProcess
    <3>3. ~Staged /\ \A stray \in Stray : ~CleanBut(stray)
      BY <3>1, <3>2, PromotionAssumption DEF Staged, CleanBut, PromotionAssumption
    <3> QED
      BY <3>3 DEF Commit, Goto, TypeOK, ProcessOK
  <2>5. ASSUME NEW p \in Promoter, job'[p] = k
        PROVE  pc'[p] \notin {"head", "record"}
    <3>1. CASE job[p] = k
      BY <2>3, <2>4, <2>5, <3>1, OnlyCommitAndRevParseLead DEF Stuck
    <3>2. CASE job[p] # k
      <4>1. RevParse(p) \/ Commit(p) => job'[p] = job[p]
        BY DEF RevParse, Commit
      <4> QED
        BY <2>5, <3>2, <4>1, OnlyCommitAndRevParseLead
    <3> QED
      BY <3>1, <3>2
  <2>6. Unrecorded(k)'
    <3>1. PICK i \in 1 .. Len(log) : log[i].key = k
      BY DEF Stuck, Unrecorded
    <3>2. i \in 1 .. Len(log') /\ log'[i].key = k
      BY <3>1, LogGrows DEF TypeOK, RepositoryOK
    <3>3. Unfinished(k)'
      <4>1. ASSUME NEW p \in Promoter, WriteRow(p) \/ Record(p)
            PROVE  Unfinished(k)'
        <5>1. job[p] \in Key
          BY <4>1 DEF JobsAreOwn, Busy, WriteRow, Record
        <5> QED
          BY <2>3, <4>1, <5>1
             DEF WriteRow, Record, TypeOK, RepositoryOK, Stuck, Unrecorded, Unfinished
      <4>2. CASE \A p \in Promoter : ~WriteRow(p) /\ ~Record(p)
        BY <4>2, RowsStay DEF Stuck, Unrecorded, Unfinished
      <4> QED
        BY <4>1, <4>2
    <3> QED
      BY <3>2, <3>3 DEF Unrecorded
  <2> QED
    BY <2>5, <2>6 DEF Stuck
<1> QED
  BY <1>1, TypeCorrect, Processes, Solo, PTL DEF Spec

---------------------------------------------------------------------------
(***************************************************************************)
(* II.  Pipeline                                                           *)
(***************************************************************************)

\* A step of the pipeline is a step of Promotion, or leaves it as it is.
LEMMA PipelineStep == [NextAll]_allVars => [Next]_vars
<1> SUFFICES ASSUME [NextAll]_allVars
             PROVE  [Next]_vars
  OBVIOUS
<1>1. CASE UNCHANGED allVars
  BY <1>1 DEF allVars
<1>2. CASE Around
  BY <1>2 DEF Around, Next
<1>3. CASE NewDay
  BY <1>3 DEF NewDay
<1>4. ASSUME NEW r \in Run, NextIteration(r) \/ Spend(r)
      PROVE  [Next]_vars
  BY <1>4 DEF NextIteration, Spend, Next
<1>5. ASSUME NEW v \in Value, EvaluateAgain(v)
      PROVE  [Next]_vars
  BY <1>5 DEF EvaluateAgain
<1>6. ASSUME NEW p \in Promoter
      PROVE  /\ Consider(p) \/ TurnedAway(p) \/ ReadBar(p) \/ AskBudget(p) => UNCHANGED vars
             /\ Claim(p) \/ TakeLock(p) => Step(p)
             /\ Pass(p) \/ Refuse(p) \/ Raise(p) => Step(p)
             /\ Transact(p) \/ Recorded(p) => Step(p)
             /\ Leave(p) \/ ComeBack(p) => Step(p) \/ Crash(p) \/ Restart(p)
  BY DEF Consider, TurnedAway, ReadBar, AskBudget, Claim, TakeLock, Pass, Refuse, Raise,
         Transact, Recorded, Leave, ComeBack, Step, Perform
<1> QED
  BY <1>1, <1>2, <1>3, <1>4, <1>5, <1>6 DEF NextAll, Next

\* What is proved of Promotion holds of the pipeline: the gates, the
\* evaluations and the costs around it only take steps away.
THEOREM PipelineImplementsPromotion == SpecAll => Spec
<1>1. InitAll => Init
  BY DEF InitAll
<1> QED
  BY <1>1, PipelineStep, PTL DEF SpecAll, Spec

\* Killed at any statement and taken up again, refused by a gate or not: git
\* and the promotions table develop as in the ledger.
THEOREM PipelineKeepsLedger ==
    ASSUME Alone, MaxEdits = 0, MaxRollbacks = 0
    PROVE  SpecAll => LedgerKept
BY PipelineImplementsPromotion, LedgerImplemented

\* What a row has of a price is no more than it, and short by a cent at most.
LEMMA CutCents ==
    ASSUME NEW price \in Nat, NEW cents \in Costs!Cents(price)
    PROVE  cents \in Nat /\ 100 * cents =< price /\ price =< 100 * cents + 100
<1>1. CASE price = 0
  BY <1>1 DEF Costs!Cents
<1>2. CASE price # 0
  <2>1. price - 1 \in Nat /\ cents \in {price \div 100, (price - 1) \div 100}
    BY <1>2 DEF Costs!Cents
  <2> QED
    BY <2>1
<1> QED
  BY <1>1, <1>2

\* A recorded promotion is one of its run, and has a verdict.
LastIsJudged == \A r \in Run : last[r] # None => last[r][1] = r /\ Judged(last[r])

\* Every variable keeps to its set of values.
LEMMA PipelineTypes == SpecAll => [](TypeOKAll /\ LastIsJudged)
<1> USE PipelineAssumption, PromotionAssumption DEF PipelineAssumption, PromotionAssumption
<1>1. InitAll /\ TypeOK => TypeOKAll /\ LastIsJudged
  BY DEF InitAll, TypeOKAll, Costs!NothingSpent, Costs!BudgetOK, Scores, LastIsJudged
<1>3. LastIsJudged /\ TypeOKAll /\ JobsAreOwn /\ KeysAreJudged /\ [NextAll]_allVars
        => LastIsJudged'
  <2> SUFFICES ASSUME LastIsJudged, TypeOKAll, JobsAreOwn, KeysAreJudged, [NextAll]_allVars,
                      NEW r \in Run, last'[r] # None
               PROVE  last'[r][1] = r /\ Judged(last[r])'
    BY DEF LastIsJudged
  <2>1. last[r] # None => last[r][1] = r /\ last[r][2] =< latest'[r]
    BY PipelineStep, VerdictStays DEF TypeOKAll, LastIsJudged, Judged
  <2>2. ASSUME NEW p \in Promoter, Recorded(p)
        PROVE  /\ r = RunOf[p] => last'[r] = job[p] /\ job[p][1] = r /\ job[p][2] =< latest'[r]
               /\ r # RunOf[p] => last'[r] = last[r]
    <3>1. job[p] \in Key /\ job[p][1] = RunOf[p] /\ Judged(job[p])
      BY <2>2 DEF Recorded, Record, JobsAreOwn, KeysAreJudged, Busy
    <3> QED
      BY <2>2, <3>1, PipelineStep, VerdictStays DEF Recorded, TypeOKAll, Judged
  <2>3. CASE last' = last
    BY <2>1, <2>3 DEF Judged
  <2>4. last' = last \/ \E p \in Promoter : Recorded(p)
    BY DEF NextAll, allVars, pipeVars, Around, NewDay, NextIteration, Spend, EvaluateAgain,
           Consider, TurnedAway, Claim, TakeLock, ReadBar, AskBudget, Pass, Refuse, Raise,
           Transact, Leave, ComeBack
  <2> QED
    BY <2>1, <2>2, <2>3, <2>4 DEF Judged
<1>2. TypeOKAll /\ JobsAreOwn /\ KeysAreJudged /\ LastIsJudged /\ TypeOK' /\ [NextAll]_allVars
        => TypeOKAll'
  <2> SUFFICES ASSUME TypeOKAll, JobsAreOwn, KeysAreJudged, LastIsJudged, TypeOK',
                      [NextAll]_allVars
               PROVE  TypeOKAll'
    OBVIOUS
  <2> USE DEF TypeOKAll, Costs!BudgetOK, evalVars, ownVars, costVars, pipeVars, Forget
  <2>1. CASE UNCHANGED allVars
    BY <2>1 DEF allVars
  <2>2. CASE Around
    BY <2>2 DEF Around
  <2>3. CASE NewDay
    BY <2>3 DEF NewDay, Costs!Midnight
  <2>4. ASSUME NEW r \in Run, NextIteration(r)
        PROVE  TypeOKAll'
    <3>1. file' \in Value
      BY DEF TypeOK, WorldOK
    <3> QED
      BY <2>4, <3>1 DEF NextIteration, Insert
  <2>5. ASSUME NEW r \in Run, Spend(r)
        PROVE  TypeOKAll'
    <3>1. Costs!BudgetOK'
      <4>1. calls[r] < MaxCalls /\ calls' = [calls EXCEPT ![r] = @ + 1]
        BY <2>5 DEF Spend, Costs!RecordCost
      <4>2. PICK price \in Price : /\ real' = [real EXCEPT ![r] = @ + price]
                                   /\ Costs!Counted(r, price) \/ Costs!Missed(r, price)
        BY <2>5 DEF Spend, Costs!RecordCost
      <4>3. price \in Nat /\ \A cents \in Costs!Cents(price) : cents \in Nat
        BY CutCents
      <4> QED
        BY <4>1, <4>2, <4>3 DEF Costs!Counted, Costs!Missed
    <3> QED
      BY <2>5, <3>1 DEF Spend
  <2>6. ASSUME NEW v \in Value, EvaluateAgain(v)
        PROVE  TypeOKAll'
    BY <2>6 DEF EvaluateAgain, Insert
  <2>7. ASSUME NEW p \in Promoter
        PROVE  /\ Consider(p) \/ TurnedAway(p) \/ Claim(p) \/ TakeLock(p) => TypeOKAll'
               /\ AskBudget(p) \/ Pass(p) \/ Refuse(p) \/ Raise(p) => TypeOKAll'
               /\ Transact(p) \/ Leave(p) \/ ComeBack(p) => TypeOKAll'
    <3>1. Consider(p) => TypeOKAll'
      <4>1. ASSUME Consider(p)
            PROVE  newest[verdict[<<RunOf[p], latest[RunOf[p]]>>]] \in Outcome
        <5>1. <<RunOf[p], latest[RunOf[p]]>> \in Key
          BY <4>1 DEF Consider, Key, TypeOK, ProcessOK
        <5>2. verdict[<<RunOf[p], latest[RunOf[p]]>>] \in Value
          BY <5>1 DEF KeysAreJudged, Judged, TypeOK, ProcessOK
        <5> QED
          BY <4>1, <5>2 DEF Consider
      <4> QED
        BY <4>1 DEF Consider
    <3>2. TurnedAway(p) \/ Claim(p) \/ TakeLock(p) => TypeOKAll'
      BY DEF TurnedAway, Claim, TakeLock
    <3>3. AskBudget(p) \/ Pass(p) \/ Refuse(p) \/ Raise(p) => TypeOKAll'
      BY DEF AskBudget, Pass, Refuse, Raise
    <3>4. Transact(p) \/ Leave(p) \/ ComeBack(p) => TypeOKAll'
      BY DEF Transact, Leave, ComeBack
    <3> QED
      BY <3>1, <3>2, <3>3, <3>4
  <2>8. ASSUME NEW p \in Promoter, ReadBar(p)
        PROVE  TypeOKAll'
    <3>1. last[RunOf[p]] # None => verdict[last[RunOf[p]]] \in Value
      BY DEF LastIsJudged, KeysAreJudged
    <3>2. bar' \in [Promoter -> Scores \cup {0, None}]
      BY <2>8, <3>1 DEF ReadBar, Scores
    <3> QED
      BY <2>8, <3>2 DEF ReadBar
  <2>9. ASSUME NEW p \in Promoter, Recorded(p)
        PROVE  TypeOKAll'
    <3>1. job[p] \in Key
      BY <2>9 DEF Recorded, Record, JobsAreOwn, Busy
    <3> QED
      BY <2>9, <3>1 DEF Recorded
  <2> QED
    BY <2>1, <2>2, <2>3, <2>4, <2>5, <2>6, <2>7, <2>8, <2>9 DEF NextAll
<1> QED
  BY <1>1, <1>2, <1>3, PipelineImplementsPromotion, TypeCorrect, Processes, Judgements, PTL
     DEF SpecAll

\* Every variable keeps to its set of values.
THEOREM PipelineTypeCorrect == SpecAll => []TypeOKAll
BY PipelineTypes, PTL

---------------------------------------------------------------------------
\* A day that begins, or a call, whatever its price, the model it is for and
\* the rounding of its cents, keeps the sums close.
LEMMA CallsKeepClose ==
    ASSUME Costs!BudgetOK, Costs!ShortByACentACall,
           Costs!Midnight \/ (\E q \in Run : Costs!RecordCost(q))
    PROVE  Costs!BudgetOK' /\ Costs!ShortByACentACall'
<1> USE PipelineAssumption DEF PipelineAssumption, Costs!BudgetOK, Costs!ShortByACentACall
<1>1. CASE Costs!Midnight
  BY <1>1 DEF Costs!Midnight
<1>2. ASSUME NEW q \in Run, Costs!RecordCost(q)
      PROVE  Costs!BudgetOK' /\ Costs!ShortByACentACall'
  <2>1. calls[q] < MaxCalls /\ calls' = [calls EXCEPT ![q] = @ + 1]
    BY <1>2 DEF Costs!RecordCost
  <2>2. PICK price \in Price : /\ real' = [real EXCEPT ![q] = @ + price]
                               /\ Costs!Counted(q, price) \/ Costs!Missed(q, price)
    BY <1>2 DEF Costs!RecordCost
  <2>3. price \in Nat
    OBVIOUS
  <2>4. CASE Costs!Counted(q, price)
    <3>1. PICK cents \in Costs!Cents(price) :
              /\ spent' = [spent EXCEPT ![q] = @ + cents]
              /\ today' = [today EXCEPT ![q] = @ + cents]
      BY <2>4 DEF Costs!Counted
    <3>2. cents \in Nat /\ 100 * cents =< price /\ price =< 100 * cents + 100
      BY <2>3, CutCents
    <3>3. missed' = missed
      BY <2>4 DEF Costs!Counted
    <3>4. Costs!BudgetOK'
      BY <2>1, <2>2, <2>3, <3>1, <3>2, <3>3
    <3>5. ASSUME NEW r \in Run
          PROVE  /\ 100 * spent'[r] =< real'[r]
                 /\ real'[r] =< 100 * spent'[r] + 100 * calls'[r] + missed'[r]
                 /\ today'[r] =< spent'[r]
      <4>1. CASE r = q
        BY <2>1, <2>2, <2>3, <3>1, <3>2, <3>3, <4>1
      <4>2. CASE r # q
        BY <2>1, <2>2, <3>1, <3>3, <4>2
      <4> QED
        BY <4>1, <4>2
    <3> QED
      BY <3>4, <3>5
  <2>5. CASE Costs!Missed(q, price)
    <3>1. missed' = [missed EXCEPT ![q] = @ + price] /\ UNCHANGED <<spent, today>>
      BY <2>5 DEF Costs!Missed
    <3>2. Costs!BudgetOK'
      BY <2>1, <2>2, <2>3, <3>1
    <3>3. ASSUME NEW r \in Run
          PROVE  /\ 100 * spent'[r] =< real'[r]
                 /\ real'[r] =< 100 * spent'[r] + 100 * calls'[r] + missed'[r]
                 /\ today'[r] =< spent'[r]
      <4>1. CASE r = q
        BY <2>1, <2>2, <2>3, <3>1, <4>1
      <4>2. CASE r # q
        BY <2>1, <2>2, <3>1, <4>2
      <4> QED
        BY <4>1, <4>2
    <3> QED
      BY <3>2, <3>3
  <2> QED
    BY <2>2, <2>4, <2>5
<1> QED
  BY <1>1, <1>2

\* The sums that gate 8 looks at are short by a cent a call and by the calls
\* that were not counted, and by no more, for any prices and however many
\* calls and days.
THEOREM SumsAreClose == Costs!Spec => []Costs!ShortByACentACall
<1>1. Costs!NothingSpent => Costs!BudgetOK /\ Costs!ShortByACentACall
  BY PipelineAssumption
     DEF PipelineAssumption, Costs!NothingSpent, Costs!BudgetOK, Costs!ShortByACentACall
<1>2. Costs!BudgetOK /\ Costs!ShortByACentACall
        /\ [Costs!Midnight \/ \E r \in Run : Costs!RecordCost(r)]_<<spent, today, real, missed, calls>>
        => (Costs!BudgetOK /\ Costs!ShortByACentACall)'
  <2>1. CASE UNCHANGED <<spent, today, real, missed, calls>>
    BY <2>1 DEF Costs!BudgetOK, Costs!ShortByACentACall
  <2> QED
    BY <2>1, CallsKeepClose
<1> QED
  BY <1>1, <1>2, PTL DEF Costs!Spec

\* What a pipeline does to the costs is what Budget says.
LEMMA PipelineSpends ==
    ASSUME [NextAll]_allVars
    PROVE  \/ UNCHANGED <<spent, today, real, missed, calls>>
           \/ Costs!Midnight
           \/ \E r \in Run : Costs!RecordCost(r)
BY DEF NextAll, allVars, pipeVars, costVars, Around, NewDay, NextIteration, Spend, EvaluateAgain,
       Consider, TurnedAway, Claim, TakeLock, ReadBar, AskBudget, Pass, Refuse, Raise, Transact,
       Recorded, Leave, ComeBack

\* So it goes for the sums that a conductor of the pipeline looks at.
THEOREM PipelineSumsAreClose == SpecAll => []ShortByACentACall
<1>1. InitAll => Costs!NothingSpent
  BY DEF InitAll
<1>2. [NextAll]_allVars =>
        [Costs!Midnight \/ \E r \in Run : Costs!RecordCost(r)]_<<spent, today, real, missed, calls>>
  BY PipelineSpends
<1>3. SpecAll => Costs!Spec
  BY <1>1, <1>2, PTL DEF SpecAll, Costs!Spec
<1> QED
  BY <1>3, SumsAreClose DEF ShortByACentACall

---------------------------------------------------------------------------
(***************************************************************************)
(* The gates.  What a conductor has read is still good when it has passed: *)
(* its evaluations, because rows are never deleted and verdicts are final; *)
(* the bar, because only a conductor of the run moves last, as long as     *)
(* there is one; the budget, unless a cost came in since.                  *)
(***************************************************************************)

\* The steps of conductor p.
Does(p) ==
    \/ Consider(p) \/ TurnedAway(p) \/ Claim(p) \/ TakeLock(p)
    \/ ReadBar(p) \/ AskBudget(p) \/ Pass(p) \/ Refuse(p) \/ Raise(p)
    \/ Transact(p) \/ Recorded(p) \/ Leave(p) \/ ComeBack(p)

\* Steps of others leave alone what is p's.
LEMMA NotMine ==
    ASSUME TypeOKAll, TypeOKAll', [NextAll]_allVars, NEW p \in Promoter, ~Does(p)
    PROVE  /\ pc'[p] = pc[p] /\ job'[p] = job[p]
           /\ seen'[p] = seen[p] /\ bar'[p] = bar[p]
           /\ OneProcessPerRun => last'[RunOf[p]] = last[RunOf[p]]
           /\ pc[p] = "idle" /\ seen[p] # None => latest'[RunOf[p]] = latest[RunOf[p]]
           /\ budget'[p] = budget[p] \/ (budget[p] = "under" /\ budget'[p] = "late")
<1> USE PipelineAssumption, PromotionAssumption DEF PipelineAssumption, PromotionAssumption,
        TypeOKAll, TypeOK, ProcessOK
<1> USE DEF evalVars, ownVars, pipeVars, costVars, worldVars
<1>1. CASE UNCHANGED allVars \/ Around \/ NewDay
  BY <1>1 DEF allVars, vars, Around, NewDay, Clock, Edit, Rollback
<1>2. ASSUME NEW r \in Run, NextIteration(r)
      PROVE  /\ UNCHANGED <<pc, job, seen, bar, last, budget>>
             /\ pc[p] = "idle" /\ seen[p] # None => latest'[RunOf[p]] = latest[RunOf[p]]
  BY <1>2 DEF NextIteration, Iterate
<1>3. ASSUME NEW r \in Run, Spend(r)
      PROVE  /\ UNCHANGED <<pc, job, seen, bar, last, latest>>
             /\ budget'[p] = budget[p] \/ (budget[p] = "under" /\ budget'[p] = "late")
  BY <1>3 DEF Spend, vars
<1>4. ASSUME NEW v \in Value, EvaluateAgain(v)
      PROVE  UNCHANGED <<pc, job, seen, bar, last, latest, budget>>
  BY <1>4 DEF EvaluateAgain, vars
<1>5. ASSUME NEW q \in Promoter, Does(q), q # p
      PROVE  /\ pc'[p] = pc[p] /\ job'[p] = job[p]
             /\ seen'[p] = seen[p] /\ bar'[p] = bar[p] /\ budget'[p] = budget[p]
             /\ OneProcessPerRun => last'[RunOf[p]] = last[RunOf[p]]
             /\ latest' = latest
  <2>1. CASE Consider(q) \/ TurnedAway(q) \/ ReadBar(q) \/ AskBudget(q)
    BY <1>5, <2>1 DEF Consider, TurnedAway, ReadBar, AskBudget, Forget, vars
  <2>2. CASE Claim(q) \/ TakeLock(q)
    BY <1>5, <2>2 DEF Claim, TakeLock, ClaimSelect, ClaimInsert, ClaimTake, ClaimFails, Forget, Goto
  <2>3. CASE Pass(q) \/ Refuse(q) \/ Raise(q)
    BY <1>5, <2>3 DEF Pass, Refuse, Raise, GatesPass, GatesRefuse, GatesRaise, Forget, Goto
  <2>4. CASE Transact(q)
    BY <1>5, <2>4 DEF Transact, SelectRow, WriteRow, Copy, Add, Commit, MakeCommit, GitFails, RevParse, Goto
  <2>5. CASE Recorded(q)
    BY <1>5, <2>5 DEF Recorded, Record, Forget, Goto, OneProcessPerRun
  <2>6. CASE Leave(q) \/ ComeBack(q)
    BY <1>5, <2>6 DEF Leave, ComeBack, Release, Crash, Restart, Forget, Goto
  <2> QED
    BY <1>5, <2>1, <2>2, <2>3, <2>4, <2>5, <2>6 DEF Does
<1> QED
  BY <1>1, <1>2, <1>3, <1>4, <1>5 DEF NextAll, Does

\* Rows of the evaluations table stay.
LEMMA RowsGrow ==
    ASSUME TypeOKAll, TypeOKAll', [NextAll]_allVars, NEW v \in Value
    PROVE  rows[v] \subseteq rows'[v]
<1>1. UNCHANGED rows \/ \E w \in Value, e \in Outcome : rows' = [rows EXCEPT ![w] = @ \cup {e}]
  <2>1. ASSUME NEW r \in Run, NextIteration(r)
        PROVE  \E w \in Value, e \in Outcome : rows' = [rows EXCEPT ![w] = @ \cup {e}]
    <3>1. file' \in Value
      BY DEF TypeOKAll, TypeOK, WorldOK
    <3> QED
      BY <2>1, <3>1 DEF NextIteration, Insert
  <2>2. ASSUME NEW w \in Value, EvaluateAgain(w)
        PROVE  \E e \in Outcome : rows' = [rows EXCEPT ![w] = @ \cup {e}]
    BY <2>2 DEF EvaluateAgain, Insert
  <2>3. CASE ~(\E r \in Run : NextIteration(r)) /\ ~(\E w \in Value : EvaluateAgain(w))
    BY <2>3 DEF NextAll, allVars, pipeVars, evalVars, Around, NewDay, Spend, Consider, TurnedAway,
           Claim, TakeLock, ReadBar, AskBudget, Pass, Refuse, Raise, Transact, Recorded, Leave,
           ComeBack
  <2> QED
    BY <2>1, <2>2, <2>3
<1> QED
  BY <1>1 DEF TypeOKAll

BudgetInv ==
    \A p \in Promoter :
        /\ budget[p] = "under" => Costs!CheckBudget(RunOf[p])
        /\ Performing(p) => budget[p] \in {"under", "late"}

\* Only what is recorded after gate 8 can take a run over its budget.
THEOREM BudgetIsKept == SpecAll => []OverBudgetOnlyByLateCosts
<1> USE PipelineAssumption, PromotionAssumption DEF PipelineAssumption, PromotionAssumption
<1>1. InitAll => BudgetInv
  BY DEF InitAll, Init, BudgetInv, Performing
<1>2. BudgetInv /\ TypeOKAll /\ TypeOKAll' /\ [NextAll]_allVars => BudgetInv'
  <2> SUFFICES ASSUME BudgetInv, TypeOKAll, TypeOKAll', [NextAll]_allVars, NEW p \in Promoter
               PROVE  /\ budget'[p] = "under" => Costs!CheckBudget(RunOf[p])'
                      /\ Performing(p)' => budget'[p] \in {"under", "late"}
    BY DEF BudgetInv
  <2> USE DEF TypeOKAll, TypeOK, ProcessOK, Costs!BudgetOK, evalVars, ownVars, pipeVars
  <2>1. budget'[p] = "under" /\ budget[p] = "under" => Costs!CheckBudget(RunOf[p])'
    <3>1. CASE UNCHANGED costVars
      BY <3>1 DEF BudgetInv, Costs!CheckBudget, costVars
    <3>2. CASE NewDay
      BY <3>2 DEF NewDay, Costs!Midnight, BudgetInv, Costs!CheckBudget
    <3>3. ASSUME NEW r \in Run, Spend(r), budget'[p] = "under"
          PROVE  Costs!CheckBudget(RunOf[p])' \/ budget[p] # "under"
      <4>1. budget[p] = "under" /\ RunOf[p] = r => spent'[r] = spent[r]
        BY <3>3 DEF Spend
      <4>2. PICK price \in Price : Costs!Counted(r, price) \/ Costs!Missed(r, price)
        BY <3>3 DEF Spend, Costs!RecordCost
      <4>3. ASSUME NEW q \in Run, q # r \/ spent'[r] = spent[r]
            PROVE  spent'[q] = spent[q] /\ today'[q] = today[q]
        <5>1. CASE Costs!Counted(r, price)
          <6>1. PICK cents \in Costs!Cents(price) :
                    /\ spent' = [spent EXCEPT ![r] = @ + cents]
                    /\ today' = [today EXCEPT ![r] = @ + cents]
            BY <5>1 DEF Costs!Counted
          <6>2. cents \in Nat
            BY CutCents
          <6>3. CASE q # r
            BY <6>1, <6>3
          <6>4. CASE q = r
            <7>1. spent[r] \in Nat /\ spent'[r] = spent[r] + cents /\ today'[r] = today[r] + cents
              BY <6>1
            <7>2. cents = 0
              BY <4>3, <6>2, <6>4, <7>1
            <7> QED
              BY <4>3, <6>4, <7>1, <7>2
          <6> QED
            BY <6>3, <6>4
        <5>2. CASE Costs!Missed(r, price)
          BY <5>2 DEF Costs!Missed
        <5> QED
          BY <4>2, <5>1, <5>2
      <4> QED
        BY <4>1, <4>3 DEF BudgetInv, Costs!CheckBudget
    <3>4. UNCHANGED costVars \/ NewDay \/ \E r \in Run : Spend(r)
      BY DEF NextAll, allVars, Around, NextIteration, EvaluateAgain, Consider, TurnedAway,
             Claim, TakeLock, ReadBar, AskBudget, Pass, Refuse, Raise, Transact, Recorded, Leave,
             ComeBack
    <3> QED
      BY <3>1, <3>2, <3>3, <3>4
  <2>2. CASE ~Does(p)
    <3>1. budget'[p] = "under" => budget[p] = "under"
      BY <2>2, NotMine
    <3>2. Performing(p)' => budget'[p] \in {"under", "late"}
      BY <2>2, NotMine DEF BudgetInv, Performing
    <3> QED
      BY <2>1, <3>1, <3>2
  <2>3. CASE Consider(p) \/ TurnedAway(p) \/ Claim(p) \/ TakeLock(p) \/ ReadBar(p)
    <3>1. budget'[p] \in {budget[p], "unread"} /\ ~Performing(p)'
      BY <2>3 DEF Consider, TurnedAway, Claim, TakeLock, ReadBar, ClaimSelect, ClaimInsert,
                  ClaimTake, ClaimFails, Forget, Goto, Performing, vars
    <3> QED
      BY <2>1, <3>1
  <2>4. CASE AskBudget(p)
    BY <2>4 DEF AskBudget, Costs!CheckBudget, Performing, vars, costVars
  <2>5. CASE Pass(p) \/ Transact(p)
    <3>1. budget'[p] = budget[p]
      BY <2>5 DEF Pass, Transact
    <3>2. Performing(p)' => budget[p] \in {"under", "late"}
      BY <2>5 DEF Pass, Transact, SelectRow, WriteRow, Copy, Add, Commit, MakeCommit, GitFails, RevParse,
                  Performing, BudgetInv
    <3> QED
      BY <2>1, <3>1, <3>2
  <2>6. CASE Refuse(p) \/ Raise(p) \/ Recorded(p) \/ Leave(p) \/ ComeBack(p)
    <3>1. budget'[p] \in {budget[p], "unread"} /\ ~Performing(p)'
      BY <2>6 DEF Refuse, Raise, Recorded, Leave, ComeBack, GatesRefuse, GatesRaise, Record,
                  Release, Crash, Restart, Forget, Goto, Performing
    <3> QED
      BY <2>1, <3>1
  <2> QED
    BY <2>2, <2>3, <2>4, <2>5, <2>6 DEF Does
<1>3. BudgetInv => OverBudgetOnlyByLateCosts
  BY DEF BudgetInv, OverBudgetOnlyByLateCosts, Costs!CheckBudget
<1> QED
  BY <1>1, <1>2, <1>3, PipelineTypes, PTL DEF SpecAll

---------------------------------------------------------------------------
\* The key whose candidate p has looked up.
About(p) == IF pc[p] = "idle" THEN <<RunOf[p], latest[RunOf[p]]>> ELSE job[p]

Cleared(p) ==
    \E e \in rows[verdict[job[p]]] :
        /\ e.decision = "KEEP"
        /\ last[RunOf[p]] # None =>
              \E b \in rows[verdict[last[RunOf[p]]]] : ~Regresses(e.score, b.score)

WinnerState(p) ==
    /\ pc[p] \in {"idle", "insert", "take", "down"} => budget[p] = "unread" /\ bar[p] = None
    /\ pc[p] \in {"insert", "take", "gates"} => seen[p] # None
    /\ pc[p] = "gates" /\ budget[p] # "unread" => bar[p] # None
    /\ seen[p] # None =>
          /\ pc[p] \in {"idle", "insert", "take", "gates"}
          /\ About(p) \in Key
          /\ seen[p].decision = "KEEP"
          /\ seen[p] \in rows[verdict[About(p)]]
    /\ bar[p] # None /\ last[RunOf[p]] # None =>
          \E b \in rows[verdict[last[RunOf[p]]]] : bar[p] = b.score
    /\ Performing(p) => Cleared(p)

\* What is known of a key with a verdict is known for good.
LEMMA EvidenceStays ==
    ASSUME TypeOKAll, TypeOKAll', KeysAreJudged, [NextAll]_allVars, NEW k \in Key, Judged(k)
    PROVE  /\ verdict'[k] = verdict[k]
           /\ rows[verdict[k]] \subseteq rows'[verdict[k]]
<1>1. verdict'[k] = verdict[k] /\ verdict[k] \in Value
  BY PipelineStep, VerdictStays DEF TypeOKAll, KeysAreJudged
<1> QED
  BY <1>1, RowsGrow

\* A step that leaves alone what p has read keeps p's evidence.
LEMMA WinnerKept ==
    ASSUME TypeOKAll, TypeOKAll', KeysAreJudged, LastIsJudged, JobsAreOwn, [NextAll]_allVars,
           NEW p \in Promoter, WinnerState(p),
           pc'[p] = pc[p], job'[p] = job[p], seen'[p] = seen[p], bar'[p] = bar[p],
           last'[RunOf[p]] = last[RunOf[p]],
           pc[p] = "idle" /\ seen[p] # None => latest'[RunOf[p]] = latest[RunOf[p]],
           budget[p] = "unread" <=> budget'[p] = "unread"
    PROVE  WinnerState(p)'
<1> USE PromotionAssumption DEF PromotionAssumption
<1>1. last[RunOf[p]] # None =>
          /\ verdict'[last[RunOf[p]]] = verdict[last[RunOf[p]]]
          /\ rows[verdict[last[RunOf[p]]]] \subseteq rows'[verdict[last[RunOf[p]]]]
  BY EvidenceStays DEF LastIsJudged, TypeOKAll
<1>2. Busy(p) =>
          /\ verdict'[job[p]] = verdict[job[p]]
          /\ rows[verdict[job[p]]] \subseteq rows'[verdict[job[p]]]
  BY EvidenceStays DEF KeysAreJudged, JobsAreOwn
<1>3. ASSUME seen[p] # None
      PROVE  /\ About(p)' = About(p)
             /\ seen[p] \in rows'[verdict'[About(p)]]
  <2>1. About(p)' = About(p) /\ About(p) \in Key
    BY <1>3 DEF About, WinnerState
  <2>2. Judged(About(p))
    BY <1>3 DEF About, WinnerState, Judged, KeysAreJudged, Busy, TypeOKAll, TypeOK, ProcessOK
  <2> QED
    BY <1>3, <2>1, <2>2, EvidenceStays DEF WinnerState
<1>4. Performing(p)' => Cleared(p)'
  <2> SUFFICES ASSUME Performing(p)
               PROVE  Cleared(p)'
    BY DEF Performing
  <2>1. PICK e \in rows[verdict[job[p]]] :
            /\ e.decision = "KEEP"
            /\ last[RunOf[p]] # None =>
                  \E b \in rows[verdict[last[RunOf[p]]]] : ~Regresses(e.score, b.score)
    BY DEF WinnerState, Cleared
  <2>2. e \in rows'[verdict'[job'[p]]]
    BY <1>2, <2>1 DEF Performing, Busy
  <2> QED
    BY <1>1, <2>1, <2>2 DEF Cleared
<1> QED
  BY <1>1, <1>3, <1>4 DEF WinnerState

WinnerInv == OneProcessPerRun => \A p \in Promoter : WinnerState(p)

LEMMA Winners == SpecAll => []WinnerInv
<1> USE PipelineAssumption, PromotionAssumption DEF PipelineAssumption, PromotionAssumption
<1>1. InitAll => WinnerInv
  BY DEF InitAll, Init, WinnerInv, WinnerState, Performing
<1>2. WinnerInv /\ TypeOKAll /\ TypeOKAll' /\ KeysAreJudged /\ LastIsJudged /\ JobsAreOwn
        /\ [NextAll]_allVars => WinnerInv'
  <2> SUFFICES ASSUME WinnerInv, TypeOKAll, TypeOKAll', KeysAreJudged, LastIsJudged, JobsAreOwn,
                      [NextAll]_allVars, OneProcessPerRun, NEW p \in Promoter
               PROVE  WinnerState(p)'
    BY DEF WinnerInv, OneProcessPerRun
  <2>0. WinnerState(p)
    BY DEF WinnerInv
  <2> USE DEF TypeOKAll, TypeOK, ProcessOK, evalVars, ownVars, pipeVars, Goto
  <2>1. CASE ~Does(p)
    BY <2>0, <2>1, NotMine, WinnerKept
  <2>2. CASE Consider(p)
    <3> DEFINE k == <<RunOf[p], latest[RunOf[p]]>>
    <3>1. k \in Key /\ verdict[k] \in Value
      BY <2>2 DEF Consider, Key, KeysAreJudged, Judged
    <3>2. seen'[p] = newest[verdict[k]] /\ seen'[p] \in rows[verdict[k]]
          /\ seen'[p].decision = "KEEP"
      BY <2>2, <3>1 DEF Consider
    <3>3. pc'[p] = "idle" /\ About(p)' = k
          /\ UNCHANGED <<rows, verdict, bar, budget>>
      BY <2>2 DEF Consider, vars, About
    <3> QED
      BY <2>0, <2>2, <3>1, <3>2, <3>3 DEF WinnerState, Performing, Consider
  <2>3. CASE TurnedAway(p)
    BY <2>0, <2>3 DEF TurnedAway, Forget, WinnerState, Performing, vars
  <2>4. CASE Claim(p)
    <3>1. job'[p] = About(p) /\ pc'[p] \in {"insert", "take", "gates"}
          /\ UNCHANGED <<rows, verdict, seen, bar, budget, last>> /\ pc[p] = "idle"
      <4>1. job' = [job EXCEPT ![p] = About(p)] /\ pc[p] = "idle"
        BY <2>4 DEF Claim, ClaimSelect, About
      <4>2. job'[p] = About(p)
        BY <4>1
      <4> QED
        BY <2>4, <4>1, <4>2 DEF Claim, ClaimSelect, worldVars
    <3>2. About(p)' = About(p)
      BY <3>1 DEF About
    <3> QED
      BY <2>0, <2>4, <3>1, <3>2 DEF WinnerState, Performing, Claim
  <2>5. CASE TakeLock(p)
    <3>1. CASE pc'[p] = "idle"
      BY <2>5, <3>1 DEF TakeLock, Forget, WinnerState, Performing
    <3>2. CASE pc'[p] # "idle"
      <4>1. pc[p] \in {"insert", "take"} /\ pc'[p] = "gates"
            /\ UNCHANGED <<job, rows, verdict, seen, bar, budget, last>>
        BY <2>5, <3>2 DEF TakeLock, ClaimInsert, ClaimTake, ClaimFails, worldVars
      <4>2. About(p)' = About(p)
        BY <4>1 DEF About
      <4> QED
        BY <2>0, <4>1, <4>2 DEF WinnerState, Performing
    <3> QED
      BY <3>1, <3>2
  <2>6. CASE ReadBar(p) \/ AskBudget(p)
    <3>1. UNCHANGED <<pc, job, rows, verdict, latest, seen, last>> /\ pc[p] = "gates"
      BY <2>6 DEF ReadBar, AskBudget, vars
    <3>2. About(p)' = About(p)
      BY <3>1 DEF About
    <3>3. CASE ReadBar(p)
      <4>1. last[RunOf[p]] # None => verdict[last[RunOf[p]]] \in Value
        BY DEF LastIsJudged, KeysAreJudged
      <4>2. bar'[p] # None /\ (last[RunOf[p]] # None =>
                \E b \in rows[verdict[last[RunOf[p]]]] : bar'[p] = b.score)
        BY <3>3, <4>1 DEF ReadBar
      <4> QED
        BY <2>0, <3>1, <3>2, <4>2 DEF WinnerState, Performing
    <3>4. CASE AskBudget(p)
      <4>1. bar' = bar /\ bar[p] # None
        BY <3>4 DEF AskBudget
      <4> QED
        BY <2>0, <3>1, <3>2, <4>1 DEF WinnerState, Performing
    <3> QED
      BY <2>6, <3>3, <3>4
  <2>7. CASE Pass(p)
    <3>1. UNCHANGED <<job, rows, verdict, last>> /\ pc[p] = "gates" /\ pc'[p] = "select"
          /\ seen'[p] = None /\ bar'[p] = None
      BY <2>7 DEF Pass, GatesPass, worldVars
    <3>2. bar[p] # None /\ ~Regresses(seen[p].score, bar[p])
      BY <2>0, <2>7, <3>1 DEF Pass, WinnerState
    <3>3. seen[p] \in rows[verdict[job[p]]] /\ seen[p].decision = "KEEP"
      BY <2>0, <3>1 DEF WinnerState, About
    <3>4. last[RunOf[p]] # None =>
              \E b \in rows[verdict[last[RunOf[p]]]] : ~Regresses(seen[p].score, b.score)
      BY <2>0, <3>2 DEF WinnerState
    <3>5. Cleared(p)'
      BY <3>1, <3>3, <3>4 DEF Cleared
    <3> QED
      BY <3>1, <3>5 DEF WinnerState
  <2>8. CASE Refuse(p) \/ Raise(p) \/ Recorded(p) \/ Leave(p)
    <3>1. pc'[p] \in {"release", "abort", "idle", "down"} /\ seen'[p] = None /\ bar'[p] = None
          /\ budget'[p] = "unread"
      BY <2>8 DEF Refuse, Raise, Recorded, Leave, GatesRefuse, GatesRaise, Record, Release, Crash,
                  Forget
    <3> QED
      BY <3>1 DEF WinnerState, Performing
  <2>9. CASE Transact(p)
    <3>1. /\ Performing(p) /\ pc'[p] \in PC \ {"idle", "insert", "take", "gates", "down"}
          /\ UNCHANGED <<job, rows, verdict, seen, bar, last>>
      BY <2>9 DEF Transact, SelectRow, WriteRow, Copy, Add, Commit, MakeCommit, GitFails, RevParse, Performing,
                  PC, worldVars
    <3>2. Cleared(p)'
      BY <2>0, <3>1 DEF WinnerState, Cleared
    <3> QED
      BY <2>0, <3>1, <3>2 DEF WinnerState, Performing
  <2>10. CASE ComeBack(p)
    BY <2>0, <2>10 DEF ComeBack, Restart, WinnerState, Performing
  <2> QED
    BY <2>1, <2>2, <2>3, <2>4, <2>5, <2>6, <2>7, <2>8, <2>9, <2>10 DEF Does
<1> QED
  BY <1>1, <1>2, PipelineTypes, PipelineImplementsPromotion, Judgements, Processes, PTL DEF SpecAll

\* No step makes a candidate the best of its run but one with a KEEP that
\* passes the bar of the best before it.
THEOREM WinnersMeetTheBar == SpecAll => EachWinnerMeetsTheBar
<1> USE PipelineAssumption, PromotionAssumption DEF PipelineAssumption, PromotionAssumption
<1>1. WinnerInv /\ TypeOKAll /\ JobsAreOwn /\ [NextAll]_allVars =>
        [OneProcessPerRun => \A r \in Run : last'[r] # last[r] =>
            \E e \in rows[verdict[last'[r]]] :
                /\ e.decision = "KEEP"
                /\ last[r] # None =>
                      \E b \in rows[verdict[last[r]]] : ~Regresses(e.score, b.score)]_allVars
  <2> SUFFICES ASSUME WinnerInv, TypeOKAll, JobsAreOwn, [NextAll]_allVars,
                      OneProcessPerRun, NEW r \in Run, last'[r] # last[r]
               PROVE  \E e \in rows[verdict[last'[r]]] :
                          /\ e.decision = "KEEP"
                          /\ last[r] # None =>
                                \E b \in rows[verdict[last[r]]] : ~Regresses(e.score, b.score)
    OBVIOUS
  <2>1. PICK p \in Promoter : Recorded(p)
    BY DEF NextAll, allVars, pipeVars, Around, NewDay, NextIteration, Spend, EvaluateAgain,
           Consider, TurnedAway, Claim, TakeLock, ReadBar, AskBudget, Pass, Refuse, Raise,
           Transact, Leave, ComeBack
  <2>2. r = RunOf[p] /\ last'[r] = job[p]
    BY <2>1 DEF Recorded, TypeOKAll
  <2>3. Cleared(p)
    BY <2>1 DEF Recorded, Record, WinnerInv, WinnerState, Performing
  <2> QED
    BY <2>2, <2>3 DEF Cleared
<1> QED
  BY <1>1, Winners, PipelineTypes, PipelineImplementsPromotion, Processes, PTL
     DEF SpecAll, EachWinnerMeetsTheBar
=============================================================================
