------------------------- MODULE RunLifecycleProofs -------------------------
(***************************************************************************)
(* Theorems about RunLifecycle for any number of shells, runs and          *)
(* conductor processes: its types, the numbering of iterations, and what   *)
(* `up` guarantees about running runs.                                     *)
(***************************************************************************)
EXTENDS RunLifecycle, TLAPS

\* What a command has read by the time it uses it.
HasRead(c) ==
    /\ c.at \in {"start", "max", "iterate"} => c.run \in Run
    /\ c.at = "iterate" => c.index \in Index
    /\ c.at = "kill" => c.pid \in Pid

Shells == shell \in [Shell -> Process] /\ \A s \in Shell : HasRead(shell[s])

LEMMA NowKeepsShells ==
    ASSUME Shells, NEW s \in Shell, NEW c \in Process, HasRead(c), Now(s, c)
    PROVE  Shells'
<1>1. shell' \in [Shell -> Process]
  BY DEF Shells, Now
<1>2. \A t \in Shell : shell'[t] = IF t = s THEN c ELSE shell[t]
  BY DEF Shells, Now
<1> QED
  BY <1>1, <1>2 DEF Shells, HasRead

LEMMA ShellsStep ==
    ASSUME Shells, DatabaseOK, SystemOK, [Next]_vars
    PROVE  Shells'
<1> USE RunLifecycleAssumption DEF RunLifecycleAssumption, Process, At, Index
<1>1. ASSUME NEW s \in Shell, NEW place \in At, NEW r \in Run \cup {None},
             NEW n \in 0 .. MaxIndex, Now(s, Doing(place, r, n)),
             HasRead(Doing(place, r, n))
      PROVE  Shells'
  <2>1. Doing(place, r, n) \in Process
    BY DEF Doing
  <2> QED
    BY <1>1, <2>1, NowKeepsShells
<1>2. ASSUME NEW s \in Shell, NEW place \in {"prompt", "create", "halt", "pid"}, Then(s, place)
      PROVE  Shells'
  <2>1. HasRead(Doing(place, None, 0))
    BY DEF Doing, HasRead
  <2> QED
    BY <1>1, <1>2, <2>1 DEF Then
<1>3. ASSUME NEW s \in Shell, Command(s) PROVE Shells'
  <2>1. CASE Up(s) \/ Halt(s) \/ HaltRuns(s) \/ Down(s)
    BY <2>1, <1>2 DEF Up, Halt, HaltRuns, Down
  <2>2. CASE Iterate(s) \/ Kill(s) \/ Interrupt(s)
    <3>1. Then(s, "prompt")
      BY <2>2 DEF Iterate, Kill, Interrupt, Then, Prompt
    <3> QED
      BY <3>1, <1>2
  <2>3. CASE UpCreate(s)
    <3>1. PICK r \in Run : Now(s, Doing("start", r, 0))
      BY <2>3 DEF UpCreate
    <3>2. HasRead(Doing("start", r, 0))
      BY DEF Doing, HasRead
    <3> QED
      BY <3>1, <3>2, <1>1
  <2>4. CASE UpStart(s)
    <3>1. shell[s].run \in Run
      BY <2>4 DEF UpStart, Shells, HasRead
    <3>2. HasRead(Doing("iterate", shell[s].run, 1))
      BY <3>1 DEF Doing, HasRead
    <3> QED
      BY <2>4, <3>1, <3>2, <1>1 DEF UpStart
  <2>5. CASE IterNext(s)
    <3>1. PICK r \in Run : Now(s, Doing("max", r, 0))
      BY <2>5 DEF IterNext
    <3>2. HasRead(Doing("max", r, 0))
      BY DEF Doing, HasRead
    <3> QED
      BY <3>1, <3>2, <1>1
  <2>6. CASE IterMax(s)
    <3>1. PICK n \in Index : Now(s, Doing("iterate", shell[s].run, n))
      BY <2>6 DEF IterMax
    <3>2. shell[s].run \in Run
      BY <2>6 DEF IterMax, Shells, HasRead
    <3>3. HasRead(Doing("iterate", shell[s].run, n))
      BY <3>2 DEF Doing, HasRead
    <3> QED
      BY <3>1, <3>2, <3>3, <1>1
  <2>7. CASE ReadPid(s)
    <3> DEFINE c == [Doing("kill", None, 0) EXCEPT !.pid = pidfile]
    <3>1. CASE pidfile # None
      <4>1. c \in Process
        BY <3>1 DEF Doing, SystemOK
      <4>2. HasRead(c)
        BY <3>1 DEF Doing, HasRead, SystemOK
      <4> QED
        BY <2>7, <3>1, <4>1, <4>2, NowKeepsShells DEF ReadPid
    <3>2. CASE pidfile = None
      BY <2>7, <3>2, <1>2 DEF ReadPid, Then, Prompt
    <3> QED
      BY <3>1, <3>2
  <2>8. CASE Pause(s) \/ Resume(s)
    BY <2>8 DEF Pause, Resume, Shells
  <2> QED
    BY <1>3, <2>1, <2>2, <2>3, <2>4, <2>5, <2>6, <2>7, <2>8 DEF Command
<1>4. CASE UNCHANGED shell
  BY <1>4 DEF Shells
<1> QED
  BY <1>3, <1>4 DEF Next, Start, Tick, Exit, Clear, Cron, CronSelect, CronCheck, Clock, vars

LEMMA DatabaseStep ==
    ASSUME Shells, DatabaseOK, [Next]_vars
    PROVE  DatabaseOK'
<1> USE RunLifecycleAssumption DEF RunLifecycleAssumption, DatabaseOK, Shells, runVars, lockVars
<1>1. ASSUME NEW s \in Shell, Command(s) PROVE DatabaseOK'
  <2>1. CASE UpCreate(s) \/ UpStart(s)
    BY <2>1 DEF UpCreate, UpStart
  <2>2. CASE Pause(s) \/ Resume(s) \/ HaltRuns(s)
    BY <2>2 DEF Pause, Resume, HaltRuns
  <2>3. CASE Iterate(s)
    <3>1. <<shell[s].run, shell[s].index>> \in Run \X Index
      BY <2>3 DEF Iterate, HasRead
    <3> QED
      BY <2>3, <3>1 DEF Iterate
  <2>4. CASE UNCHANGED <<status, rows, holder, left>>
    BY <2>4
  <2> QED
    BY <1>1, <2>1, <2>2, <2>3, <2>4
    DEF Command, Up, IterNext, IterMax, Halt, Down, ReadPid, Kill, Interrupt
<1>2. ASSUME NEW p \in Pid, Tick(p) PROVE DatabaseOK'
  BY <1>2 DEF Tick, LeaseFrom, Floor
<1>3. CASE Clock
  BY <1>3 DEF Clock, Floor
<1>4. CASE UNCHANGED <<status, rows, holder, left>>
  BY <1>4
<1> QED
  BY <1>1, <1>2, <1>3, <1>4 DEF Next, Start, Exit, Clear, Cron, CronSelect, CronCheck, vars

LEMMA SystemStep ==
    ASSUME Shells, DatabaseOK, SystemOK, [Next]_vars
    PROVE  SystemOK'
<1> USE DEF SystemOK, procVars, cronVars
<1>1. ASSUME NEW s \in Shell, Up(s) PROVE SystemOK'
  BY <1>1 DEF Up
<1>2. ASSUME NEW s \in Shell, Halt(s) PROVE SystemOK'
  BY <1>2 DEF Halt
<1>3. ASSUME NEW s \in Shell, Kill(s) PROVE SystemOK'
  BY <1>3 DEF Kill
<1>4. ASSUME NEW p \in Pid, Start(p) \/ Exit(p) PROVE SystemOK'
  BY <1>4 DEF Start, Exit
<1>5. CASE Clear \/ Cron
  BY <1>5 DEF Clear, Cron, CronSelect, CronCheck
<1>6. CASE UNCHANGED <<proc, pidfile, stuck, breaker, ups>>
  BY <1>6
<1> QED
  BY <1>1, <1>2, <1>3, <1>4, <1>5, <1>6
  DEF Next, Command, UpCreate, UpStart, IterNext, IterMax, Iterate, Pause, Resume,
      HaltRuns, Down, ReadPid, Interrupt, Tick, Clock, vars

LEMMA Types == Spec => [](Shells /\ DatabaseOK /\ SystemOK)
<1>1. Init => Shells /\ DatabaseOK /\ SystemOK
  BY RunLifecycleAssumption
  DEF RunLifecycleAssumption, Init, Shells, HasRead, DatabaseOK, SystemOK, Process,
      Prompt, Doing, At, Floor
<1>2. Shells /\ DatabaseOK /\ SystemOK /\ [Next]_vars
        => (Shells /\ DatabaseOK /\ SystemOK)'
  BY ShellsStep, DatabaseStep, SystemStep
<1> QED
  BY <1>1, <1>2, PTL DEF Spec

\* Whatever the shells interrupt and the processes do, every variable stays
\* in its set: in particular no command acts on a run, an index or a process
\* it has not read.
THEOREM TypeCorrect == Spec => []TypeOK
<1>1. Shells /\ DatabaseOK /\ SystemOK => TypeOK
  BY DEF Shells, TypeOK
<1> QED
  BY Types, <1>1, PTL

---------------------------------------------------------------------------
\* A command about to INSERT an index other than the first has seen a row
\* with the one before, and rows are never deleted.
NumbersFollow ==
    \A s \in Shell :
        shell[s].at = "iterate" /\ shell[s].index > 1
            => rows[<<shell[s].run, shell[s].index - 1>>] > 0

LEMMA NumberingStep ==
    ASSUME Shells, DatabaseOK, IndexesHaveNoGaps, NumbersFollow, [Next]_vars
    PROVE  (IndexesHaveNoGaps /\ NumbersFollow)'
<1> USE RunLifecycleAssumption DEF RunLifecycleAssumption, Index
<1>1. ASSUME UNCHANGED rows,
             NEW s \in Shell, NEW place \in At, NEW r, NEW n, Now(s, Doing(place, r, n)),
             place = "iterate" /\ n > 1 => rows[<<r, n - 1>>] > 0
      PROVE  (IndexesHaveNoGaps /\ NumbersFollow)'
  <2>1. \A t \in Shell : shell'[t] = IF t = s THEN Doing(place, r, n) ELSE shell[t]
    BY <1>1 DEF Now, Shells
  <2> QED
    BY <1>1, <2>1 DEF IndexesHaveNoGaps, NumbersFollow, Doing
<1>2. ASSUME NEW s \in Shell, Command(s)
      PROVE  (IndexesHaveNoGaps /\ NumbersFollow)'
  <2> USE DEF runVars
  <2>1. CASE Up(s) \/ Halt(s) \/ HaltRuns(s) \/ Down(s)
    BY <2>1, <1>1 DEF Up, Halt, HaltRuns, Down, Then, At
  <2>2. CASE Kill(s) \/ Interrupt(s)
    BY <2>2, <1>1 DEF Kill, Interrupt, Prompt, At
  <2>3. CASE UpCreate(s) \/ IterNext(s)
    BY <2>3, <1>1 DEF UpCreate, IterNext, At
  <2>8. CASE UpStart(s)
    <3>1. UNCHANGED rows /\ Now(s, Doing("iterate", shell[s].run, 1))
      BY <2>8 DEF UpStart
    <3>2. 1 > 1 => rows[<<shell[s].run, 1 - 1>>] > 0
      OBVIOUS
    <3> QED
      BY <3>1, <3>2, <1>1 DEF At
  <2>4. CASE IterMax(s)
    BY <2>4, <1>1 DEF IterMax, MaxPlusOne, At
  <2>5. CASE ReadPid(s)
    <3>1. \A t \in Shell : t # s => shell'[t] = shell[t]
      BY <2>5 DEF ReadPid, Now, Shells
    <3>2. shell'[s].at # "iterate"
      BY <2>5 DEF ReadPid, Now, Shells, Prompt, Doing
    <3> QED
      BY <2>5, <3>1, <3>2 DEF ReadPid, IndexesHaveNoGaps, NumbersFollow
  <2>6. CASE Pause(s) \/ Resume(s)
    BY <2>6 DEF Pause, Resume, IndexesHaveNoGaps, NumbersFollow
  <2>7. CASE Iterate(s)
    <3> DEFINE k == <<shell[s].run, shell[s].index>>
    <3>1. shell[s].run \in Run /\ shell[s].index \in Index
      BY <2>7 DEF Iterate, Shells, HasRead
    <3>2. \A j \in Run \X Index :
             rows'[j] = IF j = k THEN rows[j] + 1 ELSE rows[j]
      BY <2>7, <3>1 DEF Iterate, DatabaseOK
    <3>3. \A j \in Run \X Index : rows[j] \in Nat /\ rows'[j] \in Nat /\ rows'[j] >= rows[j]
      BY <3>2 DEF DatabaseOK
    <3>4. \A t \in Shell : shell'[t] = IF t = s THEN Prompt ELSE shell[t]
      BY <2>7 DEF Iterate, Now, Shells
    <3>5. ASSUME NEW t \in Shell, shell'[t].at = "iterate", shell'[t].index > 1
          PROVE  rows'[<<shell'[t].run, shell'[t].index - 1>>] > 0
      <4>1. shell'[t] = shell[t]
        BY <3>4, <3>5 DEF Prompt, Doing
      <4>2. shell[t].run \in Run /\ shell[t].index \in Index
        BY <3>5, <4>1 DEF Shells, HasRead
      <4>3. <<shell[t].run, shell[t].index - 1>> \in Run \X Index
        BY <3>5, <4>1, <4>2
      <4>4. rows[<<shell[t].run, shell[t].index - 1>>] > 0
        BY <3>5, <4>1 DEF NumbersFollow
      <4> QED
        BY <3>3, <4>1, <4>3, <4>4
    <3>6. ASSUME NEW r \in Run, NEW i \in Index, rows'[<<r, i>>] > 0, i > 1
          PROVE  rows'[<<r, i - 1>>] > 0
      <4>1. <<r, i>> \in Run \X Index /\ <<r, i - 1>> \in Run \X Index
        BY <3>6
      <4>2. CASE <<r, i>> = k
        <5>1. rows[<<r, i - 1>>] > 0
          BY <2>7, <3>6, <4>2 DEF Iterate, NumbersFollow
        <5> QED
          BY <3>3, <4>1, <5>1
      <4>3. CASE <<r, i>> # k
        <5>1. rows[<<r, i>>] > 0
          BY <3>2, <3>6, <4>1, <4>3
        <5>2. rows[<<r, i - 1>>] > 0
          BY <3>6, <5>1 DEF IndexesHaveNoGaps
        <5> QED
          BY <3>3, <4>1, <5>2
      <4> QED
        BY <4>2, <4>3
    <3> QED
      BY <3>5, <3>6 DEF IndexesHaveNoGaps, NumbersFollow
  <2> QED
    BY <1>2, <2>1, <2>2, <2>3, <2>4, <2>5, <2>6, <2>7, <2>8 DEF Command
<1>3. CASE UNCHANGED <<shell, rows>>
  BY <1>3 DEF IndexesHaveNoGaps, NumbersFollow
<1> QED
  BY <1>2, <1>3
  DEF Next, Start, Tick, Exit, Clear, Cron, CronSelect, CronCheck, Clock, runVars, vars

\* Whatever numbers of shells race to number the iterations of whatever
\* number of runs, no index is skipped.
THEOREM Numbered == Spec => []IndexesHaveNoGaps
<1>1. Init => IndexesHaveNoGaps /\ NumbersFollow
  BY DEF Init, IndexesHaveNoGaps, NumbersFollow, Prompt, Doing
<1>2. Shells /\ DatabaseOK /\ IndexesHaveNoGaps /\ NumbersFollow /\ [Next]_vars
        => (IndexesHaveNoGaps /\ NumbersFollow)'
  BY NumberingStep
<1> QED
  BY <1>1, <1>2, Types, PTL DEF Spec

---------------------------------------------------------------------------
Open(r) == status[r] \in {"running", "paused"}

\* As long as no two have overlapped, one `up` at a time is on its way, it
\* found nothing open, and so at most one run is open.
OneOpenRun ==
    ups = "apart" =>
        /\ \A s, t \in Shell : Starting(s) /\ Starting(t) => s = t
        /\ \A s \in Shell, r \in Run : Starting(s) => ~Open(r)
        /\ \A q, r \in Run : Open(q) /\ Open(r) => q = r

LEMMA OneOpenRunStep ==
    ASSUME Shells, DatabaseOK, SystemOK, OneOpenRun, [Next]_vars
    PROVE  OneOpenRun'
<1> USE DEF Starting, Open
<1>1. ASSUME NEW s \in Shell, NEW place \in At, NEW r, NEW n, Now(s, Doing(place, r, n))
      PROVE  \A t \in Shell : shell'[t].at = IF t = s THEN place ELSE shell[t].at
  BY <1>1 DEF Now, Shells, Doing
<1>2. ASSUME \A t \in Shell : Starting(t)' => Starting(t),
             \A r \in Run : Open(r)' => Open(r),
             UNCHANGED ups
      PROVE  OneOpenRun'
  BY <1>2 DEF OneOpenRun
<1>3. ASSUME NEW s \in Shell, Command(s) PROVE OneOpenRun'
  <2> USE DEF runVars, cronVars
  <2>1. CASE Up(s)
    <3>1. \A t \in Shell : shell'[t].at = IF t = s THEN "create" ELSE shell[t].at
      BY <2>1, <1>1 DEF Up, Then, At
    <3>2. SUFFICES ASSUME ups' = "apart" PROVE OneOpenRun'
      BY DEF OneOpenRun
    <3>3. \A t \in Shell : ~Starting(t)
      BY <2>1, <3>2 DEF Up
    <3>4. \A r \in Run : ~Open(r)
      BY <2>1, <3>2 DEF Up
    <3> QED
      BY <2>1, <3>1, <3>3, <3>4 DEF Up, OneOpenRun
  <2>2. CASE UpCreate(s)
    <3>1. PICK r \in Run : /\ status' = [status EXCEPT ![r] = "created"]
                           /\ Now(s, Doing("start", r, 0))
      BY <2>2 DEF UpCreate
    <3>2. \A t \in Shell : shell'[t].at = IF t = s THEN "start" ELSE shell[t].at
      BY <3>1, <1>1 DEF At
    <3>3. \A q \in Run : Open(q)' => Open(q)
      BY <3>1 DEF DatabaseOK
    <3> QED
      BY <2>2, <3>2, <3>3, <1>2 DEF UpCreate
  <2>3. CASE UpStart(s)
    <3>1. \A t \in Shell : shell'[t].at = IF t = s THEN "iterate" ELSE shell[t].at
      BY <2>3, <1>1 DEF UpStart, At
    <3>2. SUFFICES ASSUME ups = "apart" PROVE OneOpenRun'
      BY <2>3 DEF UpStart, OneOpenRun
    <3>3. \A t \in Shell : ~Starting(t)'
      BY <2>3, <3>1, <3>2 DEF UpStart, OneOpenRun
    <3>4. \A q \in Run : Open(q)' => q = shell[s].run
      BY <2>3, <3>2 DEF UpStart, OneOpenRun, DatabaseOK
    <3> QED
      BY <3>3, <3>4 DEF OneOpenRun
  <2>4. CASE IterNext(s) \/ IterMax(s) \/ Iterate(s) \/ Interrupt(s) \/ Kill(s)
    <3>1. \A t \in Shell : Starting(t)' => Starting(t)
      BY <2>4, <1>1 DEF IterNext, IterMax, Iterate, Interrupt, Kill, Prompt, At
    <3> QED
      BY <2>4, <3>1, <1>2 DEF IterNext, IterMax, Iterate, Interrupt, Kill
  <2>5. CASE Halt(s) \/ HaltRuns(s) \/ Down(s)
    <3>1. \A t \in Shell : Starting(t)' => Starting(t)
      BY <2>5, <1>1 DEF Halt, HaltRuns, Down, Then, At
    <3>2. \A r \in Run : Open(r)' => Open(r)
      BY <2>5 DEF Halt, HaltRuns, Down
    <3> QED
      BY <2>5, <3>1, <3>2, <1>2 DEF Halt, HaltRuns, Down
  <2>6. CASE Pause(s) \/ Resume(s)
    BY <2>6, <1>2 DEF Pause, Resume
  <2>7. CASE ReadPid(s)
    <3>1. \A t \in Shell : Starting(t)' => Starting(t)
      BY <2>7 DEF ReadPid, Now, Shells, Prompt, Doing
    <3> QED
      BY <2>7, <3>1, <1>2 DEF ReadPid
  <2> QED
    BY <1>3, <2>1, <2>2, <2>3, <2>4, <2>5, <2>6, <2>7 DEF Command
<1>4. CASE UNCHANGED <<shell, status, ups>>
  BY <1>4 DEF OneOpenRun
<1> QED
  BY <1>3, <1>4
  DEF Next, Start, Tick, Exit, Clear, Cron, CronSelect, CronCheck, Clock, runVars, vars

\* For any number of shells and runs, and any mix of commands and
\* interruptions: until two starts overlap, one run at most is running.
THEOREM OneRun == Spec => []OneRunUnlessUpsOverlap
<1>1. Init => OneOpenRun
  BY DEF Init, OneOpenRun, Starting, Open, Prompt, Doing
<1>2. Shells /\ DatabaseOK /\ SystemOK /\ OneOpenRun /\ [Next]_vars => OneOpenRun'
  BY OneOpenRunStep
<1>3. OneOpenRun => OneRunUnlessUpsOverlap
  BY DEF OneOpenRun, Open, OneRunUnlessUpsOverlap
<1> QED
  BY <1>1, <1>2, <1>3, Types, PTL DEF Spec

---------------------------------------------------------------------------
(***************************************************************************)
(* Two commands that number iterations at the same time may both make the  *)
(* next one: iterations has no UNIQUE key.  One at a time make no twins,   *)
(* however they are interrupted: what a command is about to INSERT, nobody *)
(* has, and a run that has not started has no iteration.                   *)
(***************************************************************************)
Numbering(s) == shell[s].at \in {"create", "start", "max", "iterate"}

Apart == \A s, t \in Shell : Numbering(s) /\ Numbering(t) => s = t

Free(c) ==
    /\ c.at = "start" => status[c.run] = "created"
    /\ c.at \in {"max", "iterate"} => status[c.run] \notin {"absent", "created"}
    /\ c.at = "iterate" => \A i \in Index : i >= c.index => rows[<<c.run, i>>] = 0

NoTwins == \A r \in Run, i \in Index : rows[<<r, i>>] =< 1

Untouched(r) ==
    status[r] \in {"absent", "created"} => \A i \in Index : rows[<<r, i>>] = 0

TwinInv ==
    /\ NoTwins
    /\ \A r \in Run : Untouched(r)
    /\ \A s \in Shell : Free(shell[s])

LEMMA TwinStep ==
    ASSUME Shells, DatabaseOK, TwinInv, Apart, [Next]_vars
    PROVE  TwinInv'
<1> USE RunLifecycleAssumption DEF RunLifecycleAssumption, Index
\* A command that goes on while status and rows stay.
<1>1. ASSUME UNCHANGED runVars, NEW s \in Shell, NEW c, Free(c), Now(s, c)
      PROVE  TwinInv'
  <2>1. \A t \in Shell : shell'[t] = IF t = s THEN c ELSE shell[t]
    BY <1>1 DEF Now, Shells
  <2> QED
    BY <1>1, <2>1 DEF TwinInv, NoTwins, Untouched, Free, runVars
<1>2. ASSUME NEW place, place \notin {"start", "max", "iterate"}, NEW r, NEW n
      PROVE  Free(Doing(place, r, n))
  BY <1>2 DEF Free, Doing
<1>3. Free(Prompt)
  BY <1>2 DEF Prompt
\* Runs that are open, or over, stay that way.
<1>4. ASSUME \A r \in Run : status'[r] \in {"absent", "created"} \/ status[r] = "created"
                            => status'[r] = status[r],
             UNCHANGED rows,
             \A t \in Shell : shell'[t].at \in {"start", "max", "iterate"} => shell'[t] = shell[t]
      PROVE  TwinInv'
  <2>1. \A t \in Shell : shell[t].at \in {"start", "max", "iterate"} => shell[t].run \in Run
    BY DEF Shells, HasRead
  <2> QED
    BY <1>4, <2>1 DEF TwinInv, NoTwins, Untouched, Free
<1>5. ASSUME NEW s \in Shell, Command(s)
      PROVE  TwinInv'
  <2>1. CASE Up(s) \/ Halt(s) \/ Down(s)
    BY <2>1, <1>1, <1>2 DEF Up, Halt, Down, Then
  <2>10. CASE IterNext(s)
    <3>1. PICK r \in Run : status[r] = "running" /\ Now(s, Doing("max", r, 0))
      BY <2>10 DEF IterNext
    <3>2. Free(Doing("max", r, 0))
      BY <3>1 DEF Free, Doing
    <3> QED
      BY <2>10, <3>1, <3>2, <1>1 DEF IterNext
  <2>2. CASE Interrupt(s) \/ Kill(s)
    BY <2>2, <1>1, <1>3 DEF Interrupt, Kill
  <2>3. CASE UpCreate(s)
    <3>1. PICK r \in Run : /\ status[r] = "absent"
                           /\ status' = [status EXCEPT ![r] = "created"]
                           /\ Now(s, Doing("start", r, 0))
      BY <2>3 DEF UpCreate
    <3>2. \A t \in Shell : shell'[t] = IF t = s THEN Doing("start", r, 0) ELSE shell[t]
      BY <3>1 DEF Now, Shells
    <3>3. \A q \in Run : status'[q] = IF q = r THEN "created" ELSE status[q]
      BY <3>1 DEF DatabaseOK
    <3>4. rows' = rows
      BY <2>3 DEF UpCreate
    <3>5. \A t \in Shell : t # s => ~Numbering(t)
      BY <2>3 DEF UpCreate, Apart, Numbering
    <3> QED
      BY <3>1, <3>2, <3>3, <3>4, <3>5
         DEF TwinInv, NoTwins, Untouched, Free, Numbering, Doing
  <2>4. CASE UpStart(s)
    <3> DEFINE r == shell[s].run
    <3>1. r \in Run /\ status[r] = "created"
      BY <2>4 DEF UpStart, Shells, HasRead, TwinInv, Free
    <3>2. \A i \in Index : rows[<<r, i>>] = 0
      BY <3>1 DEF TwinInv, Untouched
    <3>3. \A t \in Shell : shell'[t] = IF t = s THEN Doing("iterate", r, 1) ELSE shell[t]
      BY <2>4 DEF UpStart, Now, Shells
    <3>4. \A q \in Run : status'[q] = IF q = r THEN "running" ELSE status[q]
      BY <2>4, <3>1 DEF UpStart, DatabaseOK
    <3>5. rows' = rows
      BY <2>4 DEF UpStart
    <3>6. \A t \in Shell : t # s => ~Numbering(t)
      BY <2>4 DEF UpStart, Apart, Numbering
    <3>7. \A t \in Shell : Free(shell[t])'
      BY <3>1, <3>2, <3>3, <3>4, <3>5, <3>6 DEF Free, Numbering, Doing
    <3>8. \A q \in Run : Untouched(q)'
      BY <3>4, <3>5 DEF TwinInv, Untouched
    <3> QED
      BY <3>5, <3>7, <3>8 DEF TwinInv, NoTwins
  <2>5. CASE IterMax(s)
    <3>1. PICK n \in Index : /\ MaxPlusOne(shell[s].run, n)
                             /\ Now(s, Doing("iterate", shell[s].run, n))
      BY <2>5 DEF IterMax
    <3>2. Free(shell[s])
      BY DEF TwinInv
    <3>3. Free(Doing("iterate", shell[s].run, n))
      BY <2>5, <3>1, <3>2 DEF IterMax, MaxPlusOne, Free, Doing
    <3> QED
      BY <2>5, <3>1, <3>3, <1>1 DEF IterMax
  <2>6. CASE Iterate(s)
    <3> DEFINE r == shell[s].run
               n == shell[s].index
    <3>1. r \in Run /\ n \in Index /\ rows[<<r, n>>] = 0
      BY <2>6 DEF Iterate, Shells, HasRead, TwinInv, Free
    <3>2. \A q \in Run, i \in Index :
             rows'[<<q, i>>] = IF q = r /\ i = n THEN rows[<<r, n>>] + 1 ELSE rows[<<q, i>>]
      BY <2>6, <3>1 DEF Iterate, DatabaseOK
    <3>3. status' = status /\ \A t \in Shell : shell'[t] = IF t = s THEN Prompt ELSE shell[t]
      BY <2>6 DEF Iterate, Now, Shells
    <3>4. \A t \in Shell : t # s => ~Numbering(t)
      BY <2>6 DEF Iterate, Apart, Numbering
    <3>5. NoTwins'
      <4>1. ASSUME NEW q \in Run, NEW i \in Index
            PROVE  rows'[<<q, i>>] =< 1
        BY <3>1, <3>2 DEF TwinInv, NoTwins
      <4> QED
        BY <4>1 DEF NoTwins
    <3>6. \A t \in Shell : Free(shell[t])'
      BY <3>3, <3>4 DEF Free, Numbering, Prompt, Doing
    <3>7. status[r] \notin {"absent", "created"}
      BY <2>6 DEF Iterate, TwinInv, Free
    <3> QED
      BY <3>2, <3>3, <3>5, <3>6, <3>7 DEF TwinInv, Untouched
  <2>7. CASE Pause(s) \/ Resume(s)
    BY <2>7, <1>4 DEF Pause, Resume
  <2>8. CASE HaltRuns(s)
    <3>1. \A t \in Shell : shell'[t].at \in {"start", "max", "iterate"} => shell'[t] = shell[t]
      BY <2>8 DEF HaltRuns, Then, Now, Shells, Doing
    <3> QED
      BY <2>8, <3>1, <1>4 DEF HaltRuns
  <2>9. CASE ReadPid(s)
    <3>1. \A t \in Shell : shell'[t].at \in {"start", "max", "iterate"} => shell'[t] = shell[t]
      BY <2>9 DEF ReadPid, Now, Shells, Prompt, Doing
    <3> QED
      BY <2>9, <3>1, <1>4 DEF ReadPid, runVars
  <2> QED
    BY <1>5, <2>1, <2>2, <2>3, <2>4, <2>5, <2>6, <2>7, <2>8, <2>9, <2>10 DEF Command
<1>6. CASE UNCHANGED <<shell, status, rows>>
  BY <1>6, <1>4
<1> QED
  BY <1>5, <1>6
  DEF Next, Start, Tick, Exit, Clear, Cron, CronSelect, CronCheck, Clock, runVars, vars

\* As long as no `up` or `iter next` begins before another is over, each
\* index of a run is one iteration, with commands interrupted anywhere and
\* pause, resume and halt in between.
THEOREM NumberedOnce == Spec /\ []Apart => []NoTwins
<1>1. Init => TwinInv
  BY DEF Init, TwinInv, NoTwins, Untouched, Free, Prompt, Doing
<1>2. Shells /\ DatabaseOK /\ TwinInv /\ Apart /\ [Next]_vars => TwinInv'
  BY TwinStep
<1>3. TwinInv => NoTwins
  BY DEF TwinInv
<1> QED
  BY <1>1, <1>2, <1>3, Types, PTL DEF Spec

---------------------------------------------------------------------------
(***************************************************************************)
(* The safety half of DeadControllerIsReported.                            *)
(***************************************************************************)
Unattended == \A p \in Pid : proc[p] \in {"unborn", "gone"}

LeaseIsLeftAlone ==
    Unattended =>
        /\ holder' = holder /\ left' =< left
        /\ holder = None \/ left = Floor =>
              \A r \in Run : CronCheck(r) => breaker' = "cron"

\* With no conductor process nobody takes the controller lock or prolongs its
\* lease, whatever the operator's commands and the pid file do; it falls with
\* the clock, and once it has fallen to Floor cron's look at any run reports
\* it, however old its clock reading.  (cli.py:951-978, conductor.py:52-91)
THEOREM DeadLeaseIsSeen == Spec => [][LeaseIsLeftAlone]_vars
<1> USE RunLifecycleAssumption DEF RunLifecycleAssumption, DatabaseOK
<1>1. DatabaseOK /\ [Next]_vars => [LeaseIsLeftAlone]_vars
  <2> SUFFICES ASSUME DatabaseOK, Next, Unattended
               PROVE  /\ holder' = holder /\ left' =< left
                      /\ holder = None \/ left = Floor =>
                            \A r \in Run : CronCheck(r) => breaker' = "cron"
    BY DEF LeaseIsLeftAlone
  <2>1. \A p \in Pid : ~Tick(p)
    BY DEF Tick, Unattended
  <2>2. holder' = holder /\ left' =< left
    <3>1. CASE Clock
      BY <3>1 DEF Clock, Floor
    <3>2. CASE ~Clock
      <4>1. UNCHANGED lockVars
        BY <2>1, <3>2
        DEF Next, Command, Up, UpCreate, UpStart, IterNext, IterMax, Iterate, Pause, Resume, Halt,
            HaltRuns, Down, ReadPid, Kill, Interrupt, Start, Exit, Clear, Cron, CronSelect,
            CronCheck
      <4> QED
        BY <4>1 DEF lockVars, Floor
    <3> QED
      BY <3>1, <3>2
  <2>3. ASSUME holder = None \/ left = Floor, NEW r \in Run, CronCheck(r)
        PROVE  breaker' = "cron"
    <3>1. \A s \in 0 .. Stall : Gone(s)
      BY <2>3 DEF Gone, Expired, Floor
    <3> QED
      BY <2>3, <3>1 DEF CronCheck
  <2> QED
    BY <2>2, <2>3
<1> QED
  BY <1>1, Types, PTL DEF Spec
=============================================================================
