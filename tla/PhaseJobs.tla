----------------------------- MODULE PhaseJobs ------------------------------
(***************************************************************************)
(* The phase_jobs table of one run and everyone who writes it: conductor   *)
(* processes (ar724/conductor.py: tick and what it calls), the operator's  *)
(* commands (ar724/cli.py: up, iter next, iter cancel, pause, resume,      *)
(* halt) and the workers, which live outside the repository.               *)
(*                                                                         *)
(* One SQL statement is one step.  Which process may enter tick is the     *)
(* business of ControllerLock; here any number may, which is what that     *)
(* lock comes to once a lease has lapsed or two processes serve one run.   *)
(*                                                                         *)
(* As in ControllerLock, left is a lease's end minus the clock, and a      *)
(* statement may use a clock reading up to Stall ticks old.  A job's lease *)
(* is not followed once the job has ended: nothing reads it then.          *)
(***************************************************************************)
EXTENDS Integers

CONSTANTS
    Conductor,    \* processes running `ar724 conductor` for this run
    NIterations,  \* bound: iterations created
    NPhases,      \* phase jobs of an iteration (5 in enqueue_phase_jobs)
    None,
    Lease,        \* LOCK_LEASE_SECONDS of a claim, in ticks
    Grace,        \* lease_timeout_seconds of the reaper, in ticks
    Stall,        \* bound: age of a clock reading when its statement runs
    MaxCrashes    \* bound: crashes other than the one tick itself causes

Iteration == 1 .. NIterations      \* iterations."index"
Phase == 1 .. NPhases              \* order of the list in enqueue_phase_jobs
Job == Iteration \X Phase
Reviewer(i) == <<i, NPhases>>      \* backtest_reviewer is the last entry

ASSUME PhaseJobsAssumption ==
    /\ NIterations \in Nat
    /\ NPhases \in Nat \ {0}
    /\ None \notin Job
    /\ None \notin Iteration
    /\ Lease \in Nat
    /\ Grace \in Nat
    /\ Stall \in Nat
    /\ MaxCrashes \in Nat

VARIABLES
    run,      \* runs.status
    iter,     \* iterations.status
    status,   \* phase_jobs.status, "failed" split by error_class
    left,     \* phase_jobs.lease_expires_at minus the clock
    started,  \* phase_started events in the events table, per job
    worker,   \* the worker process of each job
    pc,       \* where each conductor is in tick
    overdue,  \* rows of the reaper's SELECT still to be handled
    picked,   \* the job a conductor selected, then claimed
    latest,   \* the iteration a conductor examines for promotion
    cancel,   \* progress of `ar724 iter cancel`: the step and its iteration
    credit,   \* history: claims a tick may still make once the run stops
    crashes   \* history: crashes so far

runVars == <<run, credit>>
tickVars == <<pc, overdue, picked, latest>>
vars == <<run, iter, status, left, started, worker, pc, overdue, picked,
          latest, cancel, credit, crashes>>

Final == {"completed",   \* written by the worker's side
          "failed",      \* written by the worker's side
          "orphaned",    \* failed, error_class orphaned_process
          "cancelled"}   \* failed, error_class iter_cancelled
Status == {"absent", "queued", "running"} \cup Final
Floor == -(Grace + Stall + 1)

PC == {"idle",      \* between ticks, or waiting for the lock
       "reap",      \* about to SELECT stale jobs
       "reaping",   \* handling them one by one
       "claim",     \* SELECTed a queued job, about to compare-and-swap
       "claimed",   \* won it, events not written yet
       "latest",    \* about to SELECT the latest iteration
       "jobs",      \* about to SELECT its jobs
       "promote",   \* all its jobs have ended, reviewer completed
       "down"}

TypeOK ==
    /\ run \in {"running", "paused", "failed"}
    /\ iter \in [Iteration -> {"absent", "queued", "cancelled"}]
    /\ status \in [Job -> Status]
    /\ left \in [Job -> Floor .. Lease]
    /\ started \in [Job -> Nat]
    /\ worker \in [Job -> {"none", "alive", "exited"}]
    /\ pc \in [Conductor -> PC]
    /\ overdue \in [Conductor -> SUBSET Job]
    /\ picked \in [Conductor -> Job \cup {None}]
    /\ latest \in [Conductor -> Iteration \cup {None}]
    /\ cancel \in [step : {"none", "iteration", "jobs"},
                   of : Iteration \cup {None}]
    /\ credit \in [Conductor -> Int]
    /\ crashes \in 0 .. MaxCrashes

NoCancel == [step |-> "none", of |-> None]

\* The run exists and is running; `ar724 up` has yet to add iteration 1.
Init ==
    /\ run = "running"
    /\ iter = [i \in Iteration |-> "absent"]
    /\ status = [j \in Job |-> "absent"]
    /\ left = [j \in Job |-> Lease]
    /\ started = [j \in Job |-> 0]
    /\ worker = [j \in Job |-> "none"]
    /\ pc = [c \in Conductor |-> "idle"]
    /\ overdue = [c \in Conductor |-> {}]
    /\ picked = [c \in Conductor |-> None]
    /\ latest = [c \in Conductor |-> None]
    /\ cancel = NoCancel
    /\ credit = [c \in Conductor |-> 0]
    /\ crashes = 0

---------------------------------------------------------------------------
(* The operator's commands.                                                *)

\* create_iteration, from `up` and from `iter next`: the next index.
CreateIteration(i) ==
    /\ run = "running"
    /\ iter[i] = "absent"
    /\ \A k \in 1 .. i - 1 : iter[k] # "absent"
    /\ iter' = [iter EXCEPT ![i] = "queued"]
    /\ UNCHANGED <<status, left, started, worker, tickVars, cancel, runVars, crashes>>

\* One INSERT of enqueue_phase_jobs: the phases go in one by one, in order.
\* The command may be interrupted, so nothing says the next one follows.
AnyOrder(i, p) == TRUE
InOrder(i, p) == \A q \in 1 .. p - 1 : status[<<i, q>>] # "absent"

InsertJob(i, p) ==
    /\ iter[i] # "absent"
    /\ status[<<i, p>>] = "absent"
    /\ InOrder(i, p)
    /\ status' = [status EXCEPT ![<<i, p>>] = "queued"]
    /\ UNCHANGED <<iter, left, started, worker, tickVars, cancel, runVars, crashes>>

\* iter cancel: SELECT the latest iteration still queued, UPDATE it, then
\* UPDATE those of its jobs that have not ended.
CancelPick ==
    /\ cancel = NoCancel
    /\ \E i \in Iteration :
          /\ iter[i] = "queued"
          /\ \A k \in Iteration : iter[k] = "queued" => k =< i
          /\ cancel' = [step |-> "iteration", of |-> i]
    /\ UNCHANGED <<iter, status, left, started, worker, tickVars, runVars, crashes>>

CancelIteration ==
    /\ cancel.step = "iteration"
    /\ iter' = [iter EXCEPT ![cancel.of] = "cancelled"]
    /\ cancel' = [cancel EXCEPT !.step = "jobs"]
    /\ UNCHANGED <<status, left, started, worker, tickVars, runVars, crashes>>

CancelJobs ==
    /\ cancel.step = "jobs"
    /\ status' = [j \in Job |->
                    IF j[1] = cancel.of /\ status[j] \in {"queued", "running"}
                    THEN "cancelled" ELSE status[j]]
    /\ cancel' = NoCancel
    /\ UNCHANGED <<iter, left, started, worker, tickVars, runVars, crashes>>

Pause ==
    /\ run = "running"
    /\ run' = "paused"
    /\ UNCHANGED <<iter, status, left, started, worker, tickVars, cancel, credit, crashes>>

Resume ==
    /\ run = "paused"
    /\ run' = "running"
    /\ UNCHANGED <<iter, status, left, started, worker, tickVars, cancel, credit, crashes>>

\* halt --force, its UPDATE of runs.  The conductor finishes its tick.
Halt ==
    /\ run = "running"
    /\ run' = "failed"
    /\ UNCHANGED <<iter, status, left, started, worker, tickVars, cancel, credit, crashes>>

Operator ==
    \/ \E i \in Iteration : CreateIteration(i)
    \/ \E i \in Iteration, p \in Phase : InsertJob(i, p)
    \/ CancelPick \/ CancelIteration \/ CancelJobs
    \/ Pause \/ Resume \/ Halt

---------------------------------------------------------------------------
(* Workers.  External: the spawner that reacts to phase_started and writes *)
(* the outcome is not in the repository (conductor.py:359-361, 369-370).   *)

WorkerStart(j) ==
    /\ started[j] > 0
    /\ worker[j] = "none"
    /\ worker' = [worker EXCEPT ![j] = "alive"]
    /\ UNCHANGED <<iter, status, left, started, tickVars, cancel, runVars, crashes>>

\* UPDATE phase_jobs SET status = outcome WHERE id = j
WorkerEnds(j) ==
    /\ worker[j] = "alive"
    /\ worker' = [worker EXCEPT ![j] = "exited"]
    /\ \E outcome \in {"completed", "failed"} :
          status' = [status EXCEPT ![j] = outcome]
    /\ UNCHANGED <<iter, left, started, tickVars, cancel, runVars, crashes>>

WorkerDies(j) ==
    /\ worker[j] = "alive"
    /\ worker' = [worker EXCEPT ![j] = "exited"]
    /\ UNCHANGED <<iter, status, left, started, tickVars, cancel, runVars, crashes>>

Worker(j) == WorkerStart(j) \/ WorkerEnds(j) \/ WorkerDies(j)

---------------------------------------------------------------------------
(* The tick, from its reading of the run row on.                           *)

Goto(c, place) == pc' = [pc EXCEPT ![c] = place]

\* A tick begun while the run is running may be overtaken by one pause: it
\* is allowed one claim after that.  Any other tick is allowed none.
NoteBegin(c) == credit' = [credit EXCEPT ![c] = IF run = "running" THEN 1 ELSE 0]

\* SELECT * FROM runs: anything but 'running' ends the tick.  The status is
\* not looked at again before the next tick.
BeginAnyway(c) ==   \* the status check forgotten
    /\ pc[c] = "idle"
    /\ Goto(c, "reap")
    /\ NoteBegin(c)
    /\ UNCHANGED <<run, iter, status, left, started, worker, overdue, picked,
                   latest, cancel, crashes>>

Begin(c) ==
    /\ pc[c] = "idle"
    /\ run = "running"
    /\ Goto(c, "reap")
    /\ NoteBegin(c)
    /\ UNCHANGED <<run, iter, status, left, started, worker, overdue, picked,
                   latest, cancel, crashes>>

\* status = 'running' AND lease_expires_at < cutoff; the cutoff is Grace
\* before a clock reading that is s ticks old.
NoGrace(j, s) == status[j] = "running" /\ left[j] < -s
Forever(j, s) == FALSE       \* no job is ever overdue
Overdue(j, s) == status[j] = "running" /\ left[j] < -(Grace + s)

\* reap_stale_phase_jobs, the SELECT.
ReapSelect(c) ==
    /\ pc[c] = "reap"
    /\ \E s \in 0 .. Stall :
          overdue' = [overdue EXCEPT ![c] = {j \in Job : Overdue(j, s)}]
    /\ Goto(c, "reaping")
    /\ UNCHANGED <<iter, status, left, started, worker, picked, latest,
                   cancel, runVars, crashes>>

\* reap_stale_phase_jobs, one row: kill_window, then UPDATE ... WHERE id.
\* The status is not compared again.  Whether the kill hits the worker is
\* open: its errors are ignored, and slot_name ("slot_10") is no window of
\* tmux_manager's layout.
Reap(c, j) ==
    /\ pc[c] = "reaping"
    /\ j \in overdue[c]
    /\ status' = [status EXCEPT ![j] = "orphaned"]
    /\ \/ UNCHANGED worker
       \/ /\ worker[j] = "alive"
          /\ worker' = [worker EXCEPT ![j] = "exited"]
    /\ overdue' = [overdue EXCEPT ![c] = @ \ {j}]
    /\ UNCHANGED <<iter, left, started, pc, picked, latest, cancel, runVars, crashes>>

\* claim_next_phase_job, the SELECT: ids are random UUIDs, so the first by
\* id is any queued job of the run, of whatever iteration and phase.
ClaimSelect(c) ==
    /\ pc[c] = "reaping"
    /\ overdue[c] = {}
    /\ \/ /\ \E j \in Job : /\ status[j] = "queued"
                            /\ picked' = [picked EXCEPT ![c] = j]
          /\ Goto(c, "claim")
       \/ /\ \A j \in Job : status[j] # "queued"
          /\ Goto(c, "latest")
          /\ UNCHANGED picked
    /\ UNCHANGED <<iter, status, left, started, worker, overdue, latest,
                   cancel, runVars, crashes>>

\* claim_next_phase_job, cas_update: ... WHERE id = :id AND status = 'queued'.
\* rowcount 0: no job this tick.
BlindUpdate(j) == TRUE       \* the WHERE clause without the status
CasHits(j) == status[j] = "queued"

\* now_us() + LOCK_LEASE_SECONDS, with the clock read s ticks earlier.
LeaseAndGrace(s) == Lease + Grace - s   \* the reaper's grace added to it
JobLease(s) == Lease - s

ClaimCas(c) ==
    /\ pc[c] = "claim"
    /\ IF CasHits(picked[c])
       THEN /\ status' = [status EXCEPT ![picked[c]] = "running"]
            /\ \E s \in 0 .. Stall :
                  left' = [left EXCEPT ![picked[c]] = JobLease(s)]
            /\ credit' = IF run = "running" THEN credit
                         ELSE [credit EXCEPT ![c] = @ - 1]
            /\ Goto(c, "claimed")
            /\ UNCHANGED picked
       ELSE /\ Goto(c, "latest")
            /\ picked' = [picked EXCEPT ![c] = None]
            /\ UNCHANGED <<status, left, credit>>
    /\ UNCHANGED <<run, iter, started, worker, overdue, latest, cancel, crashes>>

\* emit_event phase_claimed and phase_started.
EmitStarted(c) ==
    /\ pc[c] = "claimed"
    /\ started' = [started EXCEPT ![picked[c]] = @ + 1]
    /\ picked' = [picked EXCEPT ![c] = None]
    /\ Goto(c, "latest")
    /\ UNCHANGED <<iter, status, left, worker, overdue, latest, cancel,
                   runVars, crashes>>

\* _try_promote_latest_iter, SELECT the iteration of the highest index.
Latest(i) ==
    /\ iter[i] # "absent"
    /\ \A k \in Iteration : iter[k] # "absent" => k =< i

LatestSelect(c) ==
    /\ pc[c] = "latest"
    /\ \/ /\ \E i \in Iteration : /\ Latest(i)
                                  /\ latest' = [latest EXCEPT ![c] = i]
          /\ Goto(c, "jobs")
       \/ /\ \A i \in Iteration : iter[i] = "absent"
          /\ Goto(c, "idle")
          /\ UNCHANGED latest
    /\ UNCHANGED <<iter, status, left, started, worker, overdue, picked,
                   cancel, runVars, crashes>>

\* The SELECT of its jobs: every row there is has ended, and there is a
\* reviewer row, completed.  Rows not inserted yet are not missed.
AllEnded(i) ==
    \A p \in Phase : status[<<i, p>>] # "absent" => status[<<i, p>>] \in Final

JobsSelect(c) ==
    /\ pc[c] = "jobs"
    /\ IF AllEnded(latest[c]) /\ status[Reviewer(latest[c])] = "completed"
       THEN Goto(c, "promote") /\ UNCHANGED latest
       ELSE Goto(c, "idle") /\ latest' = [latest EXCEPT ![c] = None]
    /\ UNCHANGED <<iter, status, left, started, worker, overdue, picked,
                   cancel, runVars, crashes>>

\* What follows touches no phase job.  Without a KEEP evaluation, or without
\* the promotion lock, tick returns; otherwise building the arguments of
\* run_all_gates raises NameError ("run", conductor.py:456) and the process
\* ends.
Promote(c) ==
    /\ pc[c] = "promote"
    /\ \E place \in {"idle", "down"} : Goto(c, place)
    /\ latest' = [latest EXCEPT ![c] = None]
    /\ UNCHANGED <<iter, status, left, started, worker, overdue, picked,
                   cancel, runVars, crashes>>

Forget(c) ==
    /\ overdue' = [overdue EXCEPT ![c] = {}]
    /\ picked' = [picked EXCEPT ![c] = None]
    /\ latest' = [latest EXCEPT ![c] = None]

Crash(c) ==
    /\ pc[c] # "down"
    /\ crashes < MaxCrashes
    /\ crashes' = crashes + 1
    /\ Goto(c, "down")
    /\ Forget(c)
    /\ UNCHANGED <<iter, status, left, started, worker, cancel, runVars>>

\* The operator starts `ar724 conductor --run-id ...` again.  Nobody else
\* does: launchd's KeepAlive starts one for the run id "auto", which reads no
\* row of runs and never gets this far, and `up` starts none.
Restart(c) ==
    /\ pc[c] = "down"
    /\ Goto(c, "idle")
    /\ UNCHANGED <<iter, status, left, started, worker, overdue, picked,
                   latest, cancel, runVars, crashes>>

GoOn(c) ==
    \/ ReapSelect(c) \/ (\E j \in Job : Reap(c, j))
    \/ ClaimSelect(c) \/ ClaimCas(c) \/ EmitStarted(c)
    \/ LatestSelect(c) \/ JobsSelect(c) \/ Promote(c)

Tick(c) == Begin(c) \/ GoOn(c)

Clock ==
    /\ \E j \in Job : status[j] = "running" /\ left[j] > Floor
    /\ left' = [j \in Job |-> IF status[j] = "running" /\ left[j] > Floor
                              THEN left[j] - 1 ELSE left[j]]
    /\ UNCHANGED <<iter, status, started, worker, tickVars, cancel, runVars, crashes>>

Next ==
    \/ Clock
    \/ Operator
    \/ \E j \in Job : Worker(j)
    \/ \E c \in Conductor : Tick(c) \/ Crash(c) \/ Restart(c)

Spec == Init /\ [][Next]_vars

(***************************************************************************)
(* Fairness.  Time passes, and a tick that has got past its reading of the *)
(* run row goes on, statement by statement, unless the process dies.       *)
(* Nothing is assumed of how ticks begin: that is up to the controller     *)
(* lock, which a conductor of another run may hold for ever, and to the    *)
(* operator, the only one to start a conductor of the run again.  Nor do   *)
(* operators and workers have to do anything at all.                       *)
(***************************************************************************)
Fairness ==
    /\ WF_vars(Clock)
    /\ \A c \in Conductor : WF_vars(GoOn(c))

FairSpec == Spec /\ Fairness

---------------------------------------------------------------------------
(* Properties.                                                             *)

Stage(j) == IF status[j] \in Final THEN "final" ELSE status[j]

\* The table keeps the promises of JobLifecycle, with any number of
\* conductors in their ticks at once: one claim and one phase_started per
\* job, and no way back from an end state.  That is what the code does, also
\* with a job the reaper has given up on; runbook 07 has that one queued
\* again, see OrphansAreRetried.  (conductor.py:138-174, 276-316, db.py:321)
Lifecycle == INSTANCE JobLifecycle
                 WITH stage <- [j \in Job |-> Stage(j)], starts <- started
LifecycleKept == Lifecycle!Spec

\* A conductor about to run the promotion pipeline for an iteration does so
\* with all the phases of it enqueued and ended, although the check looks
\* only at the rows there are and enqueue_phase_jobs inserts them one by one:
\* the reviewer's row is the last to go in.  (conductor.py:250-273, 402-418)
PromotionSeesWholeIteration ==
    \A c \in Conductor : pc[c] = "promote" =>
        \A p \in Phase : status[<<latest[c], p>>] \in Final

\* A job is called orphaned only when its lease is over by more than the
\* reaper's grace, whichever reading, and however late, decided it.
\* (conductor.py:138-174)
OrphanedOnlyAfterGrace ==
    \A j \in Job : status[j] = "orphaned" => left[j] < -Grace

\* A pause or a halt is late by one job: a tick that had read 'running' claims
\* at most one job after the run stopped, and a tick that begins while the
\* run is not running claims none.  (conductor.py:343-346)
FewLateClaims == \A c \in Conductor : credit[c] >= 0

\* As long as some conductor of the run keeps getting into its ticks, every
\* job that is enqueued ends, with workers that hang or die and conductors
\* that crash: somebody claims it, and the reaper gives up on it when nobody
\* else ends it.  (conductor.py:331-378)
Ticking == \E c \in Conductor : []<>(pc[c] = "reap")

EveryJobEnds ==
    Ticking => \A j \in Job : [](status[j] = "queued" => <>(status[j] \in Final))

\* What runbook 07 says of the reaper: a job it has given up on is queued
\* again for a retry, if the run is still worked on and its iteration is not
\* cancelled.  No statement does that.  (conductor.py:163-166)
OrphansAreRetried ==
    Ticking => \A j \in Job :
        [](status[j] = "orphaned" =>
               <>(status[j] = "queued" \/ iter[j[1]] = "cancelled"))
=============================================================================
