---------------------------- MODULE RunLifecycle ----------------------------
(***************************************************************************)
(* The commands that make, pause and end runs (ar724/cli.py: up, down,     *)
(* pause, resume, halt, iter next), the life of the conductor processes    *)
(* they signal, and the cron tick that looks for stuck runs.               *)
(*                                                                         *)
(* Every command runs in a shell of its own; one SQL statement, one file   *)
(* access, one signal is one step, and an operator may interrupt a command *)
(* between two of them.  What a conductor does in its ticks is left to     *)
(* ControllerLock and PhaseJobs, but for the lease it renews, which is what *)
(* the cron tick looks at; an acquisition is one step here.  The clock and *)
(* left are those of ControllerLock.                                       *)
(***************************************************************************)
EXTENDS Integers

CONSTANTS
    Shell,      \* command lines the operator has open
    Run,        \* ids create_run may make
    AutoId,       \* the literal run id "auto" of the launchd job
    Pid,        \* conductor processes; none comes back
    WorksFor,   \* the --run-id of each of them
    None,
    MaxIndex,   \* bound: iterations."index"
    Lease,      \* LOCK_LEASE_SECONDS, in clock ticks
    Stall       \* bound: age of a clock reading when its statement runs

ASSUME RunLifecycleAssumption ==
    /\ WorksFor \in [Pid -> Run \cup {AutoId}]
    /\ AutoId \notin Run
    /\ None \notin Run \cup {AutoId} \cup Pid
    /\ MaxIndex \in Nat \ {0}
    /\ Lease \in Nat \ {0}
    /\ Stall \in Nat

VARIABLES
    status,    \* runs.status
    rows,      \* how many iterations rows there are of each run and index
    shell,     \* the command in each shell: where it is and what it has read
    proc,      \* conductor processes
    pidfile,   \* .ares/conductor.pid
    holder,    \* run of the controller lock's holder_id, None without a row
    left,      \* its lease_expires_at minus the clock
    stuck,     \* runs the cron tick has yet to look at
    breaker,   \* .ares/.circuit-breaker, and who wrote it
    ups        \* history: has one `up` begun before another start was over?

runVars == <<status, rows>>
procVars == <<proc, pidfile>>
lockVars == <<holder, left>>
cronVars == <<stuck, breaker>>
vars == <<status, rows, shell, proc, pidfile, holder, left, stuck, breaker, ups>>

Index == 1 .. MaxIndex
Floor == -(Stall + 1)

At == {"prompt",     \* no command running
       "create",     \* up: no running run found
       "start",      \* up: the run is 'created'
       "iterate",    \* up, iter next: about to INSERT the iteration
       "max",        \* iter next: picked the run
       "halt",       \* halt: the breaker is written
       "pid",        \* halt, down: about to read the pid file
       "kill"}       \* halt, down: about to signal the process it names

\* What a shell remembers of its command.
Doing(place, r, n) == [at |-> place, run |-> r, index |-> n, pid |-> None]
Prompt == Doing("prompt", None, 0)

Process == [at : At, run : Run \cup {None}, index : 0 .. MaxIndex, pid : Pid \cup {None}]

DatabaseOK ==
    /\ status \in [Run -> {"absent", "created", "running", "paused", "failed"}]
    /\ rows \in [Run \X Index -> Nat]
    /\ holder \in Run \cup {AutoId, None}
    /\ left \in Floor .. Lease

SystemOK ==
    /\ proc \in [Pid -> {"unborn", "up", "stopping", "gone"}]
    /\ pidfile \in Pid \cup {None}
    /\ stuck \in SUBSET Run
    /\ breaker \in {"absent", "halt", "cron"}
    /\ ups \in {"apart", "overlapped"}

TypeOK == shell \in [Shell -> Process] /\ DatabaseOK /\ SystemOK

\* `ar724 init` has been run: an empty database.
Init ==
    /\ status = [r \in Run |-> "absent"]
    /\ rows = [k \in Run \X Index |-> 0]
    /\ shell = [s \in Shell |-> Prompt]
    /\ proc = [p \in Pid |-> "unborn"]
    /\ pidfile = None
    /\ holder = None
    /\ left = Floor
    /\ stuck = {}
    /\ breaker = "absent"
    /\ ups = "apart"

---------------------------------------------------------------------------
(* Commands.                                                               *)

Now(s, what) == shell' = [shell EXCEPT ![s] = what]
Then(s, place) == Now(s, Doing(place, None, 0))

Starting(s) == shell[s].at \in {"create", "start"}

\* up, SELECT a running run: with one there, print its id and return.
UpBlindly(s) ==      \* without looking for a running run
    /\ shell[s].at = "prompt"
    /\ Then(s, "create")
    /\ ups' = IF \E t \in Shell : Starting(t) THEN "overlapped" ELSE ups
    /\ UNCHANGED <<runVars, procVars, lockVars, cronVars>>

Up(s) ==
    /\ shell[s].at = "prompt"
    /\ \A r \in Run : status[r] # "running"
    /\ Then(s, "create")
    /\ ups' = IF \/ \E t \in Shell : Starting(t)
                 \/ \E r \in Run : status[r] = "paused"
              THEN "overlapped" ELSE ups
    /\ UNCHANGED <<runVars, procVars, lockVars, cronVars>>

\* create_run
UpCreate(s) ==
    /\ shell[s].at = "create"
    /\ \E r \in Run :
          /\ status[r] = "absent"
          /\ status' = [status EXCEPT ![r] = "created"]
          /\ Now(s, Doing("start", r, 0))
    /\ UNCHANGED <<rows, procVars, lockVars, cronVars, ups>>

\* start_run; create_iteration gets index 1.
UpStart(s) ==
    /\ shell[s].at = "start"
    /\ status' = [status EXCEPT ![shell[s].run] = "running"]
    /\ Now(s, Doing("iterate", shell[s].run, 1))
    /\ UNCHANGED <<rows, procVars, lockVars, cronVars, ups>>

\* iter next: SELECT some running run; SELECT MAX("index") of its iterations.
IterNext(s) ==
    /\ shell[s].at = "prompt"
    /\ \E r \in Run : /\ status[r] = "running"
                      /\ Now(s, Doing("max", r, 0))
    /\ UNCHANGED <<runVars, procVars, lockVars, cronVars, ups>>

\* n = MAX("index") + 1, with 0 for no row.
FromTwo(r, n) ==   \* 1 for no row
    /\ n > 1
    /\ n > 2 => rows[<<r, n - 1>>] > 0
    /\ \A i \in Index : i >= n => rows[<<r, i>>] = 0
MaxPlusOne(r, n) ==
    /\ n > 1 => rows[<<r, n - 1>>] > 0
    /\ \A i \in Index : i >= n => rows[<<r, i>>] = 0

IterMax(s) ==
    /\ shell[s].at = "max"
    /\ \E n \in Index :
          /\ MaxPlusOne(shell[s].run, n)
          /\ Now(s, Doing("iterate", shell[s].run, n))
    /\ UNCHANGED <<runVars, procVars, lockVars, cronVars, ups>>

\* create_iteration.  Its phase jobs are the business of PhaseJobs.
Iterate(s) ==
    /\ shell[s].at = "iterate"
    /\ rows' = [rows EXCEPT ![<<shell[s].run, shell[s].index>>] = @ + 1]
    /\ Now(s, Prompt)
    /\ UNCHANGED <<status, procVars, lockVars, cronVars, ups>>

Pause(s) ==
    /\ shell[s].at = "prompt"
    /\ status' = [r \in Run |-> IF status[r] = "running" THEN "paused" ELSE status[r]]
    /\ UNCHANGED <<rows, shell, procVars, lockVars, cronVars, ups>>

Resume(s) ==
    /\ shell[s].at = "prompt"
    /\ status' = [r \in Run |-> IF status[r] = "paused" THEN "running" ELSE status[r]]
    /\ UNCHANGED <<rows, shell, procVars, lockVars, cronVars, ups>>

\* halt --force: the breaker file, the UPDATE of the running runs, then the
\* pid file and the signal.
Halt(s) ==
    /\ shell[s].at = "prompt"
    /\ breaker' = "halt"
    /\ Then(s, "halt")
    /\ UNCHANGED <<runVars, procVars, lockVars, stuck, ups>>

HaltRuns(s) ==
    /\ shell[s].at = "halt"
    /\ status' = [r \in Run |-> IF status[r] = "running" THEN "failed" ELSE status[r]]
    /\ Then(s, "pid")
    /\ UNCHANGED <<rows, procVars, lockVars, cronVars, ups>>

\* down, from its pid file on.  It touches no run.
Down(s) ==
    /\ shell[s].at = "prompt"
    /\ Then(s, "pid")
    /\ UNCHANGED <<runVars, procVars, lockVars, cronVars, ups>>

ReadPid(s) ==
    /\ shell[s].at = "pid"
    /\ IF pidfile = None
       THEN Now(s, Prompt)
       ELSE Now(s, [Doing("kill", None, 0) EXCEPT !.pid = pidfile])
    /\ UNCHANGED <<runVars, procVars, lockVars, cronVars, ups>>

\* os.kill(pid, SIGTERM).  The handler makes the loop end after this tick; a
\* process that is gone raises ProcessLookupError, which is passed over.
Kill(s) ==
    /\ shell[s].at = "kill"
    /\ proc' = [proc EXCEPT ![shell[s].pid] = IF @ = "up" THEN "stopping" ELSE @]
    /\ Now(s, Prompt)
    /\ UNCHANGED <<runVars, pidfile, lockVars, cronVars, ups>>

\* The command is interrupted.
Interrupt(s) ==
    /\ shell[s].at # "prompt"
    /\ Now(s, Prompt)
    /\ UNCHANGED <<runVars, procVars, lockVars, cronVars, ups>>

\* rm .ares/.circuit-breaker (runbook 00).
Clear ==
    /\ breaker # "absent"
    /\ breaker' = "absent"
    /\ UNCHANGED <<runVars, shell, procVars, lockVars, stuck, ups>>

Command(s) ==
    \/ Up(s) \/ UpCreate(s) \/ UpStart(s) \/ IterNext(s) \/ IterMax(s) \/ Iterate(s)
    \/ Pause(s) \/ Resume(s) \/ Halt(s) \/ HaltRuns(s) \/ Down(s)
    \/ ReadPid(s) \/ Kill(s) \/ Interrupt(s)

---------------------------------------------------------------------------
(* Conductor processes and the cron tick.                                  *)

\* existing["lease_expires_at"] < now, with now read s ticks earlier.
Expired(s) == left < -s

\* lease = now + LOCK_LEASE_SECONDS, computed s ticks earlier.
LeaseExtended(s) == left + Lease   \* counted from the lease, not the clock
LeaseFrom(s) == Lease - s

\* `ar724 conductor`, from launchd or an operator, writes its pid file over
\* that of any other.
Start(p) ==
    /\ proc[p] = "unborn"
    /\ proc' = [proc EXCEPT ![p] = "up"]
    /\ pidfile' = p
    /\ UNCHANGED <<runVars, shell, lockVars, cronVars, ups>>

\* A tick that gets the controller lock, or has it, renews the lease; only
\* then does it look for its run's row, which "auto" has none of.
Tick(p) ==
    /\ proc[p] \in {"up", "stopping"}
    /\ \E s \in 0 .. Stall :
          /\ holder \in {None, WorksFor[p]} \/ Expired(s)
          /\ left' = LeaseFrom(s)
    /\ holder' = WorksFor[p]
    /\ UNCHANGED <<runVars, shell, procVars, cronVars, ups>>

\* The loop ends after SIGTERM, or the process dies.  Nobody removes the
\* pid file, and the lock row stays.  launchd starts a new one or does not.
Exit(p) ==
    /\ proc[p] \in {"up", "stopping"}
    /\ proc' = [proc EXCEPT ![p] = "gone"]
    /\ UNCHANGED <<runVars, shell, pidfile, lockVars, cronVars, ups>>

\* cron_tick, the first SELECT.  Its NOT IN compares run ids with holder
\* ids, which begin with "controller:": every running run is listed.
CronSelect ==
    /\ stuck = {}
    /\ stuck' = {r \in Run : status[r] = "running"}
    /\ UNCHANGED <<runVars, shell, procVars, lockVars, breaker, ups>>

\* One run of the list: the lock row is missing or has expired.
GoneIfExpired(s) == holder # None /\ Expired(s)    \* a missing row overlooked
Gone(s) == holder = None \/ Expired(s)

CronCheck(r) ==
    /\ r \in stuck
    /\ \E s \in 0 .. Stall : breaker' = IF Gone(s) THEN "cron" ELSE breaker
    /\ stuck' = stuck \ {r}
    /\ UNCHANGED <<runVars, shell, procVars, lockVars, ups>>

Cron == CronSelect \/ \E r \in Run : CronCheck(r)

Clock ==
    /\ holder # None
    /\ left > Floor
    /\ left' = left - 1
    /\ UNCHANGED <<runVars, shell, procVars, holder, cronVars, ups>>

Next ==
    \/ \E s \in Shell : Command(s)
    \/ \E p \in Pid : Start(p) \/ Tick(p) \/ Exit(p)
    \/ Clear \/ Cron \/ Clock

Spec == Init /\ [][Next]_vars

\* Time passes and cron runs its tick every minute (ares-up.sh installs it).
\* Nothing is assumed of operators and conductors.
Fairness == WF_vars(Clock) /\ WF_vars(Cron)

FairSpec == Spec /\ Fairness

---------------------------------------------------------------------------
(* Properties.                                                             *)

\* Iterations of a run are numbered without gaps, whatever commands race to
\* number them, twins included.  (cli.py:471, 575-579)
IndexesHaveNoGaps ==
    \A r \in Run, i \in Index :
        rows[<<r, i>>] > 0 /\ i > 1 => rows[<<r, i - 1>>] > 0

\* `up` keeps runs apart: two are running only after one `up` has begun
\* while another was under way or a run was paused, however pause, resume,
\* halt and interrupted commands mix.  (cli.py:468-473, 498-549)
OneRunUnlessUpsOverlap ==
    ups = "apart" =>
        \A q, r \in Run : status[q] = "running" /\ status[r] = "running" => q = r

\* A run that stays running with no conductor process at all is reported by
\* cron again and again, as often as the operator removes the file.
\* (cli.py:951-978)
DeadControllerIsReported ==
    \A r \in Run :
        <>[](status[r] = "running" /\ \A p \in Pid : proc[p] \in {"unborn", "gone"})
            => []<>(breaker = "cron")
=============================================================================
