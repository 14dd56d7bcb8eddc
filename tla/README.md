# ar724 in TLA+

`ar724` (the package `src/ar724/`) is an autoresearch loop that is meant to run
unattended for weeks: every iteration hands five jobs to agent workers, an evaluator
measures what they produced, and a winner is committed to `best/` in git. One SQLite
database, a few files under `.ares/`, the git work tree and POSIX signals are all that
its processes share. Nothing in it runs in one thread only: conductors (launchd's and an
operator's) tick side by side, workers report on their own, operators type commands,
cron looks in every minute, and any of them may die at any statement.

These modules model that program statement by statement where several processes meet,
check the models with TLC on small instances, and prove the main safety properties with
TLAPS for instances of any size. File and line references are to `src/`.

## 1. Inventory

| component | code | state | operations |
|---|---|---|---|
| controller lock | `ar724/conductor.py:46-91` | `service_locks` row `controller`: holder (`controller:<run>`), lease | acquire (SELECT, then INSERT or UPDATE), heartbeat (UPDATE), expiry |
| phase jobs and the tick | `conductor.py:120-378`, `db.py:110-127, 321-339` | `phase_jobs`: status, lease; `iterations`; `runs.status` | enqueue, claim (SELECT, compare-and-swap), reap (SELECT, UPDATEs), tick |
| promotion pipeline | `conductor.py:381-488`, `promotion_gate.py` | `promotions` rows, the row `promotion` of `service_locks`, `best/`, git index and HEAD, the mutable file; it reads `evaluations`, `cost_events`, role files | look for a KEEP, claim lock, ten gates, transaction (row, copy, git add, commit, rev-parse, row), release, rollback |
| run lifecycle commands | `cli.py:460-609` | `runs`, `iterations`, `.ares/conductor.pid`, `.ares/.circuit-breaker` | up, down, pause, resume, halt, iter next, iter cancel |
| conductor process | `cli.py:898-947`, `bin/*.plist` | pid file, SIGTERM/SIGHUP flags | loop; KeepAlive restarts the one with the run id `auto` |
| cron tick | `cli.py:950-978`, `bin/ares-cron-tick.sh` | breaker file | look for stuck runs |
| evaluator runner | `evaluator_runner.py` | run directory, `evaluations` | evaluate in a reused directory, collect outputs |
| heartbeat timer | `heartbeat.py` | thread, stop event, `last_heartbeat_at` | start, stop, beat |
| oscillation guard | `oscillation.py`, `conductor.py:97-135` | deques of what was proposed last, in process memory | observe, answer by the policy |
| role DAG | `dag.py` | none (pure) | validate, layers |
| budget and anomalies | `budget.py` | `cost_events`; deques of a detector nobody makes | record a call, sum, detect |
| tmux sessions, spawner | `tmux_manager.py`, `spawner.py` | tmux server | create, list, kill |
| configuration | `config_loader.py`, `cli.py:311-450`, `db.py:34-71` | `loop_config.json`, `safety_policy.yaml`, caches | init, goal/budget/scope/oscillation set (unlocked read-modify-write), reload |
| database wrapper | `db.py` | connections, WAL | autocommit statements, `cas_update`, snapshots |
| observability | `observability.py`, `event_types.py` | `events` | emit |
| role loader, safety checks, adapters, live callbacks | `role_loader.py`, `safety.py`, `adapters/`, `live_callbacks/` | none | pure checks, interfaces |
| read-only commands | `cli.py` (status, board, explain, costs, trace, ...) | none | queries |

How they interact. `up` makes a run, its first iteration and its jobs. A conductor's
tick takes the controller lock, returns if the run is not running, reaps overdue jobs,
claims at most one queued job and says so with a `phase_started` event, which is all the
workers get; then it looks whether the latest iteration can be promoted, and does so
under a second lock. Commands write the same tables without any lock. `halt` and `down`
signal the process named by the pid file. cron judges a run by the controller lock
alone.

What is hard, and what makes each part correct:

* **Controller lock**: the SELECT and the write are two autocommit statements, and
  expiry is judged with a clock reading made before them. Correct: processes of two runs
  are never inside at once while leases are kept; somebody always gets in.
* **Phase jobs**: two conductors (same run, or one after a lapse), workers and operators
  write one row. Correct: a job ends once and for all; nobody is declared an orphan
  early; a pause takes effect; a promotion only sees whole iterations; no job is stuck
  for ever.
* **Promotion**: seven steps over a database, a file and git, without a transaction over
  them, under a lease that can lapse. Correct: one promoter at a time, a half-done
  promotion is recognisable, one commit per iteration however often it is retried, and a
  committed row is final.
* **Run lifecycle**: every command is a read followed by a write. Correct: one run at a
  time, iteration numbers without gaps, a dead conductor is noticed.
* **Evaluator**: attempts share the directory of a candidate, every file is written in
  two steps, and a child may be killed, time out or outlive its runner. Correct: a
  decision is one that an evaluator reached for that candidate, and a candidate nobody
  edits gets its own score.
* **Configuration and oscillation guard**: every command rewrites the whole file without
  a lock; the detector forgets at a restart and its deques reach back differently far.
  Correct: nothing but an overlapping change is undone, the detector fires exactly on an
  oscillation, and the policy set last is obeyed.
* **Role DAG**: two algorithms look at one graph. Correct: a cycle is reported exactly
  when there is one, and what is accepted is layered completely.
* **Gates and budget**: each gate reads the database at its own moment, while workers
  record costs and late evaluations come in; a retry after a kill goes through all of
  them again. Correct: what is recorded had a KEEP and met the bar, a run over its
  budget is not promoted but for costs that came in too late, the recorded sum is the
  real one up to what is cut off and to the calls that no row counts, and each promotion
  has one commit. (That it gets its row in the end is not so, section 5.)
* **Heartbeat**: `stop` may give up on its thread, and the next `start` sets that one
  going again, for they share an event and a counter. Correct: otherwise there is one
  thread and no event id is used twice; in any case all threads end.
* **Snapshots**: a restore under open connections. Not modelled yet.

## 2. Modules

| module | models | proved in |
|---|---|---|
| `ControllerLock` | the controller lock and the loop around it | `ControllerLockProofs` |
| `JobLifecycle` | what the job table promises (abstract) | |
| `PhaseJobs` | enqueue, claim, reap, cancel, pause, the tick; implements `JobLifecycle` | `PhaseJobsProofs` |
| `Promotion` | promotion lock, transaction, rollback; implements `PromotionLedger` with one promoter | `PipelineProofs`, part I |
| `PromotionLedger` | what "idempotent promotion transaction" promises (abstract) | |
| `Budget` | recorded costs and the check of them | `PipelineProofs`, part II |
| `Pipeline` | from the KEEP through the gates to the end of the transaction: `Promotion` and `Budget` composed; implements `Promotion` | `PipelineProofs`, part II |
| `Heartbeat` | the timer's threads and their owner | `HeartbeatProofs` |
| `RunLifecycle` | commands, processes, pid file, cron tick | `RunLifecycleProofs` |
| `Evaluation` | the evaluator runner, its child processes and their files | `EvaluationProofs` |
| `LoopConfig` | `loop_config.json` and the commands that write it | `GuardProofs` |
| `Oscillation` | the detector as functions, and what its answers mean | `GuardProofs` |
| `Guard` | a conductor's oscillation guard: `Oscillation` and `LoopConfig` composed | `GuardProofs` |
| `Dag` | `validate_dag` and `topological_layers` | `DagProofs` |

`MCx` instantiates `x` for TLC; its `.cfg` files are the runs. Each module starts with
its constants, their assumption and the meaning of each variable; definitions that no
action uses and that resemble a neighbour (`ExpiredOrDue` next to `Expired`) are the
seeded faults of section 4.

### Conventions shared by the modules

* **One statement, one step.** SQLite runs here in autocommit, so each `execute`,
  `fetchone`, file access, git command or signal is an action, and what a process read
  is kept in its local state until it is used.
* **Leases without a clock.** A lease is kept as `left`, the number of ticks until it
  ends; `Clock` counts it down to a floor below which all values behave alike. A
  timestamp is taken up to `Stall` ticks before the statement that uses it, because a
  statement may wait for the database lock; an expiry test with a reading `s` ticks old
  is `left < -s`, strict as in the code.
* **History variables.** Variables marked "history" in the declarations record what
  happened (a lease lapsed, a start overlapped, a claim came late) so that properties
  can speak of it. The only guards that read them are the bounds.
* **Crashes** leave tables, files and git as they are and lose the process's local
  state. A conductor of a run is started again by an operator or by nobody: the
  one that launchd's KeepAlive restarts has the run id `auto`
  (`bin/com.wdblink.ztrade-ares-7x24.plist:13-14`), which is the id of no run.
* **One process per run** (`OneProcessPerRun`) is an assumption about what operators
  start, made by the properties that name it. The controller lock does not give it: two
  processes of one run have one holder id and both pass (`conductor.py:70`).

### ControllerLock

State: `holder`, `left` (the `service_locks` row), `pc` and what each process read.
`Select`, `Insert`, `Update`, `AcquireFails` are the branches of
`acquire_controller_lock` (`conductor.py:46-79`); a failing INSERT on the unique name is
`AcquireFails`. `Beat` is `heartbeat_controller_lock`, `Return` the end of `tick`,
`Crash` a kill, `Restart` an operator or, for `auto`, launchd. Nothing ever releases the
row: the code has no such statement either.

### PhaseJobs and JobLifecycle

State: the run's status, jobs of each iteration and phase with their lease, iterations
made and cancelled, and per conductor where it is in its tick and which rows it has
selected. `Begin` reads `runs.status` (`conductor.py:343-350`); `ReapSelect`/`Reap` are
the SELECT and the per-row UPDATEs of `reap_stale_phase_jobs`;
`ClaimSelect`/`ClaimCas`/`EmitStarted` the claim; `LatestSelect`/`JobsSelect`/`Promote`
the head of `_try_promote_latest_iter`. `GoOn` is what follows `Begin` in a tick. Job
ids are random UUIDs, so "the first queued job by id" is any queued job. `iter next` and
`up` insert jobs one by one (`InsertJob`), `CancelPick`, `CancelIteration`, `CancelJobs`
are `iter cancel`. Workers are external: they start after `phase_started`, end, or die.
The history variable `credit` counts down what each tick may still claim once its run no
longer runs: one job for a tick that began before, none for one that begins later
(`NoteBegin`).

`JobLifecycle` has four actions (enqueue, claim, start, end) and says that a job moves
forward only, is claimed once, and never leaves its final status for an earlier one.
That is what the code does, with a job the reaper has given up on too; runbook 07 has
that one queued again, which `jobs_retry` refutes (section 5).
`LifecycleKept` is that specification under the refinement mapping at the end of
`PhaseJobs`.

### Promotion

State: the lock row, the promotions rows by idempotency key, `best` (content), the
index, HEAD with its commits, the mutable file, and the notes: `results.tsv` and the
iteration's report, which the same `git add` takes (`promotion_gate.py:386-392`). Of the
notes the model keeps whether the files differ from the index and the index from HEAD.
Any other file of the tree may or may not be modified whenever git looks (`Stray`, the
answers that are possible): the mutable file, which every iteration edits, is in the same
tree and no commit takes it, so that {TRUE} is the usual case.
`ClaimSelect`/`ClaimInsert`/`ClaimTake`/`ClaimFails`/`Release` are the lock,
`GatesPass`/`GatesRefuse`/`GatesRaise` the gates (gate 10 is a guard, the others a
choice, which `Pipeline` makes), then
`SelectRow`, `WriteRow`, `Copy`, `Add`, `Commit`, `GitFails`, `RevParse`, `Record` are
the statements of `perform_promotion` in their order. `Commit` makes a commit if
something is `Staged`, in `best/` or the notes; with nothing staged it goes on or raises
by what git prints, which depends on the whole tree (`CleanBut`). An iteration and an
edit write the notes, too. `Rollback` is `git revert` from the command line, which needs
nothing staged.

The conductor does not get this far today: `conductor.py:456` names a variable that does
not exist (section 5, met on the way). `Promotion` models the transaction as the
conductor calls it, in the order of `conductor.py:421-488`.

`PromotionLedger` knows contents, publications and records only: the newest evaluated
iteration of a run is published at most once (with nothing new to stage, in a clean tree,
its content may be what was published last), and
recorded with the publication that has that content. It has no lock, index, half-done
row or process. `LedgerKept` says that the log of git commits, the evaluations and the
commits named by committed rows are such a ledger; the intermediate statements, kills
and retries are stutters. It holds for one promoter and no edits or rollbacks, which is
what `pipeline` instantiates and the theorem assumes.

### Pipeline and Budget

`Pipeline` adds to `Promotion` what a conductor reads on its way to the transaction: the
`evaluations` rows (per candidate, with the latest), the recorded costs, each run's last
committed promotion, and per process the evaluation it has found, the bar and the answer
of gate 8. `Consider` is the SELECT for a KEEP (`conductor.py:412-419`), `Claim`,
`TakeLock`, `TurnedAway` the lock (421-422), `ReadBar` the best score (424-441),
`AskBudget` gate 8, `Pass` gate 10 with an empty report, `Refuse` any failure in it,
`Raise` the exceptions in between, `Transact` and `Recorded` the transaction, `Leave`
the `finally`. `EvaluateAgain` and `NextIteration` are the evaluator's jobs, `Spend` and
`NewDay` `Budget`.

What the gates ask, and how it is modelled:

| gate | asks for | here |
|---|---|---|
| 1 schema | the reviewer's schema accepts `{}`, the constant the conductor passes | a choice |
| 2 scope | no write path out of scope; the list passed is empty | always passes |
| 3, 4 hash, stale | an evaluation of the candidate exists | holds since `Consider` |
| 5 decision | it is a KEEP | holds since `Consider` |
| 6 metric | `score >= 0.9 * best` when best is above 0 | `Regresses` |
| 7 reviewer | its job is not the builder's or the evaluator's | holds by the ids |
| 8 budget | `check_budget` | `AskBudget` |
| 9 loop | two counters that nothing increments, the oscillation guard | a choice; the guard itself is `Guard` |
| 10 lock | the row names the run and its lease is not over | guard of `GatesPass` |

Scores are naturals, so that the comparison with nine tenths is exact; a candidate's
hash is that of its content, so one content has one set of evaluations; no two
evaluations of a candidate have the same second (`ORDER BY created_at` would then pick
any). Any number of processes may promote for one run. `NextIteration` is external and
comes at any time but while a process of the run has found its KEEP and not yet claimed
the lock, a step that `Promotion` does not have: the claim reads no iteration, so the
other order gives the same. `EachWinnerMeetsTheBar` takes one process per run: with two,
the bar that one has read may be that of the promotion before the other's.

`Budget`: sums per run, in whole cents, of prices in hundredths of a cent. A cost is a
sum and product of floats cut by `int()` (`budget.py:209-218, 229`), so `Cents` is a set:
the whole cents of the price, or one less when the price is a number of whole cents and
the product comes out just below it (0.29 * 100.0). Errors of more than a hundredth of a
cent in one price are not followed. `Counted` is a row with that amount, `Missed` a call
of a model without a profile, which is recorded as 0 (`budget.py:204-207`), or one whose
INSERT fails or meets its microsecond's id; `missed` remembers what these have cost.
`Midnight` is the change of the date that the daily sum looks for.

### Heartbeat

State: where the owner of the timer is, the event, `_thread`, `_beat_count`, and per
thread where it is and what it has read of the counter (`+= 1` is a reading and a
writing step), and the ids in the events file. `Start` and `Stop`/`Join` are the
methods; `Join` may give up on a thread that is alive, because a beat waits for the
database up to 30 s (`db.py:286`) and the join for two intervals of three. `Loop`,
`Add`, `Update`, `AppendEvent`, `Wait` are `_run` and `_beat`. The worker finishes with
the timer stopped, as the class's usage says (`heartbeat.py:28-34`), or is killed.

### RunLifecycle

State: `runs.status`, the number of `iterations` rows per run and index, one record per
shell (which command, where, what it read), conductor processes, the pid file, the lock
row, cron's list and the breaker file. Every command is split into its statements and
may be interrupted between them. A conductor's tick is reduced to the renewal of its
lease, since that is what cron looks at; `--run-id auto` is the literal string that the
plist passes (`bin/com.wdblink.ztrade-ares-7x24.plist`), which is the id of no run.

### Evaluation

State: the candidate's mutable file, the files of each run directory (staged input,
`metrics.json`, `run_status.json`), the attempts with the child each has started, and
the `evaluations` rows. `Stage` and `Fill` are `_write_inputs`, `Spawn` starts the
child, `Timeout`, `Returned`, `ReadStatus`, `ReadMetrics`, `RecordBlocked` are what
follows `subprocess.run` (`evaluator_runner.py:134-199`), `RunnerDies` a kill of the
runner that leaves the child alone. `Load`, `OpenMetrics`, `WriteMetrics`, `OpenStatus`,
`WriteStatus` and `ChildDies` are the script the child runs: `write_text` opens, which
empties the file, and then writes. Score and decision are functions of the content.

### LoopConfig, Oscillation and Guard

`LoopConfig`: the file, and per shell the command that is about to write it with the
dict it holds. `Set` is the reading half of the four `set` commands, `Initialise` that
of `init`; `Mkstemp`, `Fill`, `Replace` are `atomic_write`, `GivesUp` a kill or an
exception. The nested objects of the JSON count as the fields they hold, so that a
command is given some fields and rewrites them all. Two history variables remember the
value last set for each field and the fields that a command put back without having seen
their last change.

`Oscillation` has no variables: the detector is a record of deques, `Observed` and
`Triggered` are the two halves of `observe`. Beside them `Oscillates` says the same of
the whole list of candidates, by positions instead of deques. `Guard` puts a detector
into a conductor (`Attempt`, `ByPolicy`, `Unreadable`, `Restart`) beside the commands of
`LoopConfig`. A process has a detector of its own and shares nothing but the file, so
one is enough.

### Dag

State: the colours, the path of the depth-first search with the next dependency to look
at in each frame, then the queue, the in-degrees and the layers. `Root`, `LookUnknown`,
`LookGray`, `LookWhite`, `LookBlack`, `Leave` are the steps of `dfs`, one neighbour
each; `Count`, `Layer`, `Downstream`, `Finish` those of `topological_layers`. The lists
of dependencies are any lists: repeated, unknown and circular ones included.

## 3. Runs

| run | instance | checks | distinct states |
|---|---|---|---|
| `lock` | 3 processes of 2 runs, lease 3, stall 2, 2 crashes | `TypeOK`, `OneRunUntilALeaseLapses`, `TicksGoOn` | 8 k |
| `jobs` | 2 conductors, 1 iteration of 2 phases | `TypeOK`, `PromotionSeesWholeIteration`, `OrphanedOnlyAfterGrace`, `FewLateClaims`, `LifecycleKept` | 1.2 M |
| `jobs_live` | 1 conductor that may crash, 2 iterations of 1 phase | `EveryJobEnds` | 0.5 M |
| `promotion` | 2 runs, other files of the tree modified or not, two of a kill, an edit and a rollback | `TypeOK`, `OnePromoterUntilALeaseLapses`, `DirtyBestIsDeclared`, `CommittedStays` | 6.8 M |
| `pipeline` | 1 run, 2 iterations, 3 outcomes, other files modified or not, a kill, and a cost or an evaluation repeated; 3 calls at 3 prices before the first KEEP | `TypeOKAll`, `OneCommitPerKey`, `CommittedWasEvaluated`, `ShortByACentACall`, `OverBudgetOnlyByLateCosts`, `EachWinnerMeetsTheBar`, `LedgerKept` | 0.75 M |
| `heartbeat` | 3 starts, 3 beats, 2 joins given up | `TypeOK`, `LeftBehindOnlyByGivingUp`, `IdsAreUniqueUnlessGivenUp`, `ThreadsEnd` | 114 k |
| `lifecycle` | 2 shells, 2 runs, launchd's conductor, stall 1 | `TypeOK`, `IndexesHaveNoGaps`, `OneRunUnlessUpsOverlap`, `DeadControllerIsReported` | 2.2 M |
| `evaluation` | 2 attempts, 2 candidates, 3 contents | `TypeOK`, `DecisionsAreEarned`, `UntouchedIsJudgedRight` | 1.4 M |
| `guard` | 2 shells, 3 commands, a detector of window 4, 5 candidates shown | `TypeOK`, `OnlyUnseenChangesAreUndone`, `FiresIffOscillating`, `PolicySetIsPolicyObeyed` | 1.6 M |
| `dag` | every list of 3 tasks with at most 2 dependencies each | `TypeOK`, `CyclesAreFound`, `NeverShort`, `LayersAreEarliest` | 89 k |
| `jobs_retry` | 1 conductor, 1 job | `OrphansAreRetried`, which TLC refutes | section 5 |
| `evaluation_stale` | as `evaluation` | `KeepIsOfItsScore`, which TLC refutes | section 5 |

What they show:

* `lock`: two first acquisitions have one winner, a live lease is never overwritten, a
  loser's heartbeat changes nothing, and a holder's death only stops the others until
  its lease is over.
* `jobs`: with two conductors in their ticks at once (which the controller lock allows
  for processes of one run), an operator that cancels, pauses and halts, and workers
  that report at any time, the table still implements `JobLifecycle`; the promotion
  check, which only looks at the rows there are, never sees half an iteration because
  the reviewer's row is inserted last; a tick that began before a pause
  claims at most one job after it, and one that begins later claims none.
* `jobs_live`: as long as some conductor of the run keeps getting into its ticks, an
  enqueued job ends, because it is claimed and then somebody ends it or the reaper gives
  up on it, with a worker that hangs and a conductor that dies in between.
* `promotion`: until a lease lapses one promoter is inside; even when leases lapse, a
  `best/` that differs from git is announced by an unfinished row, and a committed row
  never changes.
* `pipeline`: killed at any point of two promotions, each is committed at most once, of
  what was evaluated (as long as nobody edits the file), had a KEEP, and scored at least
  nine tenths of what some evaluation gave the one before, in a clean tree and in one with
  other changes. The budget is kept but for costs recorded after gate 8, and the sums that
  gate 8 reads are short of the real ones by a cent a call and the calls that were missed.
  Commits and recorded promotions develop as in `PromotionLedger`. That a promotion whose
  commit is made gets its row is not claimed: see `StuckForGood`.
* `heartbeat`: besides the timer's own thread there are never more than the joins that
  were given up; unless one was, each event has an id of its own; and all threads end
  when the worker has stopped the timer for good.
* `lifecycle`: races of `iter next` can give one number twice but leave no gap; two runs
  are running only after starts have overlapped.
  A run left without any conductor is reported by cron as often as the operator removes
  the report.

* `evaluation`: whatever attempts overlap, time out or die in one directory, a decision
  other than BLOCKED was written by an evaluator for that very candidate, and one whose
  file is not edited gets its own decision and score.
* `guard`: commands undo of each other's changes only what was made while they held the
  file's old content; the detector's deques say what the whole list of attempts says,
  also when a parameter is missing from some; `halt` holds from the moment it is in the
  file.
* `dag`: the search finds a cycle exactly when there is one, and what it accepts is
  layered completely and each task as early as possible.

### Bounds, and why they are enough

`Stall` is 1 or more wherever the age of a clock reading matters, so that each expiry
test is made with both a current and a stale reading. Leases are short: only the order
of lease end, grace end and statement matters, and `Floor` is the first value at which
every reader, however stale, agrees that the lease is over. Two conductors, two runs or
two shells give every pairwise race; a third process is there in `lock` to have two of
one run against one of another. One iteration of two phases has a first, a last
(reviewer) and an unfinished phase. Crashes are bounded by one or two because after a
crash the tables are as they were and the process has forgotten everything: a third adds
no new situation. In `jobs` a conductor goes down where a tick itself ends its process
and is started again; crashes elsewhere are in `jobs_live`, and the theorems about what
`jobs` checks have any number of them. In `pipeline` a second evaluation, one cost of
two and a half cents against a limit of two (and one of a day of one) and two iterations
are enough to shut each gate between a kill and its retry. From the first KEEP on, each
behaviour has one of these two disturbances at most (`OneDisturbance`): they shut
different gates, and one shut gate is what matters to a retry. Until then there may be
three calls: prices below a cent, of two and a half and of 29 cents, which are recorded
as less than they are, in every order and with midnights between. The initial content of
`best/` is fixed to one of the two values, which stands for the other by symmetry, as no
action tells them apart; and the first winner has the higher of the two scores
(`FirstIsBest`): a rise is what gate 6 has nothing against. In `promotion` a behaviour
has two of the three disturbances (`TwoDisturbances`). In `lifecycle` commands of two
shells overlap while they look for runs, make them and number iterations; the rest of
`halt` and of `down`, which reads a pid file and signals, runs alone
(`OnlyRacesOverlap`, a restriction of operators, of whom no fairness is assumed). What
these runs check is proved without such bounds, except for `DeadControllerIsReported`.
Three starts give a thread that two later ones overtake. `MaxIndex` is 2, the least with
a possible gap. `MaxEdits` and `MaxRollbacks` are 1. Two attempts at candidates with one
or two directories and three contents give an edit before, between and after the
readings of an attempt. Three commands in two shells give an overlap and a command after
it; five candidates slide a window of four (the one the unit tests use) over its edge,
for candidates that differ in a value or lack a parameter. Three tasks have every cycle
up to three, diamonds, repeated and unknown dependencies. Where a bound stops the system
(a halted run), the cfg says `CHECK_DEADLOCK FALSE`.

### Fairness

* Time passes (`WF(Clock)`).
* In `lock`, a conductor that is up takes its next step: its loop ends only by SIGTERM or
  an exception (`cli.py:936-947`). One that is down may stay down.
* In `jobs_live`, a tick that has read its run row goes on, statement by statement. Of how
  ticks begin nothing is assumed: no conductor of a run is started again but by an
  operator, and the controller lock may shut it out for ever, for the `auto` conductor
  renews the lock at every tick (`conductor.py:70-77, 339`). `EveryJobEnds` therefore has
  a premise (`Ticking`): some conductor of the run gets past that reading again and again.
* A statement that can fail because the database stays locked past the busy timeout may
  fail again and again but not for ever.
* Threads are scheduled, statements end within the busy timeout, a join ends.
* cron runs its tick every minute (`bin/ares-up.sh:20-23`).
* Nothing is assumed of operators, workers and crashes.

## 4. Mutants

Each property of a passing run has a seeded fault next to the definition it replaces
(for instance `BlindUpdate` for the `AND status = 'queued'` of `cas_update`), and TLC
finds the property violated with it under the same cfg. PROJECT.json lists them.

## 5. Findings

A run that TLC refutes, with the line that says otherwise in PROJECT.json:

`evaluation_stale` (`evaluator_runner.py:141`): the run directory is never emptied; a
child that dies between its two files lets an earlier KEEP be recorded with the new
score. The theorem `StaleOnlyHalfWritten` says what it takes, for any number of attempts:
one that overlaps another at the same candidate, or a child that dies between its files
with a poor candidate scored. Without either, the property holds.

`jobs_retry` (`conductor.py:163`): the reaper sets a job it gives up on to `failed`, and
no statement queues it again; `runbooks/07-recover-orphaned-jobs.md:27-29` says that it
"requeues it for retry", with a new `phase_queued` event. TLC shows a job that stays
orphaned while conductors go on ticking.

Met on the way, in the models but without a run of their own:

* **Promotion.** An iteration with a KEEP takes the conductor down with a NameError
  (`conductor.py:456` uses `run`, which is not defined there), after each restart again,
  so that nothing is promoted. Behind it: `iter_row.get` on a `sqlite3.Row` (458), an
  empty `worker_output` that gate 1 refuses, a column `new_best_hash` that was not
  selected (476, from the second promotion of a run on). Each fails at every try, so that
  nothing gets to the transaction. With all that put right, a kill after `git commit` would still be
  repaired by the retry only if the whole work tree is clean (`promotion_gate.py:397`),
  which the edited mutable file prevents: the retry stages nothing, git does not say
  "nothing to commit", and `_git_commit` raises, however often, although the docstring at
  318-319 calls the transaction idempotent. The theorem `StuckForGood` says so. The retry
  also needs every gate to be open again, for it goes through them before it finds its
  row (`conductor.py:442-467`). What is copied to `best/` is the file as it is then
  (`promotion_gate.py:357`); nothing compares it with what was evaluated. After a lapse
  `git rev-parse HEAD` may record another run's commit.
* **Gates.** The best score joins any evaluation of the best candidate
  (`conductor.py:431-437`), so that a repeated one that is BLOCKED, with the score 0,
  switches gate 6 off. A promotion that was rolled back stays `committed`
  (`cli.py:636-671`), so the reverted candidate is still the bar. Gate 4 promises to
  compare the iteration (`promotion_gate.py:114, 253-257`), takes its id, and does not
  look at it. Nothing increments the counters of gate 9. The tick calls what
  `check_budget` returns `over_budget` (`conductor.py:350`); it is `allowed`, and
  nothing uses it.
* **Heartbeat.** `runbooks/09` looks for a blocked database or a missing timer when a
  worker that beats is reaped; the reaper looks at `lease_expires_at`
  (`conductor.py:148-152`), which no beat moves. A new timer for a job that is retried
  starts its ids again at 1. Nothing in `ar724/` makes a timer, records a cost or
  estimates one; tests do.
* **Phase jobs.** The next job is the first by random id, whatever its phase
  (`conductor.py:290`), although the roles serialize
  (`autoresearch/v2/program.md:30-31`). Jobs inserted after `iter cancel` of their
  iteration are run.
* **Oscillation.** The detector is shown the candidate of every attempt, before the
  gates and not after them as `oscillation.py:32-33` says, so an iteration that is
  refused, or was promoted and is latest, fills the window by itself. An operator's
  change of one field, overlapping `set-policy halt`, can put `warn` back.
* **Lock and lifecycle.** The UPDATE of an acquisition does not repeat the condition of
  its SELECT (`conductor.py:71`, "(CAS)" in the docstring at 53): a lease that its
  holder renews in between is taken over all the same; `ControllerLock` has it, as a
  lapse. Two processes of one run both hold the controller lock. The lock is claimed and
  renewed before the tick looks whether there is a run of that id
  (`conductor.py:339-346`), so that launchd's `auto` conductor can shut out the one of a
  run for ever. cron trips as soon as a lease is over, although it computes a cutoff of
  five minutes (`cli.py:955-957`); a conductor of another run, or launchd's own with the
  run id `auto`, hides a dead one from cron (`cli.py:967`); `pause`, `up`, `resume`
  gives two running runs; after `down` a new `up` says "already running", for `down`
  leaves the run as it is.

## 6. Proofs

All proofs are for any value of the constants under the module's assumption
(`ControllerLockAssumption`, `PhaseJobsAssumption`, `PromotionAssumption`,
`RunLifecycleAssumption`, `EvaluationAssumption`, `LoopConfigAssumption`,
`OscillationAssumption`, `GuardAssumption`, `DagAssumption`, `PipelineAssumption`,
`HeartbeatAssumption`): numbers are naturals, leases positive where that matters, `None`
is none of the ids, each process works for one run.

* `ControllerLockProofs`: `TypeCorrect`, `MutualExclusionOfRuns`. The invariant says
  nothing of the row or of a process about to UPDATE, so `IInv` adds: until a lapse, the
  lease is not over and every process that may write works for the run in the row.
  `LockStaysWithItsRun`: until a lapse no step gives the row to another holder.
  `LocksRunOut`: only a process inside its tick gets the row or prolongs its lease, and
  once the lease is over for every reading no SELECT turns a process away.
* `PhaseJobsProofs`: `TypeCorrect`; `LifecycleImplemented`, every step of `PhaseJobs` is
  a step of `JobLifecycle` or a stutter, which needs that a job is claimed by one
  conductor at a time and not started before (`ClaimInv`) and that overdue rows have
  been claimed (`BegunStays`); `OrphansAreOverdue`; `LeasesRunOut` (nobody extends the
  lease of a job that was begun, and each tick of the clock lowers it until every
  reading finds it overdue); `LateClaimsAreFew`; `PromotionIsOfWholeIterations`.
* `PipelineProofs`, part I, about `Promotion`: `TypeCorrect`; `OnePromoter` with
  `LockInv` (as for the controller lock, with the row's deletion); `CommittedIsFinal`
  with `RowInv` (a process past its SELECT has a row that is not committed);
  `DirtyIsDeclared` with `DirtyInv` (which process and which row account for a
  difference between file, index and HEAD); `OneCommit` and `EvaluatedIsCommitted` with
  `SoloInv`, about a promoter that is alone in the tree: where it is says which content
  `best/`, the index and HEAD have and where the notes are, and once a commit of its
  promotion is in the log HEAD has the file's content already, so that git finds nothing
  to commit. `LedgerImplemented` takes such a promoter, edits and rollbacks aside,
  through `PromotionLedger`, step by step: `Commit` publishes, `Record` records,
  `Iterate` evaluates, all else stutters (`CurrentIsEvaluated`: the content at work is
  the newest that was evaluated). `StuckForGood`: in a tree that always has other
  changes, such a promoter never records a promotion whose commit an attempt before it
  made (a retry finds nothing staged, and only `Commit` and `RevParse` lead on). Three
  theorems say what a retry has to go by, for any number of processes, lapses and
  reverts: `UnrecordedUntilCommitted` (a commit made and a row unfinished stay so until
  the row says committed), `CommittedRowsNameCommits` (what a row names is below HEAD,
  from `ShasAreOfCommits` and `LogGrows`) and `AttemptsGoForward` (every step of an
  attempt is one towards its end, and it returns only with the row committed, by its own
  hand or another's).
* `PipelineProofs`, part II, about `Pipeline`: `PipelineImplementsPromotion` (each step
  of `Pipeline` is one of `Promotion` or leaves its variables alone), which carries over
  what part I proves: `PipelineKeepsLedger`; `PipelineTypeCorrect`; `SumsAreClose`,
  about `Budget` for any prices, roundings, missed calls and days (`CutCents`: what one
  price is cut to), and `PipelineSumsAreClose`, which is that for what gate 8 reads
  (`PipelineSpends`: a pipeline changes the sums as `Budget` does or not at all);
  `BudgetIsKept` with `BudgetInv` (what gate 8 said still holds or is marked late, from
  then to the end of the transaction); `WinnersMeetTheBar` with `WinnerInv` (the KEEP
  and the bar that a process has read are among rows that are never deleted, and, with
  one process per run, the run's last committed promotion does not change while that
  process is between its bar and its row).
* `HeartbeatProofs`: `TypeCorrect`; `LeftBehindAreFew` (a start makes a thread only when
  the one before is dead or was given up); `IdsAreUnique` with `SoleInv` (until a
  join is given up, the counter is what a thread has read of it, and above every id in
  the file once the beat has counted); `ThreadsDoNotGoOn`: once the worker is done the
  event is set, and every step of a thread is one towards its end.
* `RunLifecycleProofs`: `TypeCorrect`; `Numbered` with `HasRead` (the number a shell is
  about to insert follows one that exists); `OneRun` with the invariant that a shell
  that is starting, or an open run, is alone; `NumberedOnce`, for commands that do not
  overlap: no two iterations of a run have one number (`TwinInv`: what a command is
  about to insert, nobody has). `DeadLeaseIsSeen`: with no conductor process the lease
  is left alone, and once it is over for every reading cron's look at a run reports it.
* `EvaluationProofs`: `TypeCorrect`; `Earned` with `Sourced` (what a status file says,
  or an attempt has read of one, an evaluator has written for that candidate);
  `Deterministic` with `Faithful` (everything in the directory of an unedited candidate,
  and everything read there, is torn or about its one content). Both rest on `Reading`:
  files once found are only emptied, and metrics are only written of a candidate that
  can be scored. `StaleOnlyHalfWritten` is the counterpart of the finding (section 5).
  Its invariant `Matched` says what a status file that says KEEP lies beside: the
  metrics it was decided on, torn ones, or those of a child about to write its own.
* `GuardProofs`: `TypeCorrect`; `OnlyUnseen` with `HasSeen` (what a command holds of a
  field it was not given is what the file says, unless somebody has set it since);
  `PolicyObeyed` from it; `SetIsKept` and `PolicyObeyedApart`, the same without any
  exception for commands that do not overlap. `Detects` needs that each deque follows
  the list of attempts (`Follows`: an increasing map from its entries to positions,
  closed upwards and complete while the deque is not full), from which its entries are
  those at the `Window` latest positions.
* `DagProofs`: `TypeCorrect`; `CyclesFound` (the gray nodes are the path, each waiting
  for the next; black nodes only lead to black ones, so no cycle is black);
  `TheTwoAgree` and `Earliest` (an in-degree is the number of dependency entries not yet
  taken off, the queue is what is ready, and as many tasks are placed as there are in
  layers, so that a rest would hold a cycle); `EveryStepGoesOn`: every step shrinks, in
  this order, the white tasks, the edges not yet looked at or the path, and then the
  tasks in no layer or the edges of the layer at hand, so that both loops end.

The hypotheses of the conditional theorems are states and behaviours the system has:
`Alone` is one conductor in the tree, which operators start, and `FALSE \notin Stray` a
tree with other changes, the usual one; `Apart` and `CommandsApart` are
commands, or attempts at a candidate, one at a time, and TLC refutes the conclusions
without them (`Unbroken`, in `EvaluationProofs`, likewise).

Only model-checked: `TicksGoOn`, `EveryJobEnds`, `DeadControllerIsReported` and
`ThreadsEnd`. Liveness under fairness is out of this prover's reach; the safety half of
each is proved (`LocksRunOut` of `TicksGoOn`, `LeasesRunOut` of `EveryJobEnds`,
`DeadLeaseIsSeen` of `DeadControllerIsReported`, `ThreadsDoNotGoOn` of `ThreadsEnd`):
what has to happen is never undone and never out of reach. That it does happen rests on
the fairness and on TLC. Every safety property of a passing run is stated by a theorem.

## 7. Plan, and what is not modelled

In order of importance:

1. *done* `ControllerLock`, `PhaseJobs` with `JobLifecycle`, `Promotion`,
   `RunLifecycle`, and their proofs.
2. *done* `Evaluation`, `Dag`, and `Guard` with `LoopConfig` and `Oscillation`, and
   their proofs.
3. *done* `Pipeline` with `Budget` (the gates in the place of the choice that
   `Promotion` makes), its refinement and proofs; `Heartbeat`.
4. `Conductor`: `ControllerLock` x `PhaseJobs` x `Pipeline` composed, so that the
   lock's guarantee is what the others assume.
5. *done* Proofs about `Heartbeat`; `PromotionLedger` and its refinement; the positive
   counterparts of what the findings of section 5 show.
6. Snapshots and `restore` (`cli.py:852-893`) against open connections; the tmux windows
   of `spawner.py`.

Not planned: the role loader but for its exception, and the safety checks (pure
functions on documents and strings, which unit tests reach); `estimate_call` and
`AnomalyDetector`, which nothing calls, observability (a log, but for `phase_started`),
adapters and live callbacks (interfaces nothing calls), read-only commands, tmux and the
spawner (I/O).
