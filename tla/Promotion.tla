----------------------------- MODULE Promotion ------------------------------
(***************************************************************************)
(* The promotion transaction of ar724/promotion_gate.py: the "promotion"   *)
(* row of service_locks, the promotions table, the file below              *)
(* autoresearch/best/ and the git repository it is committed to, driven in *)
(* the order of conductor.py:421-488.  (As written, that caller raises     *)
(* NameError at line 456 before its first gate, here GatesRaise; PhaseJobs *)
(* has what becomes of the conductor.  This module is about what the       *)
(* transaction does once it is called, Pipeline about the gates.)          *)
(*                                                                         *)
(* One SQL statement, one file copy, one git command is one step; between  *)
(* any two the process may be killed, and is then started again.  The      *)
(* clock and left are those of ControllerLock.  Values are file contents.  *)
(* The other files a commit takes along, results.tsv and the iteration's   *)
(* report, are the notes: what they say is left out, not whether git has   *)
(* it.                                                                     *)
(***************************************************************************)
EXTENDS Integers, Sequences

CONSTANTS
    Promoter,     \* processes that run the transaction
    Run,
    RunOf,        \* the run each process works for
    NIterations,  \* bound: iterations of a run that reach a KEEP
    Value,        \* contents a parameter file may have
    None,
    Stray,        \* may other files of the tree be modified or untracked?
    Lease,        \* lease_seconds of claim_promotion_lock, in clock ticks
    Stall,        \* bound: age of a clock reading when its statement runs
    MaxCrashes,   \* bound: kills of a process
    MaxEdits,     \* bound: writes to the candidate's file after its KEEP
    MaxRollbacks  \* bound: `ar724 promotion rollback` that revert a commit

Key == Run \X (1 .. NIterations)   \* promotion:{run}:{iteration}:{candidate}

ASSUME PromotionAssumption ==
    /\ RunOf \in [Promoter -> Run]
    /\ None \notin Run \cup Key \cup Value
    /\ NIterations \in Nat
    /\ Stray \subseteq BOOLEAN /\ Stray # {}
    /\ Lease \in Nat \ {0}
    /\ Stall \in Nat
    /\ MaxCrashes \in Nat
    /\ MaxEdits \in Nat
    /\ MaxRollbacks \in Nat

VARIABLES
    holder,    \* run of the promotion lock's holder_id, None without a row
    left,      \* lease_expires_at minus the clock
    leases,    \* history: has some lease been past its end?
    pc,        \* where each process is
    job,       \* the key a process promotes
    fresh,     \* "new" when its SELECT found no promotions row, else "old"
    sha,       \* what `git rev-parse HEAD` told it
    row,       \* promotions: status and git_commit of each key
    best,      \* the file below autoresearch/best/
    index,     \* the same file in git's index
    notes,     \* do the notes differ: the files from git's index, it from HEAD?
    log,       \* the commits up to HEAD: their tree, the key they name
    file,      \* the candidate's mutable file
    latest,    \* highest iteration of each run that has its KEEP
    verdict,   \* the content that was evaluated under each key
    edits, rollbacks, crashes   \* history: how many so far

lockVars == <<holder, left, leases>>
gitVars == <<best, index, notes, log>>
worldVars == <<file, latest, verdict, edits>>
vars == <<holder, left, leases, pc, job, fresh, sha, row, best, index, notes,
          log, file, latest, verdict, edits, rollbacks, crashes>>

Floor == -(Stall + 1)
HEAD == log[Len(log)]

PC == {"idle",     \* not in _try_promote_latest_iter
       "insert",   \* read no lock row, about to INSERT
       "take",     \* read an expired lock row, about to UPDATE
       "gates",    \* claim_promotion_lock returned True
       "select", "write", "copy", "add", "commit", "head", "record",
       "release",  \* the finally clause, on return
       "abort",    \* the finally clause, an exception on its way out
       "down"}

Inside(p) == pc[p] \notin {"idle", "insert", "take", "down"}

LockOK ==
    /\ holder \in Run \cup {None}
    /\ left \in Floor .. Lease
    /\ leases \in {"kept", "lapsed"}

ProcessOK ==
    /\ pc \in [Promoter -> PC]
    /\ job \in [Promoter -> Key \cup {None}]
    /\ fresh \in [Promoter -> {"new", "old"}]
    /\ latest \in [Run -> 0 .. NIterations]

RepositoryOK ==
    /\ log \in Seq([tree : Value, key : Key \cup {None}])
    /\ Len(log) > 0
    /\ sha \in [Promoter -> 0 .. Len(log)]
    /\ row \in [Key -> [status : {"none", "prepared", "applying", "committed"},
                        commit : 0 .. Len(log)]]
    /\ best \in Value
    /\ index \in Value
    /\ notes \subseteq {"file", "index"}

WorldOK ==
    /\ file \in Value
    /\ verdict \in [Key -> Value \cup {None}]
    /\ edits \in 0 .. MaxEdits
    /\ rollbacks \in 0 .. MaxRollbacks
    /\ crashes \in 0 .. MaxCrashes

TypeOK == LockOK /\ ProcessOK /\ RepositoryOK /\ WorldOK

\* best/ holds some earlier winner, committed.
Init ==
    /\ holder = None
    /\ left = Floor
    /\ leases = "kept"
    /\ pc = [p \in Promoter |-> "idle"]
    /\ job = [p \in Promoter |-> None]
    /\ fresh = [p \in Promoter |-> "new"]
    /\ sha = [p \in Promoter |-> 0]
    /\ row = [k \in Key |-> [status |-> "none", commit |-> 0]]
    /\ \E v \in Value :
          /\ best = v
          /\ index = v
          /\ log = <<[tree |-> v, key |-> None]>>
          /\ file = v
    /\ notes = {}
    /\ latest = [r \in Run |-> 0]
    /\ verdict = [k \in Key |-> None]
    /\ edits = 0
    /\ rollbacks = 0
    /\ crashes = 0

---------------------------------------------------------------------------
(* The lock.                                                               *)

Goto(p, place) == pc' = [pc EXCEPT ![p] = place]

NoteLapse == leases' = IF holder' # None /\ left' < 0 THEN "lapsed" ELSE leases

\* existing["lease_expires_at"] < now, with now read s ticks earlier.
ExpiredOrDue(s) == left =< -s      \* off by one: <= for <
Expired(s) == left < -s

\* lease = now + lease_seconds, computed s ticks earlier.
LeaseTooLong(s) == Lease + s       \* the age added instead of lost
LeaseFrom(s) == Lease - s

\* The latest iteration of the process's run has its KEEP:
\* claim_promotion_lock, SELECT.  A live row of the same run counts as held,
\* and its lease stays as it is.
ClaimSelect(p) ==
    /\ pc[p] = "idle"
    /\ latest[RunOf[p]] > 0
    /\ \E s \in 0 .. Stall :
          \/ /\ holder = None
             /\ Goto(p, "insert")
          \/ /\ holder # None
             /\ Expired(s)
             /\ Goto(p, "take")
          \/ /\ holder = RunOf[p]
             /\ ~Expired(s)
             /\ Goto(p, "gates")
    /\ job' = [job EXCEPT ![p] = <<RunOf[p], latest[RunOf[p]]>>]
    /\ UNCHANGED <<lockVars, fresh, sha, row, gitVars, worldVars, rollbacks, crashes>>

\* INSERT; IntegrityError when a row has appeared: return False.
ClaimInsert(p) ==
    /\ pc[p] = "insert"
    /\ IF holder = None
       THEN /\ holder' = RunOf[p]
            /\ \E s \in 0 .. Stall : left' = LeaseFrom(s)
            /\ Goto(p, "gates")
            /\ UNCHANGED job
       ELSE /\ Goto(p, "idle")
            /\ job' = [job EXCEPT ![p] = None]
            /\ UNCHANGED <<holder, left>>
    /\ NoteLapse
    /\ UNCHANGED <<fresh, sha, row, gitVars, worldVars, rollbacks, crashes>>

\* UPDATE ... WHERE name = 'promotion', whatever the row says by now.  When
\* it was deleted meanwhile no row is changed and the claim still succeeds.
ClaimTake(p) ==
    /\ pc[p] = "take"
    /\ IF holder = None
       THEN UNCHANGED <<holder, left>>
       ELSE /\ holder' = RunOf[p]
            /\ \E s \in 0 .. Stall : left' = LeaseFrom(s)
    /\ Goto(p, "gates")
    /\ NoteLapse
    /\ UNCHANGED <<job, fresh, sha, row, gitVars, worldVars, rollbacks, crashes>>

\* The INSERT or UPDATE raises: except Exception, return False.
ClaimFails(p) ==
    /\ pc[p] \in {"insert", "take"}
    /\ Goto(p, "idle")
    /\ job' = [job EXCEPT ![p] = None]
    /\ UNCHANGED <<lockVars, fresh, sha, row, gitVars, worldVars, rollbacks, crashes>>

\* Gate 10, the lock is held and not expired; gates 1 to 9 let it through.
GatesPass(p) ==
    /\ pc[p] = "gates"
    /\ holder = RunOf[p]
    /\ \E s \in 0 .. Stall : ~Expired(s)
    /\ Goto(p, "select")
    /\ UNCHANGED <<lockVars, job, fresh, sha, row, gitVars, worldVars, rollbacks, crashes>>

\* Some gate refuses: return, through finally.
GatesRefuse(p) ==
    /\ pc[p] = "gates"
    /\ Goto(p, "release")
    /\ UNCHANGED <<lockVars, job, fresh, sha, row, gitVars, worldVars, rollbacks, crashes>>

\* An exception on the way: a role file that does not load
\* (role_loader.py:55-94), a database that stays locked, line 456.
GatesRaise(p) ==
    /\ pc[p] = "gates"
    /\ Goto(p, "abort")
    /\ UNCHANGED <<lockVars, job, fresh, sha, row, gitVars, worldVars, rollbacks, crashes>>

\* release_promotion_lock: DELETE ... WHERE name = 'promotion', whoever
\* holds it.  An exception then leaves tick, and the process ends.
Release(p) ==
    /\ pc[p] \in {"release", "abort"}
    /\ holder' = None
    /\ left' = Floor
    /\ Goto(p, IF pc[p] = "release" THEN "idle" ELSE "down")
    /\ job' = [job EXCEPT ![p] = None]
    /\ fresh' = [fresh EXCEPT ![p] = "new"]
    /\ sha' = [sha EXCEPT ![p] = 0]
    /\ UNCHANGED <<leases, row, gitVars, worldVars, rollbacks, crashes>>

---------------------------------------------------------------------------
(* perform_promotion.                                                      *)

\* SELECT * FROM promotions WHERE idempotency_key = key.
SelectBlind(p) ==    \* the early return for a committed row forgotten
    /\ pc[p] = "select"
    /\ Goto(p, "write")
    /\ fresh' = [fresh EXCEPT ![p] =
          IF row[job[p]].status = "none" THEN "new" ELSE "old"]
    /\ UNCHANGED <<lockVars, job, sha, row, gitVars, worldVars, rollbacks, crashes>>

SelectThenCopy(p) ==   \* the copy made before the row is written
    /\ pc[p] = "select"
    /\ Goto(p, IF row[job[p]].status = "committed" THEN "release" ELSE "copy")
    /\ UNCHANGED <<lockVars, job, fresh, sha, row, gitVars, worldVars, rollbacks, crashes>>

SelectRow(p) ==
    /\ pc[p] = "select"
    /\ IF row[job[p]].status = "committed"
       THEN Goto(p, "release") /\ UNCHANGED fresh
       ELSE /\ Goto(p, "write")
            /\ fresh' = [fresh EXCEPT ![p] =
                  IF row[job[p]].status = "none" THEN "new" ELSE "old"]
    /\ UNCHANGED <<lockVars, job, sha, row, gitVars, worldVars, rollbacks, crashes>>

\* INSERT 'prepared' (idempotency_key is UNIQUE: a second row raises) or,
\* for a row there was, UPDATE 'applying'.
WriteRow(p) ==
    /\ pc[p] = "write"
    /\ IF fresh[p] = "new" /\ row[job[p]].status # "none"
       THEN Goto(p, "abort") /\ UNCHANGED row
       ELSE /\ row' = [row EXCEPT ![job[p]].status =
                  IF fresh[p] = "new" THEN "prepared" ELSE "applying"]
            /\ Goto(p, "copy")
    /\ UNCHANGED <<lockVars, job, fresh, sha, gitVars, worldVars, rollbacks, crashes>>

CopyOnce(p) ==       \* a retry trusts the copy of the attempt before it
    /\ pc[p] = "copy"
    /\ best' = IF fresh[p] = "new" THEN file ELSE best
    /\ Goto(p, "add")
    /\ UNCHANGED <<lockVars, job, fresh, sha, row, index, notes, log, worldVars, rollbacks,
                   crashes>>

\* shutil.copy2(new_best_path, best_target): the file as it is now.
Copy(p) ==
    /\ pc[p] = "copy"
    /\ best' = file
    /\ Goto(p, "add")
    /\ UNCHANGED <<lockVars, job, fresh, sha, row, index, notes, log, worldVars, rollbacks,
                   crashes>>

\* git add of best/ and the notes.
Add(p) ==
    /\ pc[p] = "add"
    /\ index' = best
    /\ notes' = IF "file" \in notes THEN {"index"} ELSE notes
    /\ Goto(p, "commit")
    /\ UNCHANGED <<lockVars, job, fresh, sha, row, best, log, worldVars, rollbacks, crashes>>

\* git commit.  Without a staged change it exits with 1, and says "nothing to
\* commit" only when the whole tree is clean; _git_commit lets that pass and
\* raises RuntimeError otherwise.
Staged == index # HEAD.tree \/ "index" \in notes
CleanBut(stray) == best = index /\ "file" \notin notes /\ ~stray

MakeCommit(p) ==
    /\ log' = Append(log, [tree |-> index, key |-> job[p]])
    /\ notes' = notes \ {"index"}
    /\ Goto(p, "head")

CommitAlways(p) ==      \* git commit --allow-empty
    /\ pc[p] = "commit"
    /\ MakeCommit(p)
    /\ UNCHANGED <<lockVars, job, fresh, sha, row, best, index, worldVars, rollbacks, crashes>>

Commit(p) ==
    /\ pc[p] = "commit"
    /\ \/ Staged /\ MakeCommit(p)
       \/ /\ ~Staged
          /\ \E stray \in Stray : Goto(p, IF CleanBut(stray) THEN "head" ELSE "abort")
          /\ UNCHANGED <<log, notes>>
    /\ UNCHANGED <<lockVars, job, fresh, sha, row, best, index, worldVars, rollbacks, crashes>>

\* A git command that fails, another one holding index.lock: an exception.
GitFails(p) ==
    /\ pc[p] \in {"add", "commit"}
    /\ Goto(p, "abort")
    /\ UNCHANGED <<lockVars, job, fresh, sha, row, gitVars, worldVars, rollbacks, crashes>>

RevParseParent(p) ==   \* of before the commit
    /\ pc[p] = "head"
    /\ sha' = [sha EXCEPT ![p] = Len(log) - 1]
    /\ Goto(p, "record")
    /\ UNCHANGED <<lockVars, job, fresh, row, gitVars, worldVars, rollbacks, crashes>>

\* git rev-parse HEAD.
RevParse(p) ==
    /\ pc[p] = "head"
    /\ sha' = [sha EXCEPT ![p] = Len(log)]
    /\ Goto(p, "record")
    /\ UNCHANGED <<lockVars, job, fresh, row, gitVars, worldVars, rollbacks, crashes>>

\* UPDATE promotions SET status = 'committed', git_commit = sha.
Record(p) ==
    /\ pc[p] = "record"
    /\ row' = [row EXCEPT ![job[p]] = [status |-> "committed", commit |-> sha[p]]]
    /\ Goto(p, "release")
    /\ UNCHANGED <<lockVars, job, fresh, sha, gitVars, worldVars, rollbacks, crashes>>

---------------------------------------------------------------------------
(* The surroundings.                                                       *)

\* The process is killed; the lock row stays.
Crash(p) ==
    /\ pc[p] # "down"
    /\ crashes < MaxCrashes
    /\ crashes' = crashes + 1
    /\ Goto(p, "down")
    /\ job' = [job EXCEPT ![p] = None]
    /\ fresh' = [fresh EXCEPT ![p] = "new"]
    /\ sha' = [sha EXCEPT ![p] = 0]
    /\ UNCHANGED <<lockVars, row, gitVars, worldVars, rollbacks>>

\* The operator starts a conductor of the run again (see PhaseJobs).
Restart(p) ==
    /\ pc[p] = "down"
    /\ Goto(p, "idle")
    /\ UNCHANGED <<lockVars, job, fresh, sha, row, gitVars, worldVars, rollbacks, crashes>>

\* External: the workers of run r's next iteration write the file, and notes
\* or none, have it evaluated, and it gets its KEEP.  Their jobs are claimed by conductors of
\* the run, in ticks of their own, so not while all of them are in here.
Iterate(r) ==
    /\ latest[r] < NIterations
    /\ \E p \in Promoter : RunOf[p] = r /\ pc[p] = "idle"
    /\ latest' = [latest EXCEPT ![r] = @ + 1]
    /\ \E v \in Value : /\ file' = v
                        /\ verdict' = [verdict EXCEPT ![<<r, latest[r] + 1>>] = v]
    /\ notes' \in {notes, notes \cup {"file"}}
    /\ UNCHANGED <<lockVars, pc, job, fresh, sha, row, best, index, log, edits, rollbacks, crashes>>

\* External: a worker that outlived its job (the reaper's kill_window names
\* a window that does not exist) writes the file or its notes once more.
Edit ==
    /\ edits < MaxEdits
    /\ edits' = edits + 1
    /\ \/ (\E v \in Value \ {file} : file' = v) /\ UNCHANGED notes
       \/ notes' = notes \cup {"file"} /\ UNCHANGED file
    /\ UNCHANGED <<lockVars, pc, job, fresh, sha, row, best, index, log, latest, verdict,
                   rollbacks, crashes>>

\* ar724 promotion rollback: git revert of the commit the row names.  It
\* needs nothing staged, a clean best/ and no conflict with what HEAD has; a
\* commit of notes only leaves best/ alone.  (Conflicts in the notes are not
\* followed.)
Rollback(k) ==
    /\ rollbacks < MaxRollbacks
    /\ row[k].status = "committed"
    /\ row[k].commit > 1
    /\ best = index
    /\ ~Staged
    /\ LET made == log[row[k].commit].tree
           before == log[row[k].commit - 1].tree
           after == IF made = before THEN HEAD.tree ELSE before
       IN  /\ made \in {before, HEAD.tree}
           /\ log' = Append(log, [tree |-> after, key |-> None])
           /\ index' = after
           /\ best' = after
    /\ rollbacks' = rollbacks + 1
    /\ UNCHANGED <<lockVars, pc, job, fresh, sha, row, notes, worldVars, crashes>>

Clock ==
    /\ holder # None
    /\ left > Floor
    /\ left' = left - 1
    /\ UNCHANGED holder
    /\ NoteLapse
    /\ UNCHANGED <<pc, job, fresh, sha, row, gitVars, worldVars, rollbacks, crashes>>

Perform(p) ==
    \/ SelectRow(p) \/ WriteRow(p) \/ Copy(p) \/ Add(p) \/ Commit(p)
    \/ RevParse(p) \/ Record(p)

Step(p) ==
    \/ ClaimSelect(p) \/ ClaimInsert(p) \/ ClaimTake(p) \/ ClaimFails(p)
    \/ GatesPass(p) \/ GatesRefuse(p) \/ GatesRaise(p) \/ Perform(p) \/ GitFails(p)
    \/ Release(p)

Next ==
    \/ Clock \/ Edit
    \/ \E r \in Run : Iterate(r)
    \/ \E k \in Key : Rollback(k)
    \/ \E p \in Promoter : Step(p) \/ Crash(p) \/ Restart(p)

Spec == Init /\ [][Next]_vars

---------------------------------------------------------------------------
(* Properties.                                                             *)

\* What operators start; the controller lock does not see to it, for it lets
\* two processes of one run pass.  (conductor.py:70)
OneProcessPerRun == \A p, q \in Promoter : RunOf[p] = RunOf[q] => p = q
Alone == \A p, q \in Promoter : p = q
Unfinished(k) == row[k].status \in {"prepared", "applying"}

\* Until some lease has run out, one process at a time is between its claim
\* and its release, and so DELETEs no lock but its own, although the release
\* names no holder.  (promotion_gate.py:272-302)
OnePromoterUntilALeaseLapses ==
    leases = "kept" /\ OneProcessPerRun =>
        \A p, q \in Promoter : Inside(p) /\ Inside(q) => p = q

\* Whenever best/ differs from what git has, some promotions row says
\* 'prepared' or 'applying': a promotion that stopped half way, or that is
\* overtaken when its lease lapses, is never mistaken for a finished one.
\* (promotion_gate.py:335-371: the row before the copy, the commit before
\* the row)
DirtyBestIsDeclared ==
    OneProcessPerRun /\ best # HEAD.tree => \E k \in Key : Unfinished(k)

\* A row that says committed is final, it and its commit: retries and
\* promotions of other runs go round it.  (promotion_gate.py:325-330, 367)
CommittedStays ==
    [][OneProcessPerRun => \A k \in Key :
          row[k].status = "committed" => row'[k] = row[k]]_vars

\* However often it is killed and retried, the promotion of a process that
\* is alone in the tree makes one commit, as long as nothing rewrites the
\* candidate or its notes or reverts the commit: the retry stages nothing.
\* (promotion_gate.py:386-403)
OneCommitPerKey ==
    Alone /\ edits = 0 /\ rollbacks = 0 =>
        \A i, j \in 1 .. Len(log) :
            log[i].key = log[j].key /\ log[i].key # None => i = j

\* README.md:6-7 "mechanically promotes only evaluator-backed winners": what
\* a process that is alone in the tree commits for an iteration is what was
\* evaluated for it, although the file is read when it is copied, a retry
\* starts from what a killed attempt has left in best/ and the index, and
\* the sha that is recorded is HEAD's.  It takes that nobody edits the file
\* after its KEEP: nothing compares it.  (promotion_gate.py:329-371)
CommittedWasEvaluated ==
    Alone /\ edits = 0 /\ rollbacks = 0 =>
        /\ \A i \in 2 .. Len(log) :
              log[i].key # None => log[i].tree = verdict[log[i].key]
        /\ \A k \in Key :
              row[k].status = "committed" =>
                  row[k].commit > 0 /\ log[row[k].commit].tree = verdict[k]

\* promotion_gate.py:318-319 "Idempotent promotion transaction [...] Re-running
\* with the same idempotency_key is a no-op": however often a promoter that
\* is alone is killed between any two statements and starts over, what
\* git and the promotions table say to a reader develops as in
\* PromotionLedger.  (promotion_gate.py:329-371)
RecordedCommit == [k \in Key |-> IF row[k].status = "committed" THEN row[k].commit ELSE 0]
Ledger == INSTANCE PromotionLedger
              WITH evaluated <- verdict, published <- log, recorded <- RecordedCommit
LedgerKept == Ledger!Spec
=============================================================================
