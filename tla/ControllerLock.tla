--------------------------- MODULE ControllerLock ---------------------------
(***************************************************************************)
(* The "controller" row of service_locks and the conductor processes that  *)
(* contend for it (ar724/conductor.py: acquire_controller_lock,            *)
(* heartbeat_controller_lock, the first lines of tick).                    *)
(*                                                                         *)
(* Every SQL statement is atomic and commits at once (the connections are  *)
(* in autocommit mode); nothing holds two statements together, so the      *)
(* SELECT of an acquisition and the INSERT or UPDATE that follows are      *)
(* separate steps.  The holder id is "controller:<run id>": two processes  *)
(* of one run write the same holder, which is why the row names a run.     *)
(*                                                                         *)
(* No absolute time is kept.  left is the row's lease_expires_at minus the *)
(* clock: 0 when the lease ends this instant, negative when it has         *)
(* expired.  A process reads the clock before it runs the statement that   *)
(* uses the reading; the reading is up to Stall ticks old by then.         *)
(***************************************************************************)
EXTENDS Integers

CONSTANTS
    Conductor,   \* operating-system processes running `ar724 conductor`
    Run,         \* run ids
    RunOf,       \* the --run-id each process was started with
    None,        \* stands for "no row"
    Lease,       \* LOCK_LEASE_SECONDS, in clock ticks
    Stall,       \* bound: age of a clock reading when its statement runs
    MaxCrashes   \* bound: crashes of conductor processes

ASSUME ControllerLockAssumption ==
    /\ RunOf \in [Conductor -> Run]
    /\ None \notin Run
    /\ Lease \in Nat \ {0}
    /\ Stall \in Nat
    /\ MaxCrashes \in Nat

VARIABLES
    holder,    \* holder_id of the row, None when the row does not exist
    left,      \* lease_expires_at minus the clock
    pc,        \* where each process is in tick
    crashes,   \* history: crashes so far
    leases     \* history: has some lease been past its end?

vars == <<holder, left, pc, crashes, leases>>

\* A lease further past its end than this looks expired to every reader.
Floor == -(Stall + 1)

PC == {"asleep",    \* between two ticks
       "insert",    \* read no row, about to INSERT
       "update",    \* read a row it may take, about to UPDATE
       "beat",      \* acquire returned True, about to heartbeat
       "working",   \* the rest of the tick
       "down"}      \* process gone

TypeOK ==
    /\ holder \in Run \cup {None}
    /\ left \in Floor .. Lease
    /\ pc \in [Conductor -> PC]
    /\ crashes \in 0 .. MaxCrashes
    /\ leases \in {"kept", "lapsed"}

Init ==
    /\ holder = None
    /\ left = Floor
    /\ pc = [c \in Conductor |-> "asleep"]
    /\ crashes = 0
    /\ leases = "kept"

---------------------------------------------------------------------------
Goto(c, place) == pc' = [pc EXCEPT ![c] = place]

\* leases records any row whose lease is past its end.
NoteLapse == leases' = IF holder' # None /\ left' < 0 THEN "lapsed" ELSE leases

\* existing["lease_expires_at"] < now, with now read s ticks earlier.
ExpiredOrDue(s) == left =< -s      \* off by one: <= for <
ExpiredForNobody(s) == FALSE       \* the expiry disjunct forgotten
Expired(s) == left < -s

\* lease = now + LOCK_LEASE_SECONDS, computed s ticks earlier.
LeaseExtended(s) == left + Lease   \* counted from the lease, not the clock
LeaseFrom(s) == Lease - s

\* SELECT holder_id, lease_expires_at and the branch taken on the row.
\* Neither absent, expired nor its own: acquire returns False, tick returns.
Select(c) ==
    /\ pc[c] = "asleep"
    /\ \E s \in 0 .. Stall :
          Goto(c, IF holder = None THEN "insert"
                  ELSE IF Expired(s) \/ holder = RunOf[c] THEN "update"
                  ELSE "asleep")
    /\ UNCHANGED <<holder, left, crashes, leases>>

\* INSERT.  name is the primary key: with a row there, sqlite3 raises
\* IntegrityError, the except clause returns False and the tick is skipped.
Insert(c) ==
    /\ pc[c] = "insert"
    /\ IF holder = None
       THEN /\ holder' = RunOf[c]
            /\ \E s \in 0 .. Stall : left' = LeaseFrom(s)
            /\ Goto(c, "beat")
       ELSE /\ Goto(c, "asleep")
            /\ UNCHANGED <<holder, left>>
    /\ NoteLapse
    /\ UNCHANGED crashes

\* UPDATE ... WHERE name = 'controller': nothing in the statement repeats
\* what the SELECT saw.
Update(c) ==
    /\ pc[c] = "update"
    /\ holder' = RunOf[c]
    /\ \E s \in 0 .. Stall : left' = LeaseFrom(s)
    /\ Goto(c, "beat")
    /\ NoteLapse
    /\ UNCHANGED crashes

\* The INSERT or UPDATE raises (the database stays locked past the busy
\* timeout): except Exception, return False.
AcquireFails(c) ==
    /\ pc[c] \in {"insert", "update"}
    /\ Goto(c, "asleep")
    /\ UNCHANGED <<holder, left, crashes, leases>>

\* heartbeat_controller_lock: UPDATE ... WHERE holder_id = holder.  With the
\* lock lost it changes no row, and the tick goes on all the same.
Beat(c) ==
    /\ pc[c] = "beat"
    /\ IF holder = RunOf[c]
       THEN \E s \in 0 .. Stall : left' = LeaseFrom(s)
       ELSE UNCHANGED left
    /\ Goto(c, "working")
    /\ UNCHANGED <<holder, crashes>>
    /\ NoteLapse

\* tick returns and the loop of `ar724 conductor` sleeps.  The lock is kept.
Return(c) ==
    /\ pc[c] = "working"
    /\ Goto(c, "asleep")
    /\ UNCHANGED <<holder, left, crashes, leases>>

\* The process dies anywhere in the loop: an exception out of tick, a kill.
Crash(c) ==
    /\ pc[c] # "down"
    /\ crashes < MaxCrashes
    /\ Goto(c, "down")
    /\ crashes' = crashes + 1
    /\ UNCHANGED <<holder, left, leases>>

\* The process is started again: launchd's KeepAlive does that for the one
\* with the run id "auto", only the operator for those of a run.
Restart(c) ==
    /\ pc[c] = "down"
    /\ Goto(c, "asleep")
    /\ UNCHANGED <<holder, left, crashes, leases>>

Clock ==
    /\ holder # None
    /\ left > Floor
    /\ left' = left - 1
    /\ UNCHANGED <<holder, pc, crashes>>
    /\ NoteLapse

ConductorStep(c) ==
    \/ Select(c) \/ Insert(c) \/ Update(c) \/ AcquireFails(c)
    \/ Beat(c) \/ Return(c) \/ Crash(c) \/ Restart(c)

Next == Clock \/ \E c \in Conductor : ConductorStep(c)

Spec == Init /\ [][Next]_vars

(***************************************************************************)
(* Fairness.  Time passes.  A process that is up keeps taking its steps:   *)
(* the loop of `ar724 conductor` has no other exit than SIGTERM or a       *)
(* crash.  A statement may fail for as long as the database is locked but  *)
(* not every time for ever: strong fairness of the successful ones.  No    *)
(* fairness for Crash, AcquireFails or Restart.                            *)
(***************************************************************************)
Fairness ==
    /\ WF_vars(Clock)
    /\ \A c \in Conductor :
          /\ WF_vars(Select(c))
          /\ SF_vars(Insert(c))
          /\ SF_vars(Update(c))
          /\ WF_vars(Beat(c))
          /\ WF_vars(Return(c))

FairSpec == Spec /\ Fairness

---------------------------------------------------------------------------
\* acquire_controller_lock returned True and the tick is under way.
Inside(c) == pc[c] \in {"beat", "working"}

\* Until some lease has run out, all the processes inside their tick work
\* for one run: the race of two first acquisitions has one winner (primary
\* key), nobody overwrites a live lease, and heartbeats of a loser change
\* nothing.  (conductor.py:58-79, 82-91)
OneRunUntilALeaseLapses ==
    leases = "kept" => \A c, d \in Conductor :
        Inside(c) /\ Inside(d) => RunOf[c] = RunOf[d]

\* The lock does not stay with the dead: as long as one process stays up,
\* ticks are worked for ever, whoever held the lock when it crashed.
\* (conductor.py:70)
TicksGoOn ==
    \A c \in Conductor :
        <>[](pc[c] # "down") => []<>(\E d \in Conductor : pc[d] = "working")
=============================================================================
