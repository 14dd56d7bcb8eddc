----------------------------- MODULE Heartbeat ------------------------------
(***************************************************************************)
(* ar724/heartbeat.py: the thread that says every interval that a worker   *)
(* is alive, and the worker that starts and stops it.                      *)
(*                                                                         *)
(* One object is started and stopped several times.  All its threads look  *)
(* at one event and count in one _beat_count, which Python reads and       *)
(* writes in separate steps.  A beat may wait for the database longer      *)
(* than stop waits for the thread (db.py:286 against two intervals).  The  *)
(* job's row is left out: a beat sets its last_heartbeat_at, which nothing *)
(* reads; the reaper (PhaseJobs) looks at the lease, which no beat moves.  *)
(***************************************************************************)
EXTENDS Integers, FiniteSets

CONSTANTS
    MaxStarts,   \* bound: threads made by start
    MaxBeats,    \* bound: beats of the object
    MaxLate      \* bound: how often stop gives up its join

ASSUME HeartbeatAssumption ==
    MaxStarts \in Nat /\ MaxBeats \in Nat /\ MaxLate \in Nat

Thread == 1 .. MaxStarts

VARIABLES
    worker,    \* where the process that owns the timer is
    event,     \* _stop_event.is_set()
    thread,    \* _thread, 0 for None
    made,      \* threads made so far
    pc,        \* where each thread is
    got,       \* what a thread has read of _beat_count
    count,     \* _beat_count
    ids,       \* the numbers in the ids of the events in the file
    twice,     \* history: those written more than once
    late       \* history: joins that stop gave up

vars == <<worker, event, thread, made, pc, got, count, ids, twice, late>>

timerVars == <<event, thread, made, late>>
beatVars == <<pc, got, count, ids, twice>>

PC == {"new", "loop", "add", "update", "append", "wait", "dead"}

TypeOK ==
    /\ worker \in {"up", "joining", "over", "killed"}
    /\ event \in BOOLEAN
    /\ made \in 0 .. MaxStarts
    /\ thread \in 0 .. made
    /\ pc \in [Thread -> PC]
    /\ \A t \in Thread : pc[t] = "new" <=> t > made
    /\ got \in [Thread -> 0 .. MaxBeats]
    /\ count \in 0 .. MaxBeats
    /\ ids \subseteq 0 .. MaxBeats
    /\ twice \subseteq ids
    /\ late \in 0 .. MaxLate

Init ==
    /\ worker = "up"
    /\ event = FALSE
    /\ thread = 0
    /\ made = 0
    /\ pc = [t \in Thread |-> "new"]
    /\ got = [t \in Thread |-> 0]
    /\ count = 0
    /\ ids = {}
    /\ twice = {}
    /\ late = 0

Alive(t) == pc[t] \notin {"new", "dead"}

---------------------------------------------------------------------------
(* The owner.                                                              *)

\* start: return when the thread is alive, else clear the event and make one.
StartAlways ==      \* is_alive not asked
    /\ worker = "up"
    /\ made < MaxStarts
    /\ event' = FALSE
    /\ made' = made + 1
    /\ thread' = made + 1
    /\ pc' = [pc EXCEPT ![made + 1] = "loop"]
    /\ UNCHANGED <<worker, got, count, ids, twice, late>>

StartOver ==        \* the numbers begin at 1 again
    /\ worker = "up"
    /\ made < MaxStarts
    /\ thread # 0 => ~Alive(thread)
    /\ event' = FALSE
    /\ made' = made + 1
    /\ thread' = made + 1
    /\ pc' = [pc EXCEPT ![made + 1] = "loop"]
    /\ count' = 0
    /\ UNCHANGED <<worker, got, ids, twice, late>>

Start ==
    /\ worker = "up"
    /\ made < MaxStarts
    /\ thread # 0 => ~Alive(thread)
    /\ event' = FALSE
    /\ made' = made + 1
    /\ thread' = made + 1
    /\ pc' = [pc EXCEPT ![made + 1] = "loop"]
    /\ UNCHANGED <<worker, got, count, ids, twice, late>>

\* stop: set the event, and join the thread if there is one.
StopUnset ==        \* the event forgotten
    /\ worker = "up"
    /\ worker' = IF thread = 0 THEN "up" ELSE "joining"
    /\ UNCHANGED <<timerVars, beatVars>>

Stop ==
    /\ worker = "up"
    /\ event' = TRUE
    /\ worker' = IF thread = 0 THEN "up" ELSE "joining"
    /\ UNCHANGED <<thread, made, late, beatVars>>

\* join returns when the thread has ended, or after two intervals; which of
\* the two it was is not asked.
Join ==
    /\ worker = "joining"
    /\ \/ ~Alive(thread) /\ UNCHANGED late
       \/ /\ Alive(thread)
          /\ late < MaxLate
          /\ late' = late + 1
    /\ thread' = 0
    /\ worker' = "up"
    /\ UNCHANGED <<event, made, beatVars>>

\* External: the worker reports and is done with the timer, which it has
\* stopped (heartbeat.py:28-34).
Finish ==
    /\ worker = "up"
    /\ thread = 0
    /\ worker' = "over"
    /\ UNCHANGED <<timerVars, beatVars>>

\* The process is killed, and its threads with it: they are daemons.
Kill ==
    /\ worker \in {"up", "joining"}
    /\ worker' = "killed"
    /\ pc' = [t \in Thread |-> IF pc[t] = "new" THEN "new" ELSE "dead"]
    /\ UNCHANGED <<timerVars, got, count, ids, twice>>

---------------------------------------------------------------------------
(* A thread: _run and _beat.                                               *)

Goto(t, place) == pc' = [pc EXCEPT ![t] = place]

\* while not self._stop_event.is_set(), and the reading half of
\* _beat_count += 1.
Loop(t) ==
    /\ pc[t] = "loop"
    /\ IF event
       THEN Goto(t, "dead") /\ UNCHANGED got
       ELSE /\ count < MaxBeats
            /\ got' = [got EXCEPT ![t] = count]
            /\ Goto(t, "add")
    /\ UNCHANGED <<worker, timerVars, count, ids, twice>>

AddTwice(t) ==      \* counted by the loop and by the beat
    /\ pc[t] = "add"
    /\ count' = got[t] + 2
    /\ got' = [got EXCEPT ![t] = 0]
    /\ Goto(t, "update")
    /\ UNCHANGED <<worker, timerVars, ids, twice>>

\* The writing half.
Add(t) ==
    /\ pc[t] = "add"
    /\ count' = got[t] + 1
    /\ got' = [got EXCEPT ![t] = 0]
    /\ Goto(t, "update")
    /\ UNCHANGED <<worker, timerVars, ids, twice>>

\* UPDATE ... AND status = 'running': touches last_heartbeat_at and nothing
\* else.  When it raises, the rest of the beat is left out.
Update(t) ==
    /\ pc[t] = "update"
    /\ Goto(t, "append") \/ Goto(t, "wait")
    /\ UNCHANGED <<worker, timerVars, got, count, ids, twice>>

\* _append_event reads _beat_count again.
AppendEvent(t) ==
    /\ pc[t] = "append"
    /\ ids' = ids \cup {count}
    /\ twice' = IF count \in ids THEN twice \cup {count} ELSE twice
    /\ Goto(t, "wait")
    /\ UNCHANGED <<worker, timerVars, got, count>>

\* _stop_event.wait(timeout): set, or the interval is over.
Wait(t) ==
    /\ pc[t] = "wait"
    /\ Goto(t, IF event THEN "dead" ELSE "loop")
    /\ UNCHANGED <<worker, timerVars, got, count, ids, twice>>

Beat(t) == Loop(t) \/ Add(t) \/ Update(t) \/ AppendEvent(t) \/ Wait(t)

Next ==
    \/ Start \/ Stop \/ Join \/ Finish \/ Kill
    \/ \E t \in Thread : Beat(t)

Spec == Init /\ [][Next]_vars

(***************************************************************************)
(* Fairness.  Threads are scheduled, and a statement ends within the busy  *)
(* timeout.  A join ends.  The worker need not do anything.                *)
(***************************************************************************)
Fairness ==
    /\ \A t \in Thread : WF_vars(Beat(t))
    /\ WF_vars(Join)

FairSpec == Spec /\ Fairness

---------------------------------------------------------------------------
(* Properties.                                                             *)

\* Threads that start and stop know nothing of any more, but that may go on
\* beating, are not more than the joins that stop gave up: without one there
\* is one thread at most, and none after stop until the next start.
\* (heartbeat.py:57, 66-69, 76)
LeftBehind == {t \in Thread : Alive(t) /\ t # thread}

LeftBehindOnlyByGivingUp == Cardinality(LeftBehind) =< late

\* Until stop has given up a join no two events have one id, however often
\* the timer is started: the number is read again when the event is written,
\* so an older thread could take it from under the newer.
\* (heartbeat.py:83, 104-106)
IdsAreUniqueUnlessGivenUp ==
    late = 0 => twice = {}

\* Once the worker is through with the timer every thread ends, those that a
\* stop gave up and a start set going again included: they share the event.
\* (heartbeat.py:59, 66, 76-80)
ThreadsEnd == worker = "over" ~> \A t \in Thread : ~Alive(t)
=============================================================================
