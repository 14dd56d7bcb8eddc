---------------------------- MODULE JobLifecycle ----------------------------
(***************************************************************************)
(* What happens to a phase job, whoever works on the table: it is enqueued *)
(* once, claimed at most once, started at most once and then only after it *)
(* was claimed, and once it has ended it never waits or runs again.        *)
(* Abstract specification; PhaseJobs implements it.  It says what the code *)
(* does: runbook 07 has jobs that were orphaned queued again for a retry,  *)
(* and nothing in the code queues them.                                    *)
(***************************************************************************)
EXTENDS Naturals

CONSTANT Job

VARIABLES
    stage,    \* [Job -> {"absent", "queued", "running", "final"}]
    starts    \* [Job -> Nat], phase_started events written for the job

Init ==
    /\ stage = [j \in Job |-> "absent"]
    /\ starts = [j \in Job |-> 0]

Enqueue(j) ==
    /\ stage[j] = "absent"
    /\ stage' = [stage EXCEPT ![j] = "queued"]
    /\ UNCHANGED starts

Claim(j) ==
    /\ stage[j] = "queued"
    /\ stage' = [stage EXCEPT ![j] = "running"]
    /\ UNCHANGED starts

\* The event may be late: the job may have ended by the time it is written.
Start(j) ==
    /\ stage[j] \in {"running", "final"}
    /\ starts[j] = 0
    /\ starts' = [starts EXCEPT ![j] = 1]
    /\ UNCHANGED stage

\* Several jobs may end in one statement; a job that never ran may end too.
End(S) ==
    /\ \A j \in S : stage[j] \in {"queued", "running"}
    /\ stage' = [j \in Job |-> IF j \in S THEN "final" ELSE stage[j]]
    /\ UNCHANGED starts

Next ==
    \/ \E j \in Job : Enqueue(j) \/ Claim(j) \/ Start(j)
    \/ \E S \in SUBSET Job : End(S)

Spec == Init /\ [][Next]_<<stage, starts>>
=============================================================================
