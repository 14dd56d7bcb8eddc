------------------------------- MODULE Guard -------------------------------
(***************************************************************************)
(* The oscillation guard of a conductor (ar724/conductor.py,               *)
(* _check_oscillation): a detector in the memory of the process, shown the *)
(* candidate of each attempt to promote, and the policy in                 *)
(* loop_config.json, read when the detector fires, while operators change  *)
(* that file.  One conductor: another has a detector of its own and shares *)
(* nothing but the file.                                                   *)
(*                                                                         *)
(* An attempt may be the next try for the same candidate or the first for  *)
(* another; both are shown to the detector.                                *)
(***************************************************************************)
EXTENDS LoopConfig, Oscillation

CONSTANT MaxAttempts   \* bound: candidates shown to one detector

ASSUME GuardAssumption ==
    /\ "oscillation_policy" \in Field
    /\ "halt" \in Value
    /\ MaxAttempts \in Nat

VARIABLES
    detector,   \* _RUN_OSCILLATION[run_id]
    fired,      \* it has fired; the policy is still to be read
    refuses,    \* answer to the gates: TRUE blocks the promotion
    seen        \* history: candidates shown since the process started

guardVars == <<detector, fired, refuses, seen>>
vars == <<file, command, commands, last, undone, detector, fired, refuses, seen>>

Detector == [history : Seq(Candidate), param_history : [Parameter -> Seq(Bucket)]]

TypeOK ==
    /\ ConfigOK
    /\ detector \in Detector
    /\ Len(detector.history) <= Window
    /\ fired \in BOOLEAN
    /\ refuses \in BOOLEAN
    /\ seen \in Seq(Candidate)

Init ==
    /\ ConfigInit
    /\ detector = NewDetector
    /\ fired = FALSE
    /\ refuses = FALSE
    /\ seen = <<>>

-----------------------------------------------------------------------------
\* No candidates row, no mutable file, no JSON in it or no weights: the detector is
\* not asked.
Unreadable ==
    /\ ~fired
    /\ refuses' = FALSE
    /\ UNCHANGED <<detector, fired, seen>>

\* seeded fault: the detector answers before it takes the candidate in
AskThenShow(p) ==
    /\ ~fired /\ Len(seen) < MaxAttempts
    /\ detector' = Observed(detector, p)
    /\ seen' = Append(seen, p)
    /\ fired' = Triggered(detector, p)
    /\ refuses' = FALSE

\* det.observe(params); without a detection the answer is False.
Attempt(p) ==
    /\ ~fired /\ Len(seen) < MaxAttempts
    /\ detector' = Observed(detector, p)
    /\ seen' = Append(seen, p)
    /\ fired' = Triggered(detector', p)
    /\ refuses' = FALSE

\* seeded fault: without a policy, the strict one
PolicyOrHalt == LET p == Contents(file)["oscillation_policy"] IN IF p = None THEN "halt" ELSE p

\* get_loop_config().get("oscillation_policy", "warn")
Policy == LET p == Contents(file)["oscillation_policy"] IN IF p = None THEN "warn" ELSE p

\* The detector has fired: the event, and the answer by the policy.
ByPolicy ==
    /\ fired
    /\ refuses' = (Policy = "halt")
    /\ fired' = FALSE
    /\ UNCHANGED <<detector, seen>>

\* The process dies anywhere, its detector with it; another is started.
Restart ==
    /\ detector' = NewDetector
    /\ seen' = <<>>
    /\ fired' = FALSE
    /\ refuses' = FALSE

Conducts == Unreadable \/ (\E p \in Candidate : Attempt(p)) \/ ByPolicy \/ Restart

Next ==
    \/ ConfigNext /\ UNCHANGED guardVars
    \/ Conducts /\ UNCHANGED configVars

Spec == Init /\ [][Next]_vars

-----------------------------------------------------------------------------
\* The detector fires exactly when the latest of everything shown to it since the
\* process started oscillates, whichever parameters the candidates have
\* (observe in ar724/oscillation.py).
FiresIffOscillating ==
    [][seen' # seen /\ seen' # <<>> => (fired' <=> Oscillates(seen'))]_vars

\* Once `oscillation set-policy halt` has returned every detection blocks the
\* promotion until somebody sets warn, and none does after that, unless a
\* command that had read the file before has put the old policy back
\* (_check_oscillation against the commands of ar724/cli.py).
PolicySetIsPolicyObeyed ==
    [][fired /\ ~fired' /\ seen' # <<>> /\ "oscillation_policy" \notin undone
       => (refuses' <=> last["oscillation_policy"] = "halt")]_vars
=============================================================================
