----------------------------- MODULE Evaluation -----------------------------
(***************************************************************************)
(* ar724/evaluator_runner.py: run_evaluator stages a candidate's file into *)
(* the run directory of its hash, starts the evaluator there as a child    *)
(* process, waits for it or kills it at the time limit, and records what   *)
(* the output files say.  The directory is used again by every attempt at  *)
(* the same hash, also while another attempt is still in it.               *)
(*                                                                         *)
(* Path.write_text opens the file, which empties it, and then writes: two  *)
(* steps, with a torn file in between.  A score is a function of the       *)
(* content, so a metrics file is modelled by the content it scores.  The   *)
(* copy of evaluator.py is the same text at every attempt; a child that    *)
(* finds it torn ends at once, like one that is killed.                    *)
(***************************************************************************)
CONSTANTS
    Candidate,   \* candidate hashes
    Attempt,     \* calls of run_evaluator
    Content,     \* what a candidate's file may contain
    Good,        \* those the evaluator scores at score_floor or above
    Broken,      \* those that are not a JSON object
    None,        \* no such file, nothing read
    Torn         \* a file opened for writing and not written yet

ASSUME EvaluationAssumption ==
    /\ Good \subseteq Content /\ Broken \subseteq Content
    /\ Good \cap Broken = {}
    /\ None \notin Content /\ Torn \notin Content /\ None # Torn
    /\ {"KEEP", "DISCARD", "BLOCKED"} \cap {None, Torn} = {}

VARIABLES
    of,        \* the hash each attempt is about
    file,      \* the candidate's mutable file
    edited,    \* history: candidates whose file was changed after proposal
    staged,    \* candidate.json in each run directory
    metrics,   \* metrics.json, by the content it is about
    status,    \* run_status.json, by its decision
    judged,    \* history: the decisions children have written, by candidate
    pc,        \* where each attempt is in run_evaluator
    child,     \* where its child is
    text,      \* the candidate as the attempt, then its child, has read it
    found,     \* the decision the attempt has read
    row        \* the evaluations row of each attempt

dirVars == <<staged, metrics, status, judged>>
vars == <<of, file, edited, staged, metrics, status, judged, pc, child, text, found, row>>

Decision == {"KEEP", "DISCARD", "BLOCKED"}
Text == Content \cup {None, Torn}

PC == {"idle", "fill",    \* candidate.json opened
       "spawn", "wait",
       "status",          \* both outputs exist, about to read the one
       "metrics",         \* about to read the other
       "blocked",         \* about to record BLOCKED with score 0
       "over"}            \* returned, raised or killed

Row == [decision : Decision, score : Content \cup {None}]

TypeOK ==
    /\ of \in [Attempt -> Candidate]
    /\ file \in [Candidate -> Content \cup {None}]
    /\ edited \in SUBSET Candidate
    /\ staged \in [Candidate -> Text]
    /\ metrics \in [Candidate -> Text]
    /\ status \in [Candidate -> Decision \cup {None, Torn}]
    /\ judged \in SUBSET (Candidate \X Decision)
    /\ pc \in [Attempt -> PC]
    /\ child \in [Attempt -> {"none", "load", "metrics", "score", "status", "decide", "ended"}]
    /\ text \in [Attempt -> Text]
    /\ found \in [Attempt -> Decision \cup {None}]
    /\ row \in [Attempt -> Row \cup {None}]

Init ==
    /\ of \in [Attempt -> Candidate]
    /\ file \in [Candidate -> Content \cup {None}]
    /\ edited = {}
    /\ staged = [c \in Candidate |-> None]
    /\ metrics = [c \in Candidate |-> None]
    /\ status = [c \in Candidate |-> None]
    /\ judged = {}
    /\ pc = [a \in Attempt |-> "idle"]
    /\ child = [a \in Attempt |-> "none"]
    /\ text = [a \in Attempt |-> None]
    /\ found = [a \in Attempt |-> None]
    /\ row = [a \in Attempt |-> None]

---------------------------------------------------------------------------
(* run_evaluator.                                                          *)

\* evaluator_run_dir or .ares/evaluator_runs/<candidate_hash>
OneDir(c) == CHOOSE d \in Candidate : TRUE    \* the hash left out of the path
Dir(c) == c

Goto(a, place) == pc' = [pc EXCEPT ![a] = place]

\* _write_inputs: with a mutable file there, candidate.json is opened for it.
Stage(a) ==
    /\ pc[a] = "idle"
    /\ IF file[of[a]] = None
       THEN /\ Goto(a, "spawn")
            /\ UNCHANGED <<text, staged>>
       ELSE /\ Goto(a, "fill")
            /\ text' = [text EXCEPT ![a] = file[of[a]]]
            /\ staged' = [staged EXCEPT ![Dir(of[a])] = Torn]
    /\ UNCHANGED <<of, file, edited, metrics, status, judged, child, found, row>>

Fill(a) ==
    /\ pc[a] = "fill"
    /\ staged' = [staged EXCEPT ![Dir(of[a])] = text[a]]
    /\ Goto(a, "spawn")
    /\ UNCHANGED <<of, file, edited, metrics, status, judged, child, text, found, row>>

Spawn(a) ==
    /\ pc[a] = "spawn"
    /\ child' = [child EXCEPT ![a] = "load"]
    /\ Goto(a, "wait")
    /\ UNCHANGED <<of, file, edited, dirVars, text, found, row>>

\* TimeoutExpired: the child has been killed, or has ended too late.
Timeout(a) ==
    /\ pc[a] = "wait"
    /\ child' = [child EXCEPT ![a] = "ended"]
    /\ Goto(a, "blocked")
    /\ UNCHANGED <<of, file, edited, dirVars, text, found, row>>

ReturnedUnchecked(a) ==      \* the files are taken to be there
    /\ pc[a] = "wait"
    /\ child[a] = "ended"
    /\ Goto(a, "status")
    /\ UNCHANGED <<of, file, edited, dirVars, child, text, found, row>>

\* The child has ended, with whatever exit code; do both files exist?
Returned(a) ==
    /\ pc[a] = "wait"
    /\ child[a] = "ended"
    /\ Goto(a, IF metrics[Dir(of[a])] = None \/ status[Dir(of[a])] = None
               THEN "blocked" ELSE "status")
    /\ UNCHANGED <<of, file, edited, dirVars, child, text, found, row>>

\* json.loads(status_out.read_text()); a torn file raises.  A status file
\* that says BLOCKED has no "decision", for which the default is DISCARD.
DefaultOnly(s) == IF s = "BLOCKED" THEN "DISCARD" ELSE s   \* the default left standing
DecisionIn(s) == s

ReadStatus(a) ==
    /\ pc[a] = "status"
    /\ IF status[Dir(of[a])] = Torn
       THEN Goto(a, "over") /\ UNCHANGED found
       ELSE /\ found' = [found EXCEPT ![a] = DecisionIn(status[Dir(of[a])])]
            /\ Goto(a, "metrics")
    /\ UNCHANGED <<of, file, edited, dirVars, child, text, row>>

\* json.loads(metrics_out.read_text()), then the INSERT.
ReadMetrics(a) ==
    /\ pc[a] = "metrics"
    /\ IF metrics[Dir(of[a])] = Torn
       THEN UNCHANGED row
       ELSE row' = [row EXCEPT ![a] =
                       [decision |-> found[a], score |-> metrics[Dir(of[a])]]]
    /\ Goto(a, "over")
    /\ UNCHANGED <<of, file, edited, dirVars, child, text, found>>

RecordBlocked(a) ==
    /\ pc[a] = "blocked"
    /\ row' = [row EXCEPT ![a] = [decision |-> "BLOCKED", score |-> None]]
    /\ Goto(a, "over")
    /\ UNCHANGED <<of, file, edited, dirVars, child, text, found>>

\* The process is killed.  A child it has started goes on by itself.
RunnerDies(a) ==
    /\ pc[a] \notin {"idle", "over"}
    /\ Goto(a, "over")
    /\ UNCHANGED <<of, file, edited, dirVars, child, text, found, row>>

---------------------------------------------------------------------------
(* The child: _build_default_evaluator_script.                             *)

Verdict(v) == IF v \in Broken \cup {None, Torn} THEN "BLOCKED"
              ELSE IF v \in Good THEN "KEEP" ELSE "DISCARD"

Child(a, place) == child' = [child EXCEPT ![a] = place]

Load(a) ==
    /\ child[a] = "load"
    /\ text' = [text EXCEPT ![a] = staged[Dir(of[a])]]
    /\ Child(a, IF Verdict(staged[Dir(of[a])]) = "BLOCKED" THEN "status" ELSE "metrics")
    /\ UNCHANGED <<of, file, edited, dirVars, pc, found, row>>

OpenMetrics(a) ==
    /\ child[a] = "metrics"
    /\ metrics' = [metrics EXCEPT ![Dir(of[a])] = Torn]
    /\ Child(a, "score")
    /\ UNCHANGED <<of, file, edited, staged, status, judged, pc, text, found, row>>

WriteMetrics(a) ==
    /\ child[a] = "score"
    /\ metrics' = [metrics EXCEPT ![Dir(of[a])] = text[a]]
    /\ Child(a, "status")
    /\ UNCHANGED <<of, file, edited, staged, status, judged, pc, text, found, row>>

OpenStatus(a) ==
    /\ child[a] = "status"
    /\ status' = [status EXCEPT ![Dir(of[a])] = Torn]
    /\ Child(a, "decide")
    /\ UNCHANGED <<of, file, edited, staged, metrics, judged, pc, text, found, row>>

WriteStatus(a) ==
    /\ child[a] = "decide"
    /\ status' = [status EXCEPT ![Dir(of[a])] = Verdict(text[a])]
    /\ judged' = judged \cup {<<of[a], Verdict(text[a])>>}
    /\ Child(a, "ended")
    /\ UNCHANGED <<of, file, edited, staged, metrics, pc, text, found, row>>

\* An exception, a signal, out of memory.
ChildDies(a) ==
    /\ child[a] \notin {"none", "ended"}
    /\ Child(a, "ended")
    /\ UNCHANGED <<of, file, edited, dirVars, pc, text, found, row>>

\* External: a worker writes or removes the candidate's file.
Edit(c) ==
    /\ \E v \in (Content \cup {None}) \ {file[c]} : file' = [file EXCEPT ![c] = v]
    /\ edited' = edited \cup {c}
    /\ UNCHANGED <<of, dirVars, pc, child, text, found, row>>

Run(a) ==
    \/ Stage(a) \/ Fill(a) \/ Spawn(a) \/ Timeout(a) \/ Returned(a)
    \/ ReadStatus(a) \/ ReadMetrics(a) \/ RecordBlocked(a) \/ RunnerDies(a)

Evaluate(a) ==
    \/ Load(a) \/ OpenMetrics(a) \/ WriteMetrics(a) \/ OpenStatus(a)
    \/ WriteStatus(a) \/ ChildDies(a)

Next ==
    \/ \E a \in Attempt : Run(a) \/ Evaluate(a)
    \/ \E c \in Candidate : Edit(c)

Spec == Init /\ [][Next]_vars

---------------------------------------------------------------------------
(* Properties.                                                             *)

\* A recorded KEEP or DISCARD was written by an evaluator for this very
\* candidate: whatever attempts are killed, time out, overlap or find old
\* files, no candidate gets the decision of another.
\* (evaluator_runner.py:112-117, 141-151)
DecisionsAreEarned ==
    \A a \in Attempt : row[a] # None =>
        \/ row[a].decision = "BLOCKED"
        \/ <<of[a], row[a].decision>> \in judged

\* As long as nobody touches the candidate's file, every row about it that
\* is not BLOCKED has its decision and its score, although attempts share a
\* directory and read each other's files: the evaluator is deterministic.
\* (evaluator_runner.py:38-40, 129-163; tests/test_evaluator_runner.py:79)
UntouchedIsJudgedRight ==
    \A a \in Attempt :
        row[a] # None /\ of[a] \notin edited /\ row[a].decision # "BLOCKED" =>
            /\ row[a].decision = Verdict(file[of[a]])
            /\ row[a].score = file[of[a]]

\* tests/test_evaluator_runner.py:3-4 "a stale evaluator artifact cannot
\* promote; KEEP is the only path to promotion": a row says KEEP only when
\* what it is about, by its metrics, deserves it.
KeepIsOfItsScore ==
    \A a \in Attempt :
        row[a] # None /\ row[a].decision = "KEEP" => row[a].score \in Good
=============================================================================
