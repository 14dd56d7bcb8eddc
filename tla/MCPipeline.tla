----------------------------- MODULE MCPipeline -----------------------------
(* Instances of Pipeline for TLC. *)
EXTENDS Pipeline, TLC

CONSTANTS p1, r1, v1, v2

OneRun == p1 :> r1

\* No step tells v1 from v2: the behaviours that start from the other one
\* are the same with the names exchanged.
InitV1 == InitAll /\ best = v1

\* Beside the kill, one thing comes in from outside: a cost of two and a half
\* cents or a repeated evaluation.  Other calls only while nothing is promoted.
OneDisturbance ==
    \/ latest[r1] = 0
    \/ again + calls[r1] =< 1 /\ real[r1] \in {0, 250}

\* The first winner has the higher score, so that the next one may be worse.
FirstIsBest ==
    latest[r1] = 0 => \A v \in Value : newest'[v] # newest[v] => newest'[v].score = 10

FromV1 == InitV1 /\ [][NextAll /\ OneDisturbance' /\ FirstIsBest]_allVars

\* The evaluator's: a KEEP at the floor, one above it, an attempt that ran
\* out of time.
Outcomes == {[decision |-> "KEEP", score |-> 8], [decision |-> "KEEP", score |-> 10],
             [decision |-> "BLOCKED", score |-> 0]}

\* Under a cent, two and a half, and 29 cents.
Prices == {99, 250, 2900}
=============================================================================
