-------------------------- MODULE EvaluationProofs --------------------------
(***************************************************************************)
(* Proofs about Evaluation, for any candidates, attempts and contents.     *)
(***************************************************************************)
EXTENDS Evaluation, TLAPS

(***************************************************************************)
(* What a process relies on between two steps.  The files an attempt has   *)
(* found are never removed again, only emptied; a child comes after the    *)
(* staging and writes metrics only of a candidate it can score.            *)
(***************************************************************************)
Reading ==
    /\ \A a \in Attempt : pc[a] \in {"idle", "fill", "spawn"} => child[a] = "none"
    /\ \A a \in Attempt : pc[a] \in {"status", "metrics"} =>
          metrics[of[a]] # None /\ status[of[a]] # None
    /\ \A a \in Attempt : pc[a] = "metrics" => found[a] \in Decision
    /\ \A a \in Attempt : child[a] \in {"metrics", "score"} =>
          text[a] \in Content /\ Verdict(text[a]) # "BLOCKED"

LEMMA VerdictIsDecision == \A v : Verdict(v) \in Decision /\ Verdict(v) \notin {None, Torn}
BY EvaluationAssumption DEF EvaluationAssumption, Verdict, Decision

LEMMA Initially == Init => TypeOK /\ Reading
BY EvaluationAssumption
   DEF EvaluationAssumption, Init, TypeOK, Reading, Decision, Text, PC, Row

\* The steps of run_evaluator keep TypeOK and Reading.
LEMMA RunStep ==
    ASSUME TypeOK, Reading, NEW a \in Attempt, Run(a)
    PROVE  TypeOK' /\ Reading'
<1> USE EvaluationAssumption
    DEF EvaluationAssumption, TypeOK, Reading, Decision, Text, PC, Row,
        Goto, Child, Dir, dirVars
<1>1. CASE Stage(a)
  BY <1>1 DEF Stage, Verdict
<1>2. CASE Fill(a)
  BY <1>2 DEF Fill, Verdict
<1>3. CASE Spawn(a) \/ Timeout(a)
  BY <1>3 DEF Spawn, Timeout, Verdict
<1>4. CASE Returned(a) \/ RunnerDies(a)
  BY <1>4 DEF Returned, RunnerDies, Verdict
<1>5. CASE ReadStatus(a)
  BY <1>5 DEF ReadStatus, DecisionIn, Verdict
<1>6. CASE ReadMetrics(a)
  BY <1>6 DEF ReadMetrics, Verdict
<1>7. CASE RecordBlocked(a)
  BY <1>7 DEF RecordBlocked, Verdict
<1> QED
  BY <1>1, <1>2, <1>3, <1>4, <1>5, <1>6, <1>7 DEF Run

\* So do the steps of a child.
LEMMA EvaluateStep ==
    ASSUME TypeOK, Reading, NEW a \in Attempt, Evaluate(a)
    PROVE  TypeOK' /\ Reading'
<1> USE EvaluationAssumption
    DEF EvaluationAssumption, TypeOK, Reading, Decision, Text, PC, Row,
        Goto, Child, Dir, dirVars
<1>1. CASE Load(a)
  BY <1>1 DEF Load, Verdict
<1>2. CASE OpenMetrics(a) \/ WriteMetrics(a)
  BY <1>2 DEF OpenMetrics, WriteMetrics, Verdict
<1>3. CASE OpenStatus(a)
  BY <1>3 DEF OpenStatus
<1>5. CASE WriteStatus(a)
  <2>1. Verdict(text[a]) \in Decision
    BY VerdictIsDecision DEF Decision
  <2> HIDE DEF Decision
  <2> QED
    BY <1>5, <2>1, VerdictIsDecision DEF WriteStatus
<1>4. CASE ChildDies(a)
  BY <1>4 DEF ChildDies, Verdict
<1> QED
  BY <1>1, <1>2, <1>3, <1>4, <1>5 DEF Evaluate

LEMMA Types == Spec => [](TypeOK /\ Reading)
<1>1. TypeOK /\ Reading /\ [Next]_vars => TypeOK' /\ Reading'
  <2> SUFFICES ASSUME TypeOK, Reading, [Next]_vars
               PROVE  TypeOK' /\ Reading'
    OBVIOUS
  <2>1. CASE UNCHANGED vars
    BY <2>1 DEF vars, TypeOK, Reading
  <2>2. ASSUME NEW c \in Candidate, Edit(c)
        PROVE  TypeOK' /\ Reading'
    BY <2>2 DEF Edit, dirVars, TypeOK, Reading
  <2> QED
    BY <2>1, <2>2, RunStep, EvaluateStep DEF Next
<1> QED
  BY <1>1, Initially, PTL DEF Spec

\* Every variable keeps to its set of values.
THEOREM TypeCorrect == Spec => []TypeOK
BY Types, PTL

---------------------------------------------------------------------------
(***************************************************************************)
(* DecisionsAreEarned: what a status file says, and what an attempt has    *)
(* read of one, some child has written for this candidate.                 *)
(***************************************************************************)
Sourced ==
    /\ \A c \in Candidate : status[c] \in Decision => <<c, status[c]>> \in judged
    /\ \A a \in Attempt : found[a] \in Decision => <<of[a], found[a]>> \in judged

LEMMA EarnedStep ==
    TypeOK /\ Reading /\ Sourced /\ DecisionsAreEarned /\ [Next]_vars
        => (Sourced /\ DecisionsAreEarned)'
<1> SUFFICES ASSUME TypeOK, Reading, Sourced, DecisionsAreEarned, [Next]_vars
             PROVE  (Sourced /\ DecisionsAreEarned)'
  OBVIOUS
<1> USE EvaluationAssumption
    DEF EvaluationAssumption, TypeOK, Sourced, DecisionsAreEarned, Decision, Dir
<1>1. CASE UNCHANGED <<of, status, judged, found, row>>
  BY <1>1
<1>2. ASSUME NEW a \in Attempt, ReadStatus(a)
      PROVE  (Sourced /\ DecisionsAreEarned)'
  BY <1>2 DEF ReadStatus, DecisionIn, dirVars
<1>3. ASSUME NEW a \in Attempt, ReadMetrics(a)
      PROVE  (Sourced /\ DecisionsAreEarned)'
  BY <1>3 DEF ReadMetrics, Reading, Row, dirVars
<1>4. ASSUME NEW a \in Attempt, RecordBlocked(a)
      PROVE  (Sourced /\ DecisionsAreEarned)'
  BY <1>4 DEF RecordBlocked, Row, dirVars
<1>5. ASSUME NEW a \in Attempt, OpenStatus(a) \/ WriteStatus(a)
      PROVE  (Sourced /\ DecisionsAreEarned)'
  BY <1>5 DEF OpenStatus, WriteStatus, Verdict
<1>6. ASSUME NEW a \in Attempt,
             \/ Stage(a) \/ Fill(a) \/ Spawn(a) \/ Timeout(a) \/ Returned(a)
             \/ RunnerDies(a) \/ Load(a) \/ OpenMetrics(a) \/ WriteMetrics(a)
             \/ ChildDies(a)
      PROVE  (Sourced /\ DecisionsAreEarned)'
  BY <1>1, <1>6 DEF Stage, Fill, Spawn, Timeout, Returned, RunnerDies, Load,
                    OpenMetrics, WriteMetrics, ChildDies, dirVars
<1>7. ASSUME NEW c \in Candidate, Edit(c)
      PROVE  (Sourced /\ DecisionsAreEarned)'
  BY <1>1, <1>7 DEF Edit, dirVars
<1> QED
  BY <1>1, <1>2, <1>3, <1>4, <1>5, <1>6, <1>7 DEF Next, Run, Evaluate, vars

\* No candidate gets the decision of another, for any number of attempts.
THEOREM Earned == Spec => []DecisionsAreEarned
<1>1. Init => Sourced /\ DecisionsAreEarned
  BY EvaluationAssumption
     DEF EvaluationAssumption, Init, Sourced, DecisionsAreEarned, Decision
<1> QED
  BY <1>1, EarnedStep, Types, PTL DEF Spec

---------------------------------------------------------------------------
(***************************************************************************)
(* UntouchedIsJudgedRight: nothing in the directory of an untouched        *)
(* candidate, and nothing an attempt has read there, is about anything but *)
(* its file; torn and missing files lead to BLOCKED alone.                 *)
(***************************************************************************)
TrueFiles ==
    \A c \in Candidate \ edited :
        /\ staged[c] \in {None, Torn, file[c]}
        /\ metrics[c] \in {None, Torn, file[c]}
        /\ status[c] \in {None, Torn, "BLOCKED", Verdict(file[c])}

TrueReadings ==
    \A a \in Attempt : of[a] \notin edited =>
        /\ text[a] \in {None, Torn, file[of[a]]}
        /\ found[a] \in {None, "BLOCKED", Verdict(file[of[a]])}

Faithful == TrueFiles /\ TrueReadings /\ UntouchedIsJudgedRight

LEMMA TornIsBlocked == Verdict(None) = "BLOCKED" /\ Verdict(Torn) = "BLOCKED"
BY DEF Verdict

LEMMA FaithfulRun ==
    ASSUME TypeOK, Reading, Faithful, NEW a \in Attempt, Run(a)
    PROVE  Faithful'
<1> USE EvaluationAssumption
    DEF EvaluationAssumption, TypeOK, Faithful, TrueFiles, TrueReadings,
        UntouchedIsJudgedRight, Dir
<1>1. CASE Stage(a)
  BY <1>1 DEF Stage
<1>2. CASE Fill(a)
  BY <1>2 DEF Fill
<1>3. CASE Spawn(a) \/ Timeout(a) \/ Returned(a) \/ RunnerDies(a)
  BY <1>3 DEF Spawn, Timeout, Returned, RunnerDies, dirVars
<1>4. CASE ReadStatus(a)
  BY <1>4, TornIsBlocked DEF ReadStatus, DecisionIn, dirVars, Reading
<1>5. CASE ReadMetrics(a)
  <2>1. UNCHANGED <<of, file, edited, staged, metrics, status, text, found>>
    BY <1>5 DEF ReadMetrics, dirVars
  <2>2. metrics[of[a]] # None /\ found[a] \in Decision
    BY <1>5 DEF ReadMetrics, Reading
  <2>3. CASE row' = row
    BY <2>1, <2>3
  <2>4. CASE metrics[of[a]] # Torn
    <3>1. row' = [row EXCEPT ![a] = [decision |-> found[a], score |-> metrics[of[a]]]]
      BY <1>5, <2>4 DEF ReadMetrics
    <3>2. of[a] \notin edited => /\ metrics[of[a]] = file[of[a]]
                                /\ found[a] \in {"BLOCKED", Verdict(file[of[a]])}
      BY <2>2, <2>4 DEF Decision
    <3> QED
      BY <2>1, <3>1, <3>2
  <2> QED
    BY <1>5, <2>3, <2>4 DEF ReadMetrics
<1>6. CASE RecordBlocked(a)
  BY <1>6 DEF RecordBlocked, dirVars
<1> QED
  BY <1>1, <1>2, <1>3, <1>4, <1>5, <1>6 DEF Run

LEMMA FaithfulEvaluate ==
    ASSUME TypeOK, Reading, Faithful, NEW a \in Attempt, Evaluate(a)
    PROVE  Faithful'
<1> USE EvaluationAssumption
    DEF EvaluationAssumption, TypeOK, Faithful, TrueFiles, TrueReadings,
        UntouchedIsJudgedRight, Dir
<1>1. CASE Load(a)
  BY <1>1 DEF Load, dirVars
<1>2. CASE OpenMetrics(a) \/ WriteMetrics(a)
  BY <1>2, TornIsBlocked DEF OpenMetrics, WriteMetrics, Reading
<1>3. CASE OpenStatus(a)
  BY <1>3 DEF OpenStatus
<1>5. CASE WriteStatus(a)
  <2>1. of[a] \notin edited => Verdict(text[a]) \in {"BLOCKED", Verdict(file[of[a]])}
    BY TornIsBlocked
  <2> QED
    BY <1>5, <2>1 DEF WriteStatus
<1>4. CASE ChildDies(a)
  BY <1>4 DEF ChildDies, dirVars
<1> QED
  BY <1>1, <1>2, <1>3, <1>4, <1>5 DEF Evaluate

\* The evaluator is deterministic for a file nobody touches, with any number
\* of attempts in its directory.
THEOREM Deterministic == Spec => []UntouchedIsJudgedRight
<1>1. Init => Faithful
  BY DEF Init, Faithful, TrueFiles, TrueReadings, UntouchedIsJudgedRight
<1>2. TypeOK /\ Reading /\ Faithful /\ [Next]_vars => Faithful'
  <2> SUFFICES ASSUME TypeOK, Reading, Faithful, [Next]_vars
               PROVE  Faithful'
    OBVIOUS
  <2>1. CASE UNCHANGED vars
    BY <2>1 DEF vars, Faithful, TrueFiles, TrueReadings, UntouchedIsJudgedRight
  <2>2. ASSUME NEW c \in Candidate, Edit(c)
        PROVE  Faithful'
    BY <2>2 DEF Edit, dirVars, TypeOK, Faithful, TrueFiles, TrueReadings,
                UntouchedIsJudgedRight
  <2> QED
    BY <2>1, <2>2, FaithfulRun, FaithfulEvaluate DEF Next
<1>3. Faithful => UntouchedIsJudgedRight
  BY DEF Faithful
<1> QED
  BY <1>1, <1>2, <1>3, Types, PTL DEF Spec

---------------------------------------------------------------------------
(***************************************************************************)
(* What it takes for a KEEP to go with a score that does not deserve it    *)
(* (the run evaluation_stale finds one): two attempts at one candidate at  *)
(* a time, or a child that ends, by itself or at the time limit, just      *)
(* between its two files, having scored a poor candidate.  Without either, *)
(* a status file that says KEEP lies beside the metrics it was decided on, *)
(* beside torn ones, or beside those of a child about to write its own.    *)
(***************************************************************************)
Active(a) == pc[a] \notin {"idle", "over"} \/ child[a] \notin {"none", "ended"}

Apart == \A a, b \in Attempt : Active(a) /\ Active(b) /\ of[a] = of[b] => a = b

HalfWritten(a) == child[a] = "status" /\ text[a] \in Content \ (Good \cup Broken)

Unbroken == \A a \in Attempt : HalfWritten(a) => child'[a] # "ended"

Matching(c) ==
    status[c] = "KEEP" =>
        \/ metrics[c] \in Good \cup {Torn}
        \/ \E a \in Attempt : of[a] = c /\ HalfWritten(a)

Deserving(a) ==
    /\ child[a] \in {"status", "decide"} /\ text[a] \in Good => metrics[of[a]] = text[a]
    /\ pc[a] \in {"status", "metrics", "blocked"} => child[a] = "ended"
    /\ pc[a] = "metrics" /\ found[a] = "KEEP" => metrics[of[a]] \in Good \cup {Torn}

Matched ==
    /\ \A c \in Candidate : Matching(c)
    /\ \A a \in Attempt : Deserving(a)
    /\ KeepIsOfItsScore

LEMMA MatchedRun ==
    ASSUME TypeOK, Reading, Matched, Apart, NEW a \in Attempt, Run(a), Unbroken
    PROVE  Matched'
<1> USE EvaluationAssumption DEF EvaluationAssumption, TypeOK, Dir, Goto
<1>1. UNCHANGED <<of, metrics, status>>
  BY DEF Run, Stage, Fill, Spawn, Timeout, Returned, ReadStatus, ReadMetrics, RecordBlocked,
         RunnerDies, dirVars
<1>2. ASSUME NEW b \in Attempt, HalfWritten(b)
      PROVE  HalfWritten(b)'
  BY <1>2 DEF Run, Stage, Fill, Spawn, Timeout, Returned, ReadStatus, ReadMetrics,
              RecordBlocked, RunnerDies, HalfWritten, Unbroken, Reading
<1>3. \A c \in Candidate : Matching(c)'
  BY <1>1, <1>2 DEF Matched, Matching
<1>4. ASSUME NEW b \in Attempt
      PROVE  Deserving(b)'
  <2>1. CASE ReadStatus(a) /\ b = a
    <3>1. UNCHANGED <<child, text>> /\ pc[a] = "status"
      BY <2>1 DEF ReadStatus
    <3>2. ASSUME status[of[a]] = "KEEP"
          PROVE  metrics[of[a]] \in Good \cup {Torn}
      BY <3>1, <3>2 DEF Matched, Matching, Deserving, HalfWritten, Apart, Active
    <3>3. child[a] = "ended"
      BY <3>1 DEF Matched, Deserving
    <3>4. pc'[a] = "metrics" => found'[a] = status[of[a]]
      BY <2>1 DEF ReadStatus, DecisionIn
    <3> QED
      BY <1>1, <2>1, <3>1, <3>2, <3>3, <3>4 DEF Deserving
  <2>2. CASE ~(ReadStatus(a) /\ b = a)
    BY <1>1, <2>2 DEF Run, Stage, Fill, Spawn, Timeout, Returned, ReadStatus, ReadMetrics,
                      RecordBlocked, RunnerDies, Matched, Deserving, Reading
  <2> QED
    BY <2>1, <2>2
<1>5. KeepIsOfItsScore'
  <2>1. CASE ReadMetrics(a)
    <3>1. found[a] = "KEEP" => metrics[of[a]] \in Good \cup {Torn}
      BY <2>1 DEF ReadMetrics, Matched, Deserving
    <3> QED
      BY <2>1, <3>1 DEF ReadMetrics, Matched, KeepIsOfItsScore
  <2>2. CASE RecordBlocked(a)
    BY <2>2 DEF RecordBlocked, Matched, KeepIsOfItsScore
  <2>3. CASE UNCHANGED row
    BY <2>3 DEF Matched, KeepIsOfItsScore
  <2> QED
    BY <2>1, <2>2, <2>3 DEF Run, Stage, Fill, Spawn, Timeout, Returned, ReadStatus, RunnerDies
<1> QED
  BY <1>3, <1>4, <1>5 DEF Matched

LEMMA MatchedEvaluate ==
    ASSUME TypeOK, Reading, Matched, Apart, NEW a \in Attempt, Evaluate(a), Unbroken
    PROVE  Matched'
<1> USE EvaluationAssumption DEF EvaluationAssumption, TypeOK, Dir, Child
<1>1. UNCHANGED <<of, pc, found, row>>
  BY DEF Evaluate, Load, OpenMetrics, WriteMetrics, OpenStatus, WriteStatus, ChildDies
<1>2. KeepIsOfItsScore'
  BY <1>1 DEF Matched, KeepIsOfItsScore
<1>3. child[a] \notin {"none", "ended"} /\ pc[a] \notin {"status", "metrics", "blocked"}
  BY DEF Evaluate, Load, OpenMetrics, WriteMetrics, OpenStatus, WriteStatus, ChildDies,
         Matched, Deserving
<1>4. \A b \in Attempt : b # a => child'[b] = child[b] /\ text'[b] = text[b]
  BY DEF Evaluate, Load, OpenMetrics, WriteMetrics, OpenStatus, WriteStatus, ChildDies
<1>5. \A c \in Candidate : c # of[a] => metrics'[c] = metrics[c] /\ status'[c] = status[c]
  BY DEF Evaluate, Load, OpenMetrics, WriteMetrics, OpenStatus, WriteStatus, ChildDies, dirVars
<1>6. \A b \in Attempt : b # a /\ Active(b) => of[b] # of[a]
  BY <1>3 DEF Apart, Active
<1>7. ASSUME NEW b \in Attempt, b # a
      PROVE  Deserving(b)'
  BY <1>1, <1>4, <1>5, <1>6, <1>7 DEF Matched, Deserving, Active
<1>8. ASSUME NEW c \in Candidate, c # of[a]
      PROVE  Matching(c)'
  <2>1. \A b \in Attempt : of[b] = c /\ HalfWritten(b) => HalfWritten(b)'
    BY <1>4, <1>8 DEF HalfWritten
  <2> QED
    BY <1>1, <1>5, <1>8, <2>1 DEF Matched, Matching
<1>9. Deserving(a)' /\ Matching(of[a])'
  <2>0. \A b \in Attempt : of[b] = of[a] /\ HalfWritten(b) => b = a
    BY <1>6 DEF HalfWritten, Active
  <2>1. CASE Load(a)
    BY <1>1, <1>3, <2>0, <2>1
       DEF Load, Verdict, dirVars, Matched, Deserving, Matching, HalfWritten
  <2>2. CASE OpenMetrics(a)
    BY <1>1, <1>3, <2>2 DEF OpenMetrics, Matched, Deserving, Matching
  <2>3. CASE WriteMetrics(a)
    <3>1. text[a] \in Content /\ text[a] \notin Broken
      BY <2>3 DEF WriteMetrics, Reading, Verdict
    <3>2. metrics'[of[a]] = text[a] /\ child'[a] = "status" /\ text' = text
      BY <2>3 DEF WriteMetrics
    <3>3. text[a] \in Good \/ HalfWritten(a)'
      BY <3>1, <3>2 DEF HalfWritten
    <3> QED
      BY <1>1, <1>3, <3>2, <3>3 DEF Deserving, Matching
  <2>4. CASE OpenStatus(a)
    BY <1>1, <1>3, <2>4 DEF OpenStatus, Matched, Deserving, Matching
  <2>5. CASE WriteStatus(a)
    <3>1. status'[of[a]] = Verdict(text[a]) /\ child'[a] = "ended" /\ UNCHANGED <<metrics, text>>
      BY <2>5 DEF WriteStatus
    <3>2. Verdict(text[a]) = "KEEP" => text[a] \in Good
      BY DEF Verdict
    <3>3. text[a] \in Good => metrics[of[a]] = text[a]
      BY <2>5 DEF WriteStatus, Matched, Deserving
    <3> QED
      BY <1>1, <1>3, <3>1, <3>2, <3>3 DEF Deserving, Matching
  <2>6. CASE ChildDies(a)
    <3>1. ~HalfWritten(a) /\ UNCHANGED <<metrics, status>> /\ child'[a] = "ended"
      BY <2>6 DEF ChildDies, Unbroken, dirVars
    <3> QED
      BY <1>1, <1>3, <2>0, <3>1 DEF Matched, Deserving, Matching
  <2> QED
    BY <2>1, <2>2, <2>3, <2>4, <2>5, <2>6 DEF Evaluate
<1> QED
  BY <1>1, <1>2, <1>7, <1>8, <1>9 DEF Matched

\* A KEEP goes with a score that deserves it as long as attempts at one
\* candidate do not overlap and no child ends between its two files with a
\* poor candidate scored: nothing else, not a file that is rewritten, an
\* attempt killed anywhere or files left behind, separates the two.
THEOREM StaleOnlyHalfWritten ==
    Spec /\ []Apart /\ [][Unbroken]_vars => []KeepIsOfItsScore
<1>1. Init => Matched
  BY EvaluationAssumption DEF EvaluationAssumption, Init, Matched, Matching, Deserving,
                              KeepIsOfItsScore
<1>2. TypeOK /\ Reading /\ Matched /\ Apart /\ [Next]_vars /\ [Unbroken]_vars => Matched'
  <2> SUFFICES ASSUME TypeOK, Reading, Matched, Apart, [Next]_vars, [Unbroken]_vars
               PROVE  Matched'
    OBVIOUS
  <2>1. CASE UNCHANGED <<of, metrics, status, pc, child, text, found, row>>
    BY <2>1 DEF Matched, Matching, Deserving, HalfWritten, KeepIsOfItsScore
  <2>2. CASE UNCHANGED vars
    BY <2>1, <2>2 DEF vars
  <2>3. ASSUME NEW c \in Candidate, Edit(c)
        PROVE  Matched'
    BY <2>1, <2>3 DEF Edit, dirVars
  <2>4. ASSUME NEW a \in Attempt, Run(a) \/ Evaluate(a), Unbroken
        PROVE  Matched'
    BY <2>4, MatchedRun, MatchedEvaluate
  <2>5. CASE Next /\ Unbroken
    BY <2>3, <2>4, <2>5 DEF Next
  <2> QED
    BY <2>2, <2>5
<1>3. Matched => KeepIsOfItsScore
  BY DEF Matched
<1> QED
  BY <1>1, <1>2, <1>3, Types, PTL DEF Spec
=============================================================================
