------------------------------ MODULE Pipeline ------------------------------
(***************************************************************************)
(* A conductor's way to a promotion, conductor.py:412-488: it looks for a  *)
(* KEEP, claims the lock, passes the ten gates of promotion_gate.py and    *)
(* runs the transaction of Promotion.  Meanwhile candidates are evaluated  *)
(* again and workers record costs (Budget).                                *)
(*                                                                         *)
(* Each gate looks at the database when its turn comes.  Gates 3, 4, 5     *)
(* and 7 hold by then: they ask again what has let the conductor get here. *)
(* Gates 1, 2 and 9 are a choice (section "The gates").  A candidate's     *)
(* hash is that of its content, which Promotion calls verdict.             *)
(***************************************************************************)
EXTENDS Promotion

CONSTANTS
    Outcome,      \* what an evaluator may record of a candidate
    MaxAgain,     \* bound: evaluations of a candidate that has one
    Price, Limit, DailyLimit, MaxCalls      \* as in Budget

VARIABLES
    rows,      \* evaluations: those of each candidate
    newest,    \* the one among them with the latest created_at
    again,     \* history: repeated evaluations
    seen,      \* the evaluation a conductor has found, None before
    bar,       \* best_score, None before it is read
    budget,    \* what gate 8 has told it
    last,      \* each run's committed row with the latest promoted_at
    spent, today, real, missed, calls        \* as in Budget

Costs == INSTANCE Budget

costVars == <<spent, today, real, missed, calls>>
evalVars == <<rows, newest, again>>
ownVars == <<seen, bar, budget>>
pipeVars == <<evalVars, ownVars, last, costVars>>
allVars == <<vars, pipeVars>>

Scores == {e.score : e \in Outcome}

ASSUME PipelineAssumption ==
    /\ Outcome \subseteq [decision : {"KEEP", "DISCARD", "BLOCKED"}, score : Nat]
    /\ MaxAgain \in Nat
    /\ None \notin Outcome \cup Nat
    /\ Price \subseteq Nat
    /\ Limit \in Nat /\ DailyLimit \in Nat
    /\ MaxCalls \in Nat

TypeOKAll ==
    /\ TypeOK
    /\ rows \in [Value -> SUBSET Outcome]
    /\ newest \in [Value -> Outcome \cup {None}]
    /\ \A v \in Value : newest[v] \in rows[v] \cup {None}
    /\ again \in 0 .. MaxAgain
    /\ seen \in [Promoter -> Outcome \cup {None}]
    /\ bar \in [Promoter -> Scores \cup {0, None}]
    /\ budget \in [Promoter -> {"unread", "under", "late", "over"}]
    /\ last \in [Run -> Key \cup {None}]
    /\ Costs!BudgetOK

InitAll ==
    /\ Init
    /\ rows = [v \in Value |-> {}]
    /\ newest = [v \in Value |-> None]
    /\ again = 0
    /\ seen = [p \in Promoter |-> None]
    /\ bar = [p \in Promoter |-> None]
    /\ budget = [p \in Promoter |-> "unread"]
    /\ last = [r \in Run |-> None]
    /\ Costs!NothingSpent

Performing(p) ==
    pc[p] \in {"select", "write", "copy", "add", "commit", "head", "record"}

Forget(p) ==
    /\ seen' = [seen EXCEPT ![p] = None]
    /\ bar' = [bar EXCEPT ![p] = None]
    /\ budget' = [budget EXCEPT ![p] = "unread"]

---------------------------------------------------------------------------
(* The evaluations table (external: the evaluator's jobs; see Evaluation). *)

InsertOrIgnore(v, e) ==      \* candidate_hash taken for a unique key
    /\ rows' = [rows EXCEPT ![v] = IF @ = {} THEN {e} ELSE @]
    /\ newest' = [newest EXCEPT ![v] = e]

\* INSERT of an evaluation.  (No two of a candidate in the same second.)
Insert(v, e) ==
    /\ rows' = [rows EXCEPT ![v] = @ \cup {e}]
    /\ newest' = [newest EXCEPT ![v] = e]

\* The next iteration of a run, with its KEEP.  A conductor of the run that
\* has found an earlier one claims the lock first: a claim does not look at
\* iterations, so the other order gives the same.
NextIteration(r) ==
    /\ \A p \in Promoter : RunOf[p] = r /\ pc[p] = "idle" => seen[p] = None
    /\ Iterate(r)
    /\ \E e \in Outcome : e.decision = "KEEP" /\ Insert(file', e)
    /\ UNCHANGED <<again, ownVars, last, costVars>>

\* A late or repeated attempt at some candidate.
EvaluateAgain(v) ==
    /\ rows[v] # {}
    /\ again < MaxAgain
    /\ again' = again + 1
    /\ \E e \in Outcome : Insert(v, e)
    /\ UNCHANGED <<vars, ownVars, last, costVars>>

---------------------------------------------------------------------------
(* Up to the lock.                                                         *)

\* SELECT ... FROM evaluations ORDER BY created_at DESC LIMIT 1.  Without a
\* KEEP nothing happens.
Consider(p) ==
    /\ pc[p] = "idle"
    /\ seen[p] = None
    /\ latest[RunOf[p]] > 0
    /\ LET e == newest[verdict[<<RunOf[p], latest[RunOf[p]]>>]]
       IN  /\ e # None
           /\ e.decision = "KEEP"
           /\ seen' = [seen EXCEPT ![p] = e]
    /\ UNCHANGED <<vars, evalVars, bar, budget, last, costVars>>

\* claim_promotion_lock returns False: another run holds the lock, or the
\* SELECT raises.
TurnedAway(p) ==
    /\ pc[p] = "idle"
    /\ seen[p] # None
    /\ Forget(p)
    /\ UNCHANGED <<vars, evalVars, last, costVars>>

Claim(p) ==
    /\ seen[p] # None
    /\ ClaimSelect(p)
    /\ UNCHANGED pipeVars

TakeLock(p) ==
    /\ ClaimInsert(p) \/ ClaimTake(p) \/ ClaimFails(p)
    /\ IF pc'[p] = "idle" THEN Forget(p) ELSE UNCHANGED ownVars
    /\ UNCHANGED <<evalVars, last, costVars>>

---------------------------------------------------------------------------
(* The gates.                                                              *)

\* Gate 6: a score of nine tenths of the best is let through, and any score
\* when the best has none above 0.
Regresses(score, top) == top > 0 /\ 10 * score < 9 * top

ReadOwnBar(p) ==      \* joined on the candidate that is to be promoted
    /\ pc[p] = "gates"
    /\ bar[p] = None
    /\ \E e \in rows[verdict[job[p]]] : bar' = [bar EXCEPT ![p] = e.score]
    /\ UNCHANGED <<vars, evalVars, seen, budget, last, costVars>>

\* validate_roles has worked.  The last committed promotion, joined with the
\* evaluations of its candidate: any one of them.
ReadBar(p) ==
    /\ pc[p] = "gates"
    /\ bar[p] = None
    /\ IF last[RunOf[p]] = None
       THEN bar' = [bar EXCEPT ![p] = 0]
       ELSE \E e \in rows[verdict[last[RunOf[p]]]] : bar' = [bar EXCEPT ![p] = e.score]
    /\ UNCHANGED <<vars, evalVars, seen, budget, last, costVars>>

\* Gate 8.
AskInverted(p) ==     \* over_budget, _ = check_budget(...), as the tick has it
    /\ pc[p] = "gates"
    /\ bar[p] # None
    /\ budget[p] = "unread"
    /\ budget' = [budget EXCEPT ![p] =
          IF Costs!CheckBudget(RunOf[p]) THEN "over" ELSE "under"]
    /\ UNCHANGED <<vars, evalVars, seen, bar, last, costVars>>

AskBudget(p) ==
    /\ pc[p] = "gates"
    /\ bar[p] # None
    /\ budget[p] = "unread"
    /\ budget' = [budget EXCEPT ![p] =
          IF Costs!CheckBudget(RunOf[p]) THEN "under" ELSE "over"]
    /\ UNCHANGED <<vars, evalVars, seen, bar, last, costVars>>

\* Gate 10, and no failure in the report.  What was read of evaluations is
\* not used again.
Pass(p) ==
    /\ GatesPass(p)
    /\ budget[p] \in {"under", "late"}
    /\ ~Regresses(seen[p].score, bar[p])
    /\ seen' = [seen EXCEPT ![p] = None]
    /\ bar' = [bar EXCEPT ![p] = None]
    /\ UNCHANGED <<evalVars, budget, last, costVars>>

\* A failure in the report.  Gate 1 refuses or accepts by the reviewer's
\* schema (its input is always empty); gate 2 has no paths to look at; gate
\* 9 asks the oscillation guard (see Guard) and counters that stay 0.
Refuse(p) ==
    /\ budget[p] # "unread"
    /\ GatesRefuse(p)
    /\ Forget(p)
    /\ UNCHANGED <<evalVars, last, costVars>>

Raise(p) ==
    /\ GatesRaise(p)
    /\ Forget(p)
    /\ UNCHANGED <<evalVars, last, costVars>>

---------------------------------------------------------------------------
(* The transaction, and the end.                                           *)

Transact(p) ==
    /\ SelectRow(p) \/ WriteRow(p) \/ Copy(p) \/ Add(p) \/ Commit(p) \/ GitFails(p)
          \/ RevParse(p)
    /\ UNCHANGED pipeVars

\* promoted_at is set again when the row becomes 'committed'.
Recorded(p) ==
    /\ Record(p)
    /\ last' = [last EXCEPT ![RunOf[p]] = job[p]]
    /\ Forget(p)
    /\ UNCHANGED <<evalVars, costVars>>

Leave(p) ==
    /\ Release(p) \/ Crash(p)
    /\ Forget(p)
    /\ UNCHANGED <<evalVars, last, costVars>>

ComeBack(p) == Restart(p) /\ UNCHANGED pipeVars

\* Costs come in at any time, also after gate 8 has looked.
Spend(r) ==
    /\ Costs!RecordCost(r)
    /\ budget' = [p \in Promoter |->
          IF RunOf[p] = r /\ budget[p] = "under" /\ spent'[r] # spent[r]
          THEN "late" ELSE budget[p]]
    /\ UNCHANGED <<vars, evalVars, seen, bar, last>>

NewDay == Costs!Midnight /\ UNCHANGED <<vars, evalVars, ownVars, last>>

Around ==
    /\ Clock \/ Edit \/ (\E k \in Key : Rollback(k))
    /\ UNCHANGED pipeVars

NextAll ==
    \/ Around \/ NewDay
    \/ \E r \in Run : NextIteration(r) \/ Spend(r)
    \/ \E v \in Value : EvaluateAgain(v)
    \/ \E p \in Promoter :
          \/ Consider(p) \/ TurnedAway(p) \/ Claim(p) \/ TakeLock(p)
          \/ ReadBar(p) \/ AskBudget(p) \/ Pass(p) \/ Refuse(p) \/ Raise(p)
          \/ Transact(p) \/ Recorded(p) \/ Leave(p) \/ ComeBack(p)

SpecAll == InitAll /\ [][NextAll]_allVars

---------------------------------------------------------------------------
(* Properties.                                                             *)

\* Whatever attempts are killed, repeated and evaluated anew in between, the
\* promotions of a run that are recorded one after the other each had a
\* KEEP, with a score that some evaluation of the one before lets pass.
\* "Some": once a repeated evaluation is BLOCKED, with the score 0, any
\* score passes.  With two processes of one run the bar may be that of the
\* winner before.  (promotion_gate.py:136-145, conductor.py:413-441)
EachWinnerMeetsTheBar ==
    [][OneProcessPerRun => \A r \in Run : last'[r] # last[r] =>
          \E e \in rows[verdict[last'[r]]] :
              /\ e.decision = "KEEP"
              /\ last[r] # None =>
                    \E b \in rows[verdict[last[r]]] : ~Regresses(e.score, b.score)]_allVars

\* A run that is over its budget is promoted only if a cost has been
\* recorded since its gate 8.  (promotion_gate.py:161-171)
OverBudgetOnlyByLateCosts ==
    \A p \in Promoter : Performing(p) =>
        \/ budget[p] = "late"
        \/ /\ Limit # 0 => spent[RunOf[p]] =< Limit
           /\ DailyLimit # 0 => today[RunOf[p]] =< DailyLimit

\* What gate 8 looks at is never more than what the calls of the run have
\* cost, and short of it by a cent a call at most, beside the calls that were
\* not counted at all.  (budget.py:97-120, 204-231)
ShortByACentACall == Costs!ShortByACentACall
=============================================================================
