------------------------------- MODULE Budget -------------------------------
(***************************************************************************)
(* ar724/budget.py: the cost_events table and the check that gate 8 makes  *)
(* of it.  Workers record a call when it is over.  Prices are what the     *)
(* provider charges, in hundredths of a cent; a row has whole cents.       *)
(***************************************************************************)
EXTENDS Integers

CONSTANTS
    Run,
    Price,       \* what a call may cost
    Limit,       \* runs.budget_cents, 0 for none
    DailyLimit,  \* runs.daily_budget_cents, 0 for none
    MaxCalls     \* bound: calls of a run

VARIABLES
    spent,     \* SUM(cost_cents) of each run
    today,     \* the same of the rows whose date is today
    real,      \* history: what the calls have cost
    missed,    \* history: what those of them have cost that no row counts
    calls      \* history: how many they were

BudgetOK ==
    /\ spent \in [Run -> Nat]
    /\ today \in [Run -> Nat]
    /\ real \in [Run -> Nat]
    /\ missed \in [Run -> Nat]
    /\ calls \in [Run -> 0 .. MaxCalls]

NothingSpent ==
    /\ spent = [r \in Run |-> 0]
    /\ today = [r \in Run |-> 0]
    /\ real = [r \in Run |-> 0]
    /\ missed = [r \in Run |-> 0]
    /\ calls = [r \in Run |-> 0]

\* int(cost_cents), and cost_cents is a sum and product of floats: of a price
\* of whole cents it may come out just below, and int() takes a cent off
\* (0.29 * 100.0 is 28.999...).  Above it never gets to the next cent.
WholeDollars(price) == {100 * (price \div 10000)}   \* cut before `* 100.0`
Cents(price) ==
    IF price = 0 THEN {0} ELSE {price \div 100, (price - 1) \div 100}

\* INSERT INTO cost_events, for a model that has a profile.
Counted(r, price) ==
    /\ \E cents \in Cents(price) :
          /\ spent' = [spent EXCEPT ![r] = @ + cents]
          /\ today' = [today EXCEPT ![r] = @ + cents]
    /\ UNCHANGED missed

\* A model without a profile: the row says 0.  Or there is no row at all: the
\* INSERT raises, since the database stays locked or another call has taken
\* the id, which is the microsecond.
Missed(r, price) ==
    /\ missed' = [missed EXCEPT ![r] = @ + price]
    /\ UNCHANGED <<spent, today>>

\* record_cost.
RecordCost(r) ==
    /\ calls[r] < MaxCalls
    /\ calls' = [calls EXCEPT ![r] = @ + 1]
    /\ \E price \in Price :
          /\ real' = [real EXCEPT ![r] = @ + price]
          /\ Counted(r, price) \/ Missed(r, price)

\* The date of now_iso() changes.
Midnight ==
    /\ today' = [r \in Run |-> 0]
    /\ UNCHANGED <<spent, real, missed, calls>>

Spec ==
    /\ NothingSpent
    /\ [][Midnight \/ \E r \in Run : RecordCost(r)]_<<spent, today, real, missed, calls>>

\* check_budget: spending a budget to its last cent is allowed.
CheckBudget(r) ==
    /\ Limit # 0 => spent[r] =< Limit
    /\ DailyLimit # 0 => today[r] =< DailyLimit

\* What gate 8 looks at is never more than what the calls have cost, and is
\* short of it by a cent a call at most, beside the calls that were not
\* counted at all: a run may overspend by that much, and no more, before
\* check_budget sees it.  (budget.py:97-120, 204-231)
ShortByACentACall ==
    \A r \in Run :
        /\ 100 * spent[r] =< real[r]
        /\ real[r] =< 100 * spent[r] + 100 * calls[r] + missed[r]
        /\ today[r] =< spent[r]
=============================================================================
