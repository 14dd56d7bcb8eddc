--------------------------- MODULE PromotionLedger --------------------------
(***************************************************************************)
(* What "Idempotent promotion transaction" (promotion_gate.py:318) comes   *)
(* to, without a lock, a work tree, an index, a row that is half done, or  *)
(* a process that may die: iterations are evaluated one after the other;   *)
(* the newest of a run is published, at most once, as it was evaluated; it *)
(* is recorded with the last publication when that has its content, its    *)
(* own or not.  One that is overtaken before it is published or recorded   *)
(* stays so.  Abstract specification; Promotion implements it with one     *)
(* promoter, as long as nobody edits a candidate or reverts.               *)
(***************************************************************************)
EXTENDS Integers, Sequences

CONSTANTS
    Key,      \* pairs of a run and the number of an iteration
    Value,    \* contents
    None

VARIABLES
    evaluated,   \* the content that was evaluated for a key, or None
    published,   \* the contents published so far, with their keys
    recorded     \* which of them a key's record names, 0 without one

Latest == published[Len(published)].tree

Newest(k) ==
    /\ evaluated[k] # None
    /\ \A j \in Key : j[1] = k[1] /\ evaluated[j] # None => j[2] =< k[2]

Init ==
    /\ evaluated = [k \in Key |-> None]
    /\ \E v \in Value : published = <<[tree |-> v, key |-> None]>>
    /\ recorded = [k \in Key |-> 0]

Evaluate(k) ==
    /\ \A j \in Key : j[1] = k[1] => (evaluated[j] # None <=> j[2] < k[2])
    /\ \E v \in Value : evaluated' = [evaluated EXCEPT ![k] = v]
    /\ UNCHANGED <<published, recorded>>

Publish(k) ==
    /\ Newest(k)
    /\ recorded[k] = 0
    /\ \A i \in 1 .. Len(published) : published[i].key # k
    /\ published' = Append(published, [tree |-> evaluated[k], key |-> k])
    /\ UNCHANGED <<evaluated, recorded>>

Record(k) ==
    /\ Newest(k)
    /\ recorded[k] = 0
    /\ Latest = evaluated[k]
    /\ recorded' = [recorded EXCEPT ![k] = Len(published)]
    /\ UNCHANGED <<evaluated, published>>

Next == \E k \in Key : Evaluate(k) \/ Publish(k) \/ Record(k)

Spec == Init /\ [][Next]_<<evaluated, published, recorded>>
=============================================================================
