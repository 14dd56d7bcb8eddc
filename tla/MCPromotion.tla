---------------------------- MODULE MCPromotion -----------------------------
(* Instances of Promotion for TLC. *)
EXTENDS Promotion, TLC

CONSTANTS p1, p2, r1, r2, v1, v2, v3

\* One process per run.
OneEach == (p1 :> r1) @@ (p2 :> r2)
OneRun == p1 :> r1

Values == Permutations(Value)

\* A kill, an edit, a rollback: two of the three in a behaviour.
TwoDisturbances == edits + rollbacks + crashes =< 2

Bounded == Init /\ [][Next /\ TwoDisturbances']_vars
=============================================================================
