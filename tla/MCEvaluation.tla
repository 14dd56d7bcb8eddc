---------------------------- MODULE MCEvaluation ----------------------------
(* Instances of Evaluation for TLC. *)
EXTENDS Evaluation, TLC

CONSTANTS a1, a2, a3, c1, c2, good, poor, broken

Attempts == Permutations(Attempt)

=============================================================================
