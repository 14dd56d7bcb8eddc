---------------------------- MODULE MCPhaseJobs -----------------------------
(* Instances of PhaseJobs for TLC. *)
EXTENDS PhaseJobs, TLC

CONSTANTS c1, c2

Conductors == Permutations(Conductor)
=============================================================================
