------------------------------ MODULE MCGuard ------------------------------
(* Instances of Guard for TLC. *)
EXTENDS Guard, TLC

CONSTANTS s1, s2

MCField == {"goal", "oscillation_policy"}
MCValue == {"old", "new", "warn", "halt"}
Only(f, v) == [Nothing EXCEPT ![f] = v]
\* The last one is a command without options, which still writes the file.
MCChange == {Only("goal", "new"), Only("oscillation_policy", "warn"),
             Only("oscillation_policy", "halt"), Nothing}
MCDefaults == [goal |-> "old", oscillation_policy |-> "warn"]

\* Weights a and b; the second one is not in every candidate.
MCCandidate == {"a" :> 1, "a" :> 2, ("a" :> 1) @@ ("b" :> 1)}

Shells == Permutations(Shell)

=============================================================================
