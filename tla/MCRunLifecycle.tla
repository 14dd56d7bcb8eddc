--------------------------- MODULE MCRunLifecycle ---------------------------
(* Instances of RunLifecycle for TLC. *)
EXTENDS RunLifecycle, TLC

CONSTANTS s1, s2, r1, r2, p1

\* launchd's conductor.
AutoOnly == p1 :> AutoId

\* Commands of two shells overlap while they look for runs, make them and
\* number iterations; the rest of halt and of down runs alone.  The operators
\* decide that, of whom no fairness is assumed.
Racing == {"prompt", "create", "start", "max", "iterate"}
OnlyRacesOverlap ==
    \/ \A s \in Shell : shell[s].at \in Racing
    \/ \E t \in Shell : \A s \in Shell \ {t} : shell[s].at = "prompt"

FewOverlaps == Init /\ [][Next /\ OnlyRacesOverlap']_vars /\ Fairness

=============================================================================
