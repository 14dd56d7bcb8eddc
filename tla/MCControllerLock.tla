-------------------------- MODULE MCControllerLock --------------------------
(* Instances of ControllerLock for TLC. *)
EXTENDS ControllerLock, TLC

CONSTANTS c1, c2, c3, r1, r2

\* Two processes of one run and one of another: both ways of sharing.
TwoRuns == (c1 :> r1) @@ (c2 :> r1) @@ (c3 :> r2)

=============================================================================
