------------------------------- MODULE MCDag --------------------------------
(* Instances of Dag for TLC. *)
EXTENDS Dag

CONSTANTS t1, t2, t3

=============================================================================
