---------------------------- MODULE MCHeartbeat -----------------------------
(* An instance of Heartbeat for TLC; the constants are numbers. *)
EXTENDS Heartbeat
=============================================================================
