----------------------------- MODULE MCHeartbeat -----------------------------
(* Model-checking instance of Heartbeat. An interval of two units and a pass  *)
(* of up to two make ticks that are dropped and ticks that wait.              *)
EXTENDS Heartbeat

MCSteps == {1, 4}
=============================================================================
