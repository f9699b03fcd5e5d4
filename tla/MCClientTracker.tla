--------------------------- MODULE MCClientTracker ---------------------------
(* Model-checking instance of ClientTracker: the fairness over timer numbers   *)
(* is complete because one container makes at most MaxRuns expectations.      *)
EXTENDS ClientTracker
=============================================================================
