------------------------------ MODULE MCVolume ------------------------------
(***************************************************************************)
(* Model-checking instances of VolumeDelivery. All containers name volume  *)
(* v1. The plan has two files, either of two sources (the hashes of one    *)
(* manifest may then straddle a rotation) or of the same one (the writes   *)
(* of one push may).                                                       *)
(***************************************************************************)
EXTENDS VolumeDelivery

CONSTANTS v1, s1, s2

OneVolume == [c \in Container |-> v1]
TwoSources == [f \in 1..2 |-> IF f = 1 THEN s1 ELSE s2]
SameSource == [f \in 1..2 |-> s1]
=============================================================================
