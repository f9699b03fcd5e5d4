------------------------------ MODULE MCServer ------------------------------
(***************************************************************************)
(* Model-checking instance of Server: its constants are given in the cfg   *)
(* files, connections as model values.                                     *)
(***************************************************************************)
EXTENDS Server
=============================================================================
