------------------------------ MODULE MCLedger ------------------------------
(***************************************************************************)
(* Model-checking instance of Ledger: two containers, two saving           *)
(* goroutines and a history of at most MaxMutations live mutations, all    *)
(* given in the cfg files.                                                 *)
(***************************************************************************)
EXTENDS Ledger
=============================================================================
