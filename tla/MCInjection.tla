----------------------------- MODULE MCInjection -----------------------------
(* Model-checking instance of Injection: a container of each shape, and one     *)
(* whose labels are refused while its annotations are served.                  *)
EXTENDS Injection

MCShapes == { <<"volume", "plain">>, <<"client", "broken">>, <<"broken", "hook">>,
              <<"broken", "plain">> }
=============================================================================
