------------------------------ MODULE MCBundle ------------------------------
(* Model-checking instance of Bundle. The source loses k1 and gains k3, whose  *)
(* value is too big, at its first rotation; its second leaves it malformed.    *)
EXTENDS Bundle

Line(k, s) == [key |-> k, size |-> s]
MCLines == << <<Line("k1", "some"), Line("k2", "empty")>>,
              <<Line("k2", "some"), Line("k3", "big")>>,
              <<Line("k2", "some"), Line(Malformed, "some"), Line("k4", "some")>> >>
MCBinary == <<"some", "empty", "big">>

Target1(kind, key, ptr) == [kind |-> kind, key |-> key, pointer |-> ptr]
MCPlans == {
    <<Target1("file", "k1", TRUE), Target1("envdir", NoKey, FALSE)>>,
    <<Target1("whole", NoKey, TRUE), Target1("dotenv", NoKey, FALSE),
      Target1("env", "k2", FALSE)>>,
    <<Target1("file", "k2", FALSE), Target1("envall", NoKey, FALSE)>>,
    <<Target1("whole", NoKey, FALSE), Target1("file", "k4", FALSE)>>,
    <<Target1("envdir", NoKey, FALSE), Target1("env", "k3", FALSE)>> }
=============================================================================
