------------------------------ MODULE MCResolve ------------------------------
(***************************************************************************)
(* Model-checking instance of Resolve: every label map with an enable      *)
(* label or none and up to three others of those below, the alias doorway  *)
(* for some of them, against two berm.yml files and none.                  *)
(***************************************************************************)
EXTENDS Resolve

Ref(k, s, key) == [kind |-> k, source |-> s, key |-> key]
KeyRef == Ref("key", Unset, "K")
DbRef == Ref("sourcekey", "db", "K")
TlsRef == Ref("source", "tls", Unset)
BadRef == Ref("bad", Unset, Unset)
AllRef == Ref("all", Unset, Unset)

MCSuffixOrder ==
    <<"delivery", "dotenv", "enable", "env", "env.V", "env.acknowledge", "file.f.from",
      "file.f.mode", "mode", "name", "rotate", "source", "typo">>

MCShape ==
    [s \in {MCSuffixOrder[i] : i \in 1..Len(MCSuffixOrder)} |->
        CASE s = "env.V" -> [kind |-> "envvar", name |-> "V", attr |-> ""]
          [] s = "file.f.from" -> [kind |-> "file", name |-> "f", attr |-> "from"]
          [] s = "file.f.mode" -> [kind |-> "file", name |-> "f", attr |-> "mode"]
          [] s = "typo" -> [kind |-> "unknown", name |-> "", attr |-> ""]
          [] OTHER -> [kind |-> s, name |-> "", attr |-> ""]]

MCFileOrder == <<"f">>

\* The values of each label, by doorway.
LabelValues ==
    {<<"berm", "delivery", v>> : v \in {"client", "volume", "bad"}}
    \cup {<<"berm", "dotenv", v>> : v \in {"/d", "bad"}}
    \cup {<<"berm", "env", v>> :
            v \in {<<AllRef>>, <<KeyRef, DbRef>>, <<TlsRef, BadRef>>, <<>>}}
    \cup {<<"berm", "env.V", v>> : v \in {DbRef, BadRef}}
    \cup {<<"berm", "env.acknowledge", v>> : v \in {"true", "false"}}
    \cup {<<"berm", "file.f.from", v>> : v \in {KeyRef, DbRef, TlsRef, BadRef}}
    \cup {<<"berm", "file.f.mode", v>> : v \in {"m1", "bad"}}
    \cup {<<"berm", "mode", v>> : v \in {"m2"}}
    \cup {<<"berm", "name", "db">>, <<"berm", "name", Unset>>, <<"alias", "name", "app">>}
    \cup {<<"berm", "rotate", "x">>, <<"berm", "typo", "x">>}
    \cup {<<"berm", "source", v>> : v \in {"db", "bad"}}
    \cup {<<"alias", "source", v>> : v \in {"db", Unset}}
    \cup {<<"alias", "delivery", "client">>, <<"alias", "enable", "true">>,
          <<"alias", "env", <<KeyRef>> >>}

\* The label map with the entries of a set of (doorway, suffix, value) triples.
MapOf(T) ==
    [p \in Prefix |->
        [s \in {t[2] : t \in {t \in T : t[1] = p}} |->
            (CHOOSE t \in T : t[1] = p /\ t[2] = s)[3]]]

MCLabelMaps ==
    {MapOf(T \cup e) :
        T \in {{t, u, w} : t \in LabelValues, u \in LabelValues, w \in LabelValues},
        e \in {{}, {<<"berm", "enable", "true">>}, {<<"berm", "enable", "false">>}}}

Source(owner, access, format) == [owner |-> owner, access |-> access, format |-> format]
Shared == [app |-> Source(Unset, {}, Unset), db |-> Source("dba", {"app"}, "dotenv"),
           tls |-> Source("app", {}, "binary")]
Closed == [app |-> Source("dba", {}, Unset), db |-> Source(Unset, {}, Unset),
           tls |-> Source(Unset, {}, "other")]
Config(sources, delivery) == [sources |-> sources, delivery |-> delivery, mode |-> "0440"]

MCContexts ==
    {[config |-> c[1], default |-> c[2], identity |-> c[3]] :
        c \in {<<Config(Shared, "client"), Unset, "app">>,
               <<Config(Closed, Unset), "client", "app">>,
               <<Config(Shared, "client"), "hook", Unset>>,
               <<Unset, Unset, "app">>}}
=============================================================================
