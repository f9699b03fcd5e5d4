------------------------------- MODULE Resolve -------------------------------
(***************************************************************************)
(* From a container's labels to its delivery plan: peerauth.ServiceName,   *)
(* label.Parse (internal/label/parse.go) and resolve.Resolve               *)
(* (internal/resolve/resolve.go), one step per label, suffix and delivery. *)
(*                                                                         *)
(* The labels are a Go map, so mergeDoorways meets them in any order. A    *)
(* label value is what its text parses to: a ref is a record, and a value  *)
(* the grammar refuses is marked bad. The spec Parse accumulates copies    *)
(* the merged values, so it is read off the merged map.                    *)
(***************************************************************************)
EXTENDS Naturals, Sequences

CONSTANTS
    LabelMaps,    \* the labels a container may carry, by doorway
    Contexts,     \* what Resolve is called with beside them: berm.yml, the default
                  \* delivery and the identity the runtime gives the container
    SuffixOrder,  \* suffixes, in string order
    Shape,        \* what a suffix is: its kind, and its variable, file and attribute
    FileOrder,    \* the delivery names of berm.file labels, in string order
    Unset         \* an absent label, source or field; the empty string

ASSUME ResolveAssumption ==
    /\ Unset \notin {"binary", "dotenv", "client", "env", "all"}
    /\ \A m \in LabelMaps : DOMAIN m = {"berm", "alias"}

\* A suffix is told by its shape; the orders list what labels may carry; the all
\* sentinel is a value of berm.env, not of berm.env.VAR.
ASSUME GrammarAssumption ==
    /\ SuffixOrder \in Seq(DOMAIN Shape)
    /\ \A s \in DOMAIN Shape, k \in {"env", "dotenv", "envdir"} : Shape[s].kind = k <=> s = k
    /\ \A s, t \in DOMAIN Shape :
          Shape[s].kind = "file" /\ Shape[t].kind = "file" /\ s # t
              => Shape[s].name # Shape[t].name \/ Shape[s].attr # Shape[t].attr
    /\ \A m \in LabelMaps : \A p \in DOMAIN m : \A s \in DOMAIN m[p] :
          /\ \E i \in DOMAIN SuffixOrder : SuffixOrder[i] = s
          /\ Shape[s].kind = "file" => \E i \in DOMAIN FileOrder : FileOrder[i] = Shape[s].name
          /\ Shape[s].kind = "envvar" /\ m[p][s] # Unset => m[p][s].kind # "all"

Prefix == {"berm", "alias"}
Mechanism == {"client", "hook", "volume"}

VARIABLES
    labels,   \* the container's labels: a partial map of suffixes for each doorway
    in,       \* the context of the call
    pc,       \* the stage of the pipeline
    service,  \* the identity derived for the container
    todo,     \* labels mergeDoorways has not met yet
    merged,   \* the suffix map of both doorways
    pos,      \* position of the loop over suffixes, in their string order
    plan,     \* the bindings resolved so far
    result    \* what the call returned: inert, a plan, or an error of some class

vars == <<labels, in, pc, service, todo, merged, pos, plan, result>>

Outcome(class, at) == [class |-> class, at |-> at]

\* firstNonEmpty, of two.
Or(a, b) == IF a # Unset THEN a ELSE b

Init ==
    /\ labels \in LabelMaps
    /\ in \in Contexts
    /\ pc = "identity"
    /\ service = Unset
    /\ todo = UNION {{p} \X DOMAIN labels[p] : p \in Prefix}
    /\ merged = <<>>
    /\ pos = 1
    /\ plan = {}
    /\ result = Unset

\* Every return of the pipeline.
Return(r) == pc' = "done" /\ result' = r

-----------------------------------------------------------------------------
\* peerauth.ServiceName: the berm.name override of either doorway, refused when
\* they differ, else the identity the runtime gives.
Label(p, s) == IF s \in DOMAIN labels[p] THEN labels[p][s] ELSE Unset

DeriveIdentity ==
    /\ pc = "identity"
    /\ LET primary == Label("berm", "name")
           alias == Label("alias", "name") IN
       \/ /\ primary # Unset /\ alias # Unset /\ primary # alias
          /\ Return(Outcome("IdentityConflict", "name"))
          /\ UNCHANGED service
       \/ /\ primary = Unset \/ alias = Unset \/ primary = alias
          /\ service' = Or(primary, Or(alias, in.identity))
          /\ \/ in.config = Unset /\ Return(Outcome("BadConfig", ""))
             \/ in.config # Unset /\ pc' = "merge" /\ UNCHANGED result
    /\ UNCHANGED <<labels, in, todo, merged, pos, plan>>

-----------------------------------------------------------------------------
\* label.Parse.

Put(m, s, v) == [t \in DOMAIN m \cup {s} |-> IF t = s THEN v ELSE m[t]]
Value(s) == IF s \in DOMAIN merged THEN merged[s] ELSE Unset

\* Mutated form: the label met last wins.
MergeLabel_LastWins(p, s) ==
    /\ pc = "merge"
    /\ <<p, s>> \in todo
    /\ todo' = todo \ {<<p, s>>}
    /\ merged' = Put(merged, s, labels[p][s])
    /\ UNCHANGED <<labels, in, pc, result, service, pos, plan>>

\* The loop of mergeDoorways: the same suffix with different values, one of them
\* empty or not, is an error.
MergeLabel(p, s) ==
    /\ pc = "merge"
    /\ <<p, s>> \in todo
    /\ todo' = todo \ {<<p, s>>}
    /\ \/ /\ s \in DOMAIN merged => merged[s] = labels[p][s]
          /\ merged' = Put(merged, s, labels[p][s])
          /\ UNCHANGED <<pc, result>>
       \/ /\ s \in DOMAIN merged /\ merged[s] # labels[p][s]
          /\ Return(Outcome("CrossPrefixConflict", s))
          /\ UNCHANGED merged
    /\ UNCHANGED <<labels, in, service, pos, plan>>

\* Mutated form: the loop over the suffixes starts one early.
Gate_OneEarly ==
    /\ pc = "merge"
    /\ todo = {}
    /\ \/ Value("enable") # "true" /\ Return(Outcome("inert", Unset)) /\ UNCHANGED pos
       \/ Value("enable") = "true" /\ pc' = "suffixes" /\ pos' = pos - 1 /\ UNCHANGED result
    /\ UNCHANGED <<labels, in, service, todo, merged, plan>>

\* The enable gate, after the merge.
Gate ==
    /\ pc = "merge"
    /\ todo = {}
    /\ \/ Value("enable") # "true" /\ Return(Outcome("inert", Unset))
       \/ Value("enable") = "true" /\ pc' = "suffixes" /\ UNCHANGED result
    /\ UNCHANGED <<labels, in, service, todo, merged, pos, plan>>

\* An env ref must parse, which an empty one does not, and name a key.
EnvRefError(ref) ==
    IF ref = Unset \/ ref.kind = "bad" THEN "Malformed"
    ELSE IF ref.kind = "source" THEN "WrongRefShape" ELSE "none"

\* parseEnvList: the first ref of the list that is refused.
EnvListError(refs) ==
    LET wrong == SelectSeq(refs, LAMBDA r : EnvRefError(r) # "none")
    IN IF wrong = <<>> THEN "none" ELSE EnvRefError(Head(wrong))

\* What the case of Parse's switch for a suffix of shape t says of value v. No
\* pattern matches the empty string.
SuffixError(t, v) ==
    CASE t.kind = "unknown" -> "UnknownSuffix"
      [] t.kind = "rotate" -> "RotateReserved"
      [] t.kind = "env" -> EnvListError(v)
      [] t.kind = "envvar" -> EnvRefError(v)
      [] t.kind = "file" /\ t.attr = "from" ->
            IF v = Unset \/ v.kind = "bad" THEN "Malformed" ELSE "none"
      [] t.kind = "delivery" -> IF v \in Mechanism THEN "none" ELSE "Malformed"
      [] \/ t.kind \in {"source", "owner", "mode", "dotenv", "envdir"}
         \/ t.kind = "file" /\ t.attr # "from" ->
            IF v \in {Unset, "bad"} THEN "Malformed" ELSE "none"
      [] OTHER -> "none"

\* The loop over the sorted suffixes of the merged map is at the one in place i.
SuffixAt(i) ==
    /\ SuffixOrder[i] \in DOMAIN merged
    /\ \A j \in pos..(i - 1) : SuffixOrder[j] \notin DOMAIN merged

\* One turn of it.
ParseSuffix ==
    /\ pc = "suffixes"
    /\ \E i \in pos..Len(SuffixOrder) :
          /\ SuffixAt(i)
          /\ LET s == SuffixOrder[i]
                 e == SuffixError(Shape[s], merged[s]) IN
             \/ e = "none" /\ pos' = i + 1 /\ UNCHANGED <<pc, result>>
             \/ e # "none" /\ Return(Outcome(e, s)) /\ UNCHANGED pos
    /\ UNCHANGED <<labels, in, service, todo, merged, plan>>

\* It is over.
SuffixesParsed == \A i \in pos..Len(SuffixOrder) : SuffixOrder[i] \notin DOMAIN merged

HasEnvLabel == \E s \in DOMAIN merged : Shape[s].kind \in {"env", "envvar"}

\* Any env label needs the acknowledgment.
CheckAck ==
    /\ pc = "suffixes"
    /\ SuffixesParsed
    /\ \/ /\ HasEnvLabel /\ Value("env.acknowledge") # "true"
          /\ Return(Outcome("EnvNoAck", "env"))
       \/ /\ HasEnvLabel => Value("env.acknowledge") = "true"
          /\ pc' = "mechanism" /\ UNCHANGED result
    /\ UNCHANGED <<labels, in, service, todo, merged, pos, plan>>

-----------------------------------------------------------------------------
\* resolve.Resolve: the deliveries the spec declares. Their place, a kind and an index
\* in its order, is the order they are resolved in.
NoRef == [kind |-> "whole", source |-> Unset, key |-> Unset]
DefaultSource == Or(Value("source"), service)
Mech == Or(Value("delivery"), Or(in.default, in.config.delivery))

EnvDelivery(at, var, ref) ==
    IF ref.kind = "all" THEN [at |-> at, shape |-> "all", name |-> Unset, ref |-> NoRef]
    ELSE [at |-> at, shape |-> "env", name |-> var, ref |-> ref]

\* The csv list, each var named for its key.
ListEnv == LET refs == IF "env" \in DOMAIN merged THEN merged["env"] ELSE <<>>
           IN {EnvDelivery(<<1, i>>, refs[i].key, refs[i]) : i \in 1..Len(refs)}

\* The rename form, sorted by var.
RenameEnv ==
    {EnvDelivery(<<2, i>>, Shape[SuffixOrder[i]].name, merged[SuffixOrder[i]]) :
        i \in {j \in DOMAIN SuffixOrder : SuffixOrder[j] \in DOMAIN merged
                                         /\ Shape[SuffixOrder[j]].kind = "envvar"}}

\* The labels of attribute a of berm.file.f, and its value.
FileLabels(f, a) ==
    {s \in DOMAIN merged : Shape[s].kind = "file" /\ Shape[s].name = f /\ Shape[s].attr = a}
FileValue(f, a) ==
    IF FileLabels(f, a) = {} THEN Unset ELSE merged[CHOOSE s \in FileLabels(f, a) : TRUE]

\* An unset from ref is the whole default source.
FileRef(f) == IF FileValue(f, "from") # Unset THEN FileValue(f, "from")
              ELSE [kind |-> "source", source |-> DefaultSource, key |-> Unset]

HasFile(f) == \E s \in DOMAIN merged : Shape[s].kind = "file" /\ Shape[s].name = f
Files ==
    {[at |-> <<3, i>>, shape |-> "file", name |-> FileOrder[i], ref |-> FileRef(FileOrder[i])] :
        i \in {j \in DOMAIN FileOrder : HasFile(FileOrder[j])}}

RenderOrder == <<"dotenv", "envdir">>
Renders == {[at |-> <<4, i>>, shape |-> RenderOrder[i], name |-> Unset, ref |-> NoRef] :
               i \in {j \in 1..2 : Value(RenderOrder[j]) # Unset}}

\* Mutated form: a list of refs hides the renames.
Deliveries_ListOrRename ==
    (IF ListEnv # {} THEN ListEnv ELSE RenameEnv) \cup Files \cup Renders

Deliveries == ListEnv \cup RenameEnv \cup Files \cup Renders
Before(a, b) == a[1] < b[1] \/ (a[1] = b[1] /\ a[2] < b[2])

\* Mutated form: the env gate looks at the label and not at the defaults behind it.
ChooseMechanism_LabelOnly ==
    /\ pc = "mechanism"
    /\ LET env == ListEnv \cup RenameEnv
           refused == env # {} /\ Value("delivery") \notin {Unset, "client"} IN
       \/ service = Unset /\ Return(Outcome("BadConfig", "name"))
       \/ /\ service # Unset /\ Mech \notin Mechanism
          /\ Return(Outcome("BadConfig", "delivery"))
       \/ /\ service # Unset /\ Mech \in Mechanism /\ refused
          /\ Return(Outcome("EnvWrongMechanism", "env"))
       \/ /\ service # Unset /\ Mech \in Mechanism /\ ~refused
          /\ pc' = "deliveries" /\ UNCHANGED result
    /\ UNCHANGED <<labels, in, service, todo, merged, pos, plan>>

\* The identity, the mechanism and the env gate of the mechanism.
ChooseMechanism ==
    /\ pc = "mechanism"
    /\ LET env == ListEnv \cup RenameEnv IN
       \/ service = Unset /\ Return(Outcome("BadConfig", "name"))
       \/ /\ service # Unset /\ Mech \notin Mechanism
          /\ Return(Outcome("BadConfig", "delivery"))
       \/ /\ service # Unset /\ Mech \in Mechanism
          /\ env # {} /\ Mech # "client"
          /\ Return(Outcome("EnvWrongMechanism", "env"))
       \/ /\ service # Unset /\ Mech \in Mechanism
          /\ env = {} \/ Mech = "client"
          /\ pc' = "deliveries" /\ UNCHANGED result
    /\ UNCHANGED <<labels, in, service, todo, merged, pos, plan>>

\* Mutated form: an unowned source without a grant list is open.
serviceMayRead_OpenByDefault(n) ==
    LET src == in.config.sources[n] IN
    Or(src.owner, n) = service \/ service \in src.access \/ src.access = {}

serviceOwns(n) == Or(in.config.sources[n].owner, n) = service
serviceMayRead(n) == serviceOwns(n) \/ service \in in.config.sources[n].access

\* The source a delivery reads: its ref's, else the default source.
SourceOf(d) == IF d.ref.kind \in {"key", "whole"} THEN DefaultSource ELSE d.ref.source
Format(n) == Or(in.config.sources[n].format, "dotenv")

\* resolveEnv, resolveRef and resolveRender make the same checks in the same order.
DeliveryError(d) ==
    LET n == SourceOf(d) IN
    CASE n \notin DOMAIN in.config.sources -> "MissingSource"
      [] n \in DOMAIN in.config.sources /\ Format(n) \notin {"dotenv", "binary"} -> "BadConfig"
      [] /\ n \in DOMAIN in.config.sources /\ Format(n) \in {"dotenv", "binary"}
         /\ Format(n) # (IF d.ref.kind = "source" THEN "binary" ELSE "dotenv")
         -> "WrongRefShape"
      [] OTHER ->
         IF d.shape = "all" THEN IF serviceOwns(n) THEN "none" ELSE "AllCrossService"
         ELSE IF serviceMayRead(n) THEN "none" ELSE "UngrantedRef"

\* Owner and mode: the file's label, the container's label, the default.
Attr(d, a) ==
    Or(IF d.shape = "file" THEN FileValue(d.name, a) ELSE Unset,
       Or(Value(a), Or(IF a = "mode" THEN in.config.mode ELSE Unset, "builtin")))

Path(d) ==
    CASE d.shape = "file" -> Or(FileValue(d.name, "path"), d.name)
      [] d.shape \in {"dotenv", "envdir"} -> Value(d.shape)
      [] OTHER -> Unset

\* A binding of the plan, ToDelivery's target field for field.
Binding(d) ==
    [at |-> d.at, shape |-> d.shape, name |-> d.name, source |-> SourceOf(d),
     whole |-> d.ref.kind = "source", key |-> d.ref.key, path |-> Path(d),
     owner |-> Attr(d, "owner"), mode |-> Attr(d, "mode")]
Bound(d) == Binding(d) \in plan

\* The next delivery is resolved, or ends the call with its error.
ResolveDelivery(d) ==
    /\ pc = "deliveries"
    /\ ~Bound(d)
    /\ \A c \in Deliveries : Before(c.at, d.at) => Bound(c)
    /\ LET e == DeliveryError(d) IN
       \/ e = "none" /\ plan' = plan \cup {Binding(d)} /\ UNCHANGED <<pc, result>>
       \/ e # "none" /\ Return(Outcome(e, d.name)) /\ UNCHANGED plan
    /\ UNCHANGED <<labels, in, service, todo, merged, pos>>

ReturnPlan ==
    /\ pc = "deliveries"
    /\ \A d \in Deliveries : Bound(d)
    /\ Return(Outcome("plan", Unset))
    /\ UNCHANGED <<labels, in, service, todo, merged, pos, plan>>

Next ==
    \/ DeriveIdentity
    \/ \E p \in Prefix : \E s \in DOMAIN labels[p] : MergeLabel(p, s)
    \/ Gate
    \/ ParseSuffix
    \/ CheckAck
    \/ ChooseMechanism
    \/ \E d \in Deliveries : ResolveDelivery(d)
    \/ ReturnPlan

Spec == Init /\ [][Next]_vars
-----------------------------------------------------------------------------
Labelled(s, v) == \E p \in Prefix : Label(p, s) = v
Conflicting(s) == /\ s \in DOMAIN labels["berm"] \cap DOMAIN labels["alias"]
                  /\ labels["berm"][s] # labels["alias"][s]
Returned(class) == pc = "done" /\ result.class = class

Class == {"inert", "plan", "IdentityConflict", "CrossPrefixConflict", "UnknownSuffix",
          "RotateReserved", "Malformed", "WrongRefShape", "EnvNoAck", "EnvWrongMechanism",
          "BadConfig", "MissingSource", "AllCrossService", "UngrantedRef"}

\* Type invariant.
TypeOK ==
    /\ pc \in {"identity", "merge", "suffixes", "mechanism", "deliveries", "done"}
    /\ \A k \in todo : k[1] \in Prefix /\ k[2] \in DOMAIN labels[k[1]]
    /\ DOMAIN merged \subseteq UNION {DOMAIN labels[p] : p \in Prefix}
    /\ pos \in Nat \ {0}
    /\ pc # "done" => result = Unset
    /\ pc = "done" => result.class \in Class

\* What berm.yml owns to and grants the service, read off the config alone.
Owned(n) ==
    LET owner == in.config.sources[n].owner IN
    owner = service \/ (owner = Unset /\ n = service)
Granted(n) ==
    Owned(n) \/ service \in in.config.sources[n].access

\* A plan stays within the caller's scope: every binding, also of a call that fails
\* later, names a source of berm.yml that the container's own identity owns or is
\* granted, of the format its shape needs; the all sentinel only an owned one.
PlanWithinScope ==
    \A b \in plan :
        /\ b.source \in DOMAIN in.config.sources
        /\ Granted(b.source)
        /\ b.shape = "all" => Owned(b.source)
        /\ b.whole <=> in.config.sources[b.source].format = "binary"
        /\ service = in.identity \/ Labelled("name", service)

\* The effective mechanism is client, read off the labels of both doorways and the
\* context alone: a label says so, or no label says anything and the default does, or
\* there is no default either and berm.yml does.
OnClient ==
    /\ \A p \in Prefix : Label(p, "delivery") \in {Unset, "client"}
    /\ \/ Labelled("delivery", "client")
       \/ in.default = "client"
       \/ in.default = Unset /\ in.config.delivery = "client"

\* Env passes two gates: a plan that delivers env, in the list or the rename form,
\* is of a container whose labels acknowledge it, and its effective mechanism, from
\* whichever of the label, the daemon's default and berm.yml it comes, is client.
EnvIsDoubleGated ==
    (\E b \in plan : b.shape \in {"env", "all"}) =>
        Labelled("env.acknowledge", "true") /\ OnClient

\* Binding b delivers what value v of a suffix of shape t asks for.
Delivers(b, t, v) ==
    CASE t.kind = "envvar" -> b.shape = "env" /\ b.name = t.name /\ b.key = v.key
      [] t.kind = "file" ->
            /\ b.shape = "file" /\ b.name = t.name
            /\ t.attr = "from" => b.key = v.key /\ b.whole = (v.kind = "source")
            /\ t.attr = "path" => b.path = v
            /\ t.attr = "mode" => b.mode = v
            /\ t.attr = "owner" => b.owner = v
      [] t.kind \in {"dotenv", "envdir"} -> b.shape = t.kind /\ b.path = v
      [] OTHER -> FALSE

DeliversEnv(b, ref) ==
    \/ ref.kind = "all" /\ b.shape = "all"
    \/ /\ ref.kind # "all" /\ b.shape = "env" /\ b.name = ref.key /\ b.key = ref.key
       /\ ref.kind = "sourcekey" => b.source = ref.source

\* No secret is silently absent: a call that returns a plan has bound what every
\* delivery label of either doorway declares, and met no suffix it does not know.
NoSilentlyAbsentSecret ==
    Returned("plan") => \A p \in Prefix : \A s \in DOMAIN labels[p] :
        LET v == labels[p][s]
            t == Shape[s] IN
        /\ t.kind \notin {"unknown", "rotate"}
        /\ t.kind \in {"envvar", "file", "dotenv", "envdir"} => \E b \in plan : Delivers(b, t, v)
        /\ t.kind = "env" => \A i \in 1..Len(v) : \E b \in plan : DeliversEnv(b, v[i])

\* Whatever order the label map is met in, a suffix with different values under the
\* two doorways ends the call with a conflict and nothing else does.
ConflictAlwaysCaught ==
    pc = "done" /\ in.config # Unset =>
        (result.class \in {"CrossPrefixConflict", "IdentityConflict"}
            <=> \E s \in DOMAIN labels["berm"] : Conflicting(s))
=============================================================================
