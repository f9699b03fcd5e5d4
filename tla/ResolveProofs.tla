---------------------------- MODULE ResolveProofs ----------------------------
(***************************************************************************)
(* Proofs about Resolve, for any labels, any berm.yml and any identity.    *)
(***************************************************************************)
EXTENDS Resolve, TLAPS

\* The identity a call resolves for is the one the labels or the runtime give.
IdentityInv ==
    pc \in {"merge", "suffixes", "mechanism", "deliveries"} =>
        service = in.identity \/ Labelled("name", service)

\* Nothing is bound before the identity is known.
EarlyInv == pc = "identity" => plan = {}

IInv == IdentityInv /\ EarlyInv /\ PlanWithinScope

-----------------------------------------------------------------------------
\* A delivery the resolver finds no error in reads a source its caller is granted.
LEMMA GrantedDelivery ==
    ASSUME NEW d, DeliveryError(d) = "none"
    PROVE  LET n == SourceOf(d) IN
           /\ n \in DOMAIN in.config.sources
           /\ Granted(n)
           /\ d.shape = "all" => Owned(n)
           /\ (d.ref.kind = "source") <=> in.config.sources[n].format = "binary"
<1> DEFINE n == SourceOf(d)
<1>1. n \in DOMAIN in.config.sources
  BY DEF DeliveryError
<1>2. Format(n) \in {"dotenv", "binary"}
  BY <1>1 DEF DeliveryError
<1>3. Format(n) = (IF d.ref.kind = "source" THEN "binary" ELSE "dotenv")
  BY <1>1, <1>2 DEF DeliveryError
<1>4. IF d.shape = "all" THEN serviceOwns(n) ELSE serviceMayRead(n)
  BY <1>1, <1>2, <1>3 DEF DeliveryError
<1>5. serviceOwns(n) => Owned(n)
  BY DEF serviceOwns, Owned, Or
<1>6. Granted(n)
  BY <1>4, <1>5 DEF serviceMayRead, Granted
<1>7. d.shape = "all" => Owned(n)
  BY <1>4, <1>5
<1>8. (d.ref.kind = "source") <=> in.config.sources[n].format = "binary"
  BY <1>3, ResolveAssumption DEF Format, Or
<1>9. QED
  BY <1>1, <1>6, <1>7, <1>8

\* A call starts with nothing bound.
LEMMA InitInv == Init => IInv
BY DEF Init, IInv, IdentityInv, EarlyInv, PlanWithinScope

\* Deriving the identity is the only step that changes it, before anything is bound.
LEMMA IdentityStep ==
    ASSUME IInv, DeriveIdentity
    PROVE  IInv'
<1> USE DEF DeriveIdentity, Return
<1>1. plan = {} /\ plan' = {} /\ pc' \in {"merge", "done"}
  BY DEF IInv, EarlyInv
<1>2. pc' = "merge" => service' = Or(Label("berm", "name"), Or(Label("alias", "name"), in.identity))
  OBVIOUS
<1>3. pc' = "merge" => service' = in.identity \/ Labelled("name", service')
  BY <1>2 DEF Or, Labelled, Prefix
<1>4. IdentityInv'
  BY <1>3 DEF IdentityInv, Labelled, Label
<1>5. QED
  BY <1>1, <1>4 DEF IInv, EarlyInv, PlanWithinScope

\* Steps after that which bind nothing.
LEMMA UnboundStep ==
    ASSUME IInv, UNCHANGED <<labels, in, service, plan>>, pc' # "identity",
           pc \in {"merge", "suffixes", "mechanism", "deliveries"}
    PROVE  IInv'
<1>1. PlanWithinScope'
  BY DEF IInv, PlanWithinScope, Granted, Owned, Labelled, Label
<1>2. IdentityInv'
  BY DEF IInv, IdentityInv, Labelled, Label
<1>3. QED
  BY <1>1, <1>2 DEF IInv, EarlyInv

\* A delivery is bound within the scope or not at all.
LEMMA DeliveryStep ==
    ASSUME IInv, NEW d \in Deliveries, ResolveDelivery(d)
    PROVE  IInv'
<1>1. /\ pc = "deliveries"
      /\ UNCHANGED <<labels, in, service>>
      /\ \/ DeliveryError(d) = "none" /\ plan' = plan \cup {Binding(d)} /\ UNCHANGED pc
         \/ pc' = "done" /\ UNCHANGED plan
  BY DEF ResolveDelivery, Return
<1>2. CASE pc' = "done" /\ UNCHANGED plan
  BY <1>1, <1>2, UnboundStep
<1>3. CASE DeliveryError(d) = "none" /\ plan' = plan \cup {Binding(d)} /\ UNCHANGED pc
  <2> DEFINE n == SourceOf(d)
             b == Binding(d)
  <2>1. /\ n \in DOMAIN in.config.sources
        /\ Granted(n)
        /\ d.shape = "all" => Owned(n)
        /\ (d.ref.kind = "source") <=> in.config.sources[n].format = "binary"
    BY <1>3, GrantedDelivery
  <2>2. b.source = n /\ b.shape = d.shape /\ b.whole = (d.ref.kind = "source")
    BY DEF Binding
  <2>3. service = in.identity \/ Labelled("name", service)
    BY <1>1 DEF IInv, IdentityInv
  <2> HIDE DEF n, b
  <2>4. \A x \in plan' :
           /\ x.source \in DOMAIN in.config.sources
           /\ Granted(x.source)
           /\ x.shape = "all" => Owned(x.source)
           /\ x.whole <=> in.config.sources[x.source].format = "binary"
           /\ service = in.identity \/ Labelled("name", service)
    <3>1. plan' = plan \cup {b}
      BY <1>3 DEF b
    <3>2. QED
      BY <2>1, <2>2, <2>3, <3>1 DEF IInv, PlanWithinScope
  <2>5. PlanWithinScope'
    BY <1>1, <2>4 DEF PlanWithinScope, Granted, Owned, Labelled, Label
  <2>6. IdentityInv'
    BY <1>1, <1>3, <2>3 DEF IdentityInv, Labelled, Label
  <2>7. QED
    BY <1>1, <1>3, <2>5, <2>6 DEF IInv, EarlyInv
<1>4. QED
  BY <1>1, <1>2, <1>3

\* Every step preserves the inductive invariant.
LEMMA NextInv == IInv /\ [Next]_vars => IInv'
<1> SUFFICES ASSUME IInv, [Next]_vars PROVE IInv'
  OBVIOUS
<1>1. CASE DeriveIdentity
  BY <1>1, IdentityStep
<1>2. ASSUME NEW p \in Prefix, NEW s \in DOMAIN labels[p], MergeLabel(p, s)
      PROVE  IInv'
  BY <1>2, UnboundStep DEF MergeLabel, Return
<1>3. CASE Gate \/ ParseSuffix \/ CheckAck
  BY <1>3, UnboundStep DEF Gate, ParseSuffix, CheckAck, Return
<1>4. CASE ChooseMechanism \/ ReturnPlan
  BY <1>4, UnboundStep DEF ChooseMechanism, ReturnPlan, Return
<1>5. ASSUME NEW d \in Deliveries, ResolveDelivery(d)
      PROVE  IInv'
  BY <1>5, DeliveryStep
<1>6. CASE UNCHANGED vars
  BY <1>6 DEF vars, IInv, IdentityInv, EarlyInv, PlanWithinScope, Granted, Owned, Labelled, Label
<1>7. QED
  BY <1>1, <1>2, <1>3, <1>4, <1>5, <1>6 DEF Next

\* A plan, also a partial one, never leaves the caller's scope: each source that
\* Resolve binds is one berm.yml grants to the container's own identity, in the
\* format the delivery needs, whatever the labels say and in whatever order they
\* are met.
THEOREM ScopeIsKept == Spec => []PlanWithinScope
<1>1. IInv => PlanWithinScope
  BY DEF IInv
<1>2. QED
  BY <1>1, InitInv, NextInv, PTL DEF Spec

-----------------------------------------------------------------------------
\* What the checks of a suffix and of a delivery may say.
LEMMA ErrorClasses ==
    /\ \A t, v : SuffixError(t, v) \in Class \cup {"none"}
    /\ \A d : DeliveryError(d) \in Class \cup {"none"}
<1>1. \A ref : EnvRefError(ref) \in {"Malformed", "WrongRefShape", "none"}
  BY DEF EnvRefError
<1>2. \A refs : EnvListError(refs) \in {"Malformed", "WrongRefShape", "none"}
  BY <1>1 DEF EnvListError
<1>3. ASSUME NEW t, NEW v PROVE SuffixError(t, v) \in Class \cup {"none"}
  BY <1>1, <1>2 DEF SuffixError, Class
<1>4. ASSUME NEW d PROVE DeliveryError(d) \in Class \cup {"none"}
  BY DEF DeliveryError, Class
<1>5. QED
  BY <1>3, <1>4

\* The initial state is well formed.
LEMMA TypeInit == Init => TypeOK
<1> SUFFICES ASSUME Init PROVE TypeOK
  OBVIOUS
<1>1. \A k \in todo : k[1] \in Prefix /\ k[2] \in DOMAIN labels[k[1]]
  <2>1. SUFFICES ASSUME NEW k \in todo
                 PROVE  k[1] \in Prefix /\ k[2] \in DOMAIN labels[k[1]]
    OBVIOUS
  <2>2. PICK p \in Prefix : k \in {p} \X DOMAIN labels[p]
    BY DEF Init
  <2>3. QED
    BY <2>2
<1>2. DOMAIN merged = {}
  <2>1. DOMAIN merged = 1..0
    BY DEF Init
  <2>2. QED
    BY <2>1
<1>3. QED
  BY <1>1, <1>2 DEF Init, TypeOK

\* So is the outcome of every step.
LEMMA TypeNext == TypeOK /\ [Next]_vars => TypeOK'
<1> SUFFICES ASSUME TypeOK, [Next]_vars PROVE TypeOK'
  OBVIOUS
<1>1. CASE DeriveIdentity
  <2>1. /\ UNCHANGED <<labels, in, todo, merged, pos, plan>>
        /\ \/ pc' = "merge" /\ result' = result
           \/ pc' = "done" /\ result'.class \in {"IdentityConflict", "BadConfig"}
    <3>1. \/ Return(Outcome("IdentityConflict", "name"))
          \/ Return(Outcome("BadConfig", ""))
          \/ pc' = "merge" /\ result' = result
      BY <1>1 DEF DeriveIdentity
    <3>2. Outcome("IdentityConflict", "name").class = "IdentityConflict"
      BY DEF Outcome
    <3>3. Outcome("BadConfig", "").class = "BadConfig"
      BY DEF Outcome
    <3>4. UNCHANGED <<labels, in, todo, merged, pos, plan>>
      BY <1>1 DEF DeriveIdentity
    <3>5. QED
      BY <3>1, <3>2, <3>3, <3>4 DEF Return
  <2>2. pc # "done"
    BY <1>1 DEF DeriveIdentity
  <2>3. QED
    BY <2>1, <2>2 DEF TypeOK, Class
<1>2. ASSUME NEW p \in Prefix, NEW s \in DOMAIN labels[p], MergeLabel(p, s)
      PROVE  TypeOK'
  <2>1. DOMAIN merged' \subseteq UNION {DOMAIN labels[q] : q \in Prefix}
    BY <1>2 DEF MergeLabel, Put, TypeOK
  <2>2. QED
    BY <1>2, <2>1 DEF MergeLabel, Return, Outcome, TypeOK, Class
<1>3. CASE Gate \/ CheckAck \/ ReturnPlan
  BY <1>3 DEF Gate, CheckAck, ReturnPlan, Return, Outcome, TypeOK, Class
<1>4. CASE ParseSuffix
  <2>1. /\ pc = "suffixes"
        /\ UNCHANGED <<labels, in, service, todo, merged, plan>>
        /\ \/ pos' \in Nat \ {0} /\ UNCHANGED <<pc, result>>
           \/ pc' = "done" /\ pos' = pos /\ result'.class \in Class
    <3>1. \A i \in pos..Len(SuffixOrder) : i + 1 \in Nat \ {0}
      BY DEF TypeOK
    <3>2. QED
      BY <1>4, <3>1, ErrorClasses DEF ParseSuffix, Return, Outcome
  <2>2. QED
    BY <2>1 DEF TypeOK
<1>5. CASE ChooseMechanism
  BY <1>5 DEF ChooseMechanism, Return, Outcome, TypeOK, Class
<1>6. ASSUME NEW d \in Deliveries, ResolveDelivery(d)
      PROVE  TypeOK'
  <2>1. /\ pc = "deliveries"
        /\ UNCHANGED <<labels, in, service, todo, merged, pos>>
        /\ \/ UNCHANGED <<pc, result>>
           \/ pc' = "done" /\ result'.class \in Class
    BY <1>6, ErrorClasses DEF ResolveDelivery, Return, Outcome
  <2>2. QED
    BY <2>1 DEF TypeOK
<1>7. CASE UNCHANGED vars
  BY <1>7 DEF vars, TypeOK
<1>8. QED
  BY <1>1, <1>2, <1>3, <1>4, <1>5, <1>6, <1>7 DEF Next

\* Type correctness: the loops stay on their indices, the merged map holds labels of
\* the container only, and every return is a plan, an inert result or a known class.
THEOREM TypeCorrect == Spec => []TypeOK
BY TypeInit, TypeNext, PTL DEF Spec

\* None of these checks speaks of the doorways, or of a plan.
LEMMA OtherClasses ==
    /\ \A t, v : SuffixError(t, v) \notin {"plan", "CrossPrefixConflict", "IdentityConflict"}
    /\ \A d : DeliveryError(d) \notin {"plan", "CrossPrefixConflict", "IdentityConflict"}
<1>1. \A ref : EnvRefError(ref) \in {"Malformed", "WrongRefShape", "none"}
  BY DEF EnvRefError
<1>2. \A refs : EnvListError(refs) \in {"Malformed", "WrongRefShape", "none"}
  BY <1>1 DEF EnvListError
<1>3. ASSUME NEW t, NEW v
      PROVE  SuffixError(t, v) \notin {"plan", "CrossPrefixConflict", "IdentityConflict"}
  BY <1>1, <1>2 DEF SuffixError
<1>4. ASSUME NEW d
      PROVE  DeliveryError(d) \notin {"plan", "CrossPrefixConflict", "IdentityConflict"}
  BY DEF DeliveryError
<1>5. QED
  BY <1>3, <1>4

-----------------------------------------------------------------------------
\* The merge, the gates and the deliveries.

\* A merged value is a label's, and a label is merged or still to be met, unless the
\* call ended on it.
MergeInv ==
    /\ labels \in LabelMaps
    /\ \A s \in DOMAIN merged :
          \E p \in Prefix : s \in DOMAIN labels[p] /\ merged[s] = labels[p][s]
    /\ ~Returned("CrossPrefixConflict") =>
          \A p \in Prefix : \A s \in DOMAIN labels[p] :
              <<p, s>> \in todo \/ (s \in DOMAIN merged /\ merged[s] = labels[p][s])
    /\ pc \in {"suffixes", "mechanism", "deliveries"} \/ Returned("plan") => todo = {}

\* The suffixes behind the loop of Parse are accepted, and all of them after it.
Accepted(s) == SuffixError(Shape[s], merged[s]) = "none"
ParseInv ==
    /\ pc = "suffixes" =>
          \A i \in DOMAIN SuffixOrder :
              i < pos /\ SuffixOrder[i] \in DOMAIN merged => Accepted(SuffixOrder[i])
    /\ pc \in {"mechanism", "deliveries"} \/ Returned("plan") =>
          \A s \in DOMAIN merged : Accepted(s)

\* What the two env gates let pass.
GateInv ==
    /\ pc \in {"mechanism", "deliveries"} =>
          (HasEnvLabel => Value("env.acknowledge") = "true")
    /\ pc = "deliveries" => ListEnv \cup RenameEnv = {} \/ Mech = "client"

\* A returned plan binds every declared delivery.
PlanInv == Returned("plan") => \A d \in Deliveries : Bound(d)

\* The loop over suffixes has not begun before the gate.
StartInv == pc \in {"identity", "merge"} => pos = 1

RInv ==
    TypeOK /\ StartInv /\ MergeInv /\ ParseInv /\ GateInv /\ PlanInv /\ EnvIsDoubleGated
    /\ ConflictAlwaysCaught

\* A suffix of the merged map is one the grammar knows of.
LEMMA MergedIsListed ==
    ASSUME MergeInv, NEW s \in DOMAIN merged
    PROVE  /\ s \in DOMAIN Shape
           /\ \E i \in DOMAIN SuffixOrder : SuffixOrder[i] = s
           /\ Shape[s].kind = "file" => \E i \in DOMAIN FileOrder : FileOrder[i] = Shape[s].name
           /\ Shape[s].kind = "envvar" /\ merged[s] # Unset => merged[s].kind # "all"
<1>1. PICK p \in Prefix : s \in DOMAIN labels[p] /\ merged[s] = labels[p][s]
  BY DEF MergeInv
<1>2. labels \in LabelMaps /\ p \in DOMAIN labels
  BY ResolveAssumption DEF MergeInv, Prefix
<1>3. /\ \E i \in DOMAIN SuffixOrder : SuffixOrder[i] = s
      /\ Shape[s].kind = "file" => \E i \in DOMAIN FileOrder : FileOrder[i] = Shape[s].name
      /\ Shape[s].kind = "envvar" /\ labels[p][s] # Unset => labels[p][s].kind # "all"
  BY <1>1, <1>2, GrammarAssumption
<1>4. \A i \in DOMAIN SuffixOrder : SuffixOrder[i] \in DOMAIN Shape
  BY GrammarAssumption
<1>5. QED
  BY <1>1, <1>3, <1>4

\* Env is delivered only where a label asks for it.
LEMMA EnvIsLabelled ==
    ASSUME MergeInv, ListEnv \cup RenameEnv # {}
    PROVE  HasEnvLabel
<1>1. CASE ListEnv # {}
  <2>1. "env" \in DOMAIN merged
    <3> SUFFICES ASSUME "env" \notin DOMAIN merged PROVE FALSE
      OBVIOUS
    <3>1. ListEnv = {EnvDelivery(<<1, i>>, <<>>[i].key, <<>>[i]) : i \in 1..0}
      BY DEF ListEnv
    <3>2. 1..0 = {}
      OBVIOUS
    <3>3. QED
      BY <1>1, <3>1, <3>2
  <2>2. "env" \in DOMAIN Shape
    BY <2>1, MergedIsListed
  <2>3. Shape["env"].kind = "env"
    BY <2>2, GrammarAssumption
  <2>4. QED
    BY <2>1, <2>3 DEF HasEnvLabel
<1>2. CASE RenameEnv # {}
  BY <1>2 DEF RenameEnv, HasEnvLabel
<1>3. QED
  BY <1>1, <1>2

\* Files and renders are not env.
LEMMA EnvShapes ==
    ASSUME NEW d \in Deliveries, d.shape \in {"env", "all"}
    PROVE  d \in ListEnv \cup RenameEnv
<1>1. CASE d \in Files
  BY <1>1 DEF Files
<1>2. CASE d \in Renders
  <2>1. PICK i \in 1..2 : d.shape = RenderOrder[i]
    BY <1>2 DEF Renders
  <2>2. RenderOrder[i] \in {"dotenv", "envdir"}
    BY <2>1 DEF RenderOrder
  <2>3. QED
    BY <2>1, <2>2
<1>3. QED
  BY <1>1, <1>2 DEF Deliveries

\* Once every label is merged, the doorways agree.
LEMMA DoorwaysAgree ==
    ASSUME MergeInv, todo = {}, ~Returned("CrossPrefixConflict")
    PROVE  /\ \A p \in Prefix : \A s \in DOMAIN labels[p] :
                 s \in DOMAIN merged /\ merged[s] = labels[p][s]
           /\ ~\E s \in DOMAIN labels["berm"] : Conflicting(s)
<1>1. \A p \in Prefix : \A s \in DOMAIN labels[p] :
         s \in DOMAIN merged /\ merged[s] = labels[p][s]
  BY DEF MergeInv
<1>2. QED
  BY <1>1 DEF Conflicting, Prefix

\* The operators that read the merged map, the context and the identity only.
LEMMA SameSpec ==
    ASSUME UNCHANGED <<labels, in, service, merged>>
    PROVE  /\ HasEnvLabel' = HasEnvLabel
           /\ \A s : Value(s)' = Value(s) /\ Accepted(s)' = Accepted(s)
           /\ Mech' = Mech
           /\ ListEnv' = ListEnv /\ RenameEnv' = RenameEnv
           /\ Deliveries' = Deliveries
           /\ \A d : Binding(d)' = Binding(d)
<1>1. \A s : Value(s)' = Value(s) /\ Accepted(s)' = Accepted(s)
  BY DEF Value, Accepted
<1>2. HasEnvLabel' = HasEnvLabel /\ Mech' = Mech
  BY <1>1 DEF HasEnvLabel, Mech
<1>3. ListEnv' = ListEnv /\ RenameEnv' = RenameEnv
  BY DEF ListEnv, RenameEnv
<1>4. DefaultSource' = DefaultSource
  BY <1>1 DEF DefaultSource
<1>5. \A f, a : FileValue(f, a)' = FileValue(f, a)
  BY DEF FileValue, FileLabels
<1>6. Files' = Files
  <2>1. \A f : FileRef(f)' = FileRef(f) /\ HasFile(f)' = HasFile(f)
    BY <1>4, <1>5 DEF FileRef, HasFile
  <2>2. QED
    BY <2>1 DEF Files
<1>7. Renders' = Renders
  BY <1>1 DEF Renders
<1>8. \A d : Binding(d)' = Binding(d)
  <2>1. \A d : SourceOf(d)' = SourceOf(d)
    BY <1>4 DEF SourceOf
  <2>2. \A d, a : Attr(d, a)' = Attr(d, a)
    BY <1>1, <1>5 DEF Attr
  <2>3. \A d : Path(d)' = Path(d)
    BY <1>1, <1>5 DEF Path
  <2>4. QED
    BY <2>1, <2>2, <2>3 DEF Binding
<1>9. QED
  BY <1>1, <1>2, <1>3, <1>6, <1>7, <1>8 DEF Deliveries

\* A call starts with every label to be met.
LEMMA MergeInit == Init => RInv
<1> SUFFICES ASSUME Init PROVE RInv
  OBVIOUS
<1>1. TypeOK
  BY TypeInit
<1>2. \A p \in Prefix : \A s \in DOMAIN labels[p] : <<p, s>> \in todo
  BY DEF Init
<1>3. DOMAIN merged = {}
  <2>1. DOMAIN merged = 1..0
    BY DEF Init
  <2>2. QED
    BY <2>1
<1>4. MergeInv
  BY <1>2, <1>3 DEF Init, MergeInv, Returned
<1>5. QED
  BY <1>1, <1>4 DEF Init, RInv, StartInv, ParseInv, GateInv, PlanInv, EnvIsDoubleGated,
                    ConflictAlwaysCaught, Returned

\* The identity is refused only over a conflict of berm.name.
LEMMA MergeIdentity ==
    ASSUME RInv, IInv, DeriveIdentity
    PROVE  /\ MergeInv' /\ ParseInv' /\ GateInv' /\ PlanInv' /\ EnvIsDoubleGated'
           /\ ConflictAlwaysCaught'
<1>1. /\ pc = "identity" /\ UNCHANGED <<labels, in, todo, merged, plan>>
      /\ plan = {}
  BY DEF DeriveIdentity, IInv, EarlyInv
<1>2. \/ pc' = "merge" /\ result' = result
      \/ /\ pc' = "done" /\ result' = Outcome("IdentityConflict", "name")
         /\ Label("berm", "name") # Unset /\ Label("alias", "name") # Unset
         /\ Label("berm", "name") # Label("alias", "name")
      \/ pc' = "done" /\ result' = Outcome("BadConfig", "") /\ in.config = Unset
  BY DEF DeriveIdentity, Return
<1>3. pc' \in {"merge", "done"}
      /\ (pc' = "done" => result'.class \notin {"plan", "CrossPrefixConflict"})
  <2>1. Outcome("IdentityConflict", "name").class = "IdentityConflict"
    BY DEF Outcome
  <2>2. Outcome("BadConfig", "").class = "BadConfig"
    BY DEF Outcome
  <2>3. QED
    BY <1>2, <2>1, <2>2
<1>4. MergeInv'
  BY <1>1, <1>3 DEF RInv, MergeInv, Returned
<1>5. ParseInv' /\ GateInv' /\ PlanInv'
  BY <1>3 DEF ParseInv, GateInv, PlanInv, Returned
<1>6. EnvIsDoubleGated'
  BY <1>1 DEF EnvIsDoubleGated
<1>7. ConflictAlwaysCaught'
  <2>1. CASE pc' = "merge"
    BY <2>1 DEF ConflictAlwaysCaught
  <2>2. CASE pc' = "done" /\ in.config = Unset
    BY <1>1, <2>2 DEF ConflictAlwaysCaught
  <2>3. CASE /\ pc' = "done" /\ result' = Outcome("IdentityConflict", "name")
             /\ Label("berm", "name") # Unset /\ Label("alias", "name") # Unset
             /\ Label("berm", "name") # Label("alias", "name")
    <3>1. result'.class = "IdentityConflict"
      BY <2>3 DEF Outcome
    <3>2. "name" \in DOMAIN labels["berm"] /\ Conflicting("name")'
      BY <1>1, <2>3 DEF Label, Conflicting
    <3>3. QED
      BY <1>1, <3>1, <3>2 DEF ConflictAlwaysCaught
  <2>4. QED
    BY <1>2, <2>1, <2>2, <2>3
<1>8. QED
  BY <1>4, <1>5, <1>6, <1>7

\* A label is merged, or conflicts with one of the other doorway.
LEMMA MergeStep ==
    ASSUME RInv, NEW p \in Prefix, NEW s \in DOMAIN labels[p], MergeLabel(p, s)
    PROVE  /\ MergeInv' /\ ParseInv' /\ GateInv' /\ PlanInv' /\ EnvIsDoubleGated'
           /\ ConflictAlwaysCaught'
<1>1. /\ pc = "merge" /\ UNCHANGED <<labels, in, plan>>
      /\ todo' = todo \ {<<p, s>>}
  BY DEF MergeLabel
<1>2. \/ /\ s \in DOMAIN merged => merged[s] = labels[p][s]
         /\ merged' = Put(merged, s, labels[p][s])
         /\ pc' = "merge"
      \/ /\ s \in DOMAIN merged /\ merged[s] # labels[p][s]
         /\ merged' = merged
         /\ pc' = "done" /\ result'.class = "CrossPrefixConflict"
  BY <1>1 DEF MergeLabel, Return, Outcome
<1>3. EnvIsDoubleGated'
  BY <1>1 DEF RInv, EnvIsDoubleGated, OnClient, Labelled, Label
<1>4. ParseInv' /\ GateInv' /\ PlanInv'
  BY <1>2 DEF ParseInv, GateInv, PlanInv, Returned
<1>5. CASE /\ s \in DOMAIN merged => merged[s] = labels[p][s]
           /\ merged' = Put(merged, s, labels[p][s])
           /\ pc' = "merge"
  <2>1. /\ DOMAIN merged' = DOMAIN merged \cup {s} /\ merged'[s] = labels[p][s]
        /\ \A t \in DOMAIN merged : merged'[t] = merged[t]
    BY <1>5 DEF Put
  <2>2. \A q \in Prefix : \A t \in DOMAIN labels[q] :
           <<q, t>> \in todo \/ (t \in DOMAIN merged /\ merged[t] = labels[q][t])
    BY <1>1 DEF RInv, MergeInv, Returned
  <2>3. \A q \in Prefix : \A t \in DOMAIN labels[q] :
           <<q, t>> \in todo' \/ (t \in DOMAIN merged' /\ merged'[t] = labels[q][t])
    BY <1>1, <2>1, <2>2
  <2>4. \A t \in DOMAIN merged' :
           \E q \in Prefix : t \in DOMAIN labels[q] /\ merged'[t] = labels[q][t]
    BY <2>1 DEF RInv, MergeInv
  <2>5. MergeInv'
    BY <1>1, <1>5, <2>3, <2>4 DEF RInv, MergeInv, Returned
  <2>6. ConflictAlwaysCaught'
    BY <1>5 DEF ConflictAlwaysCaught
  <2>7. QED
    BY <1>3, <1>4, <2>5, <2>6
<1>6. CASE /\ s \in DOMAIN merged /\ merged[s] # labels[p][s]
           /\ merged' = merged
           /\ pc' = "done" /\ result'.class = "CrossPrefixConflict"
  <2>1. PICK q \in Prefix : s \in DOMAIN labels[q] /\ merged[s] = labels[q][s]
    BY <1>6 DEF RInv, MergeInv
  <2>2. s \in DOMAIN labels["berm"] /\ Conflicting(s)
    BY <1>6, <2>1 DEF Prefix, Conflicting
  <2>3. ConflictAlwaysCaught'
    BY <1>1, <1>6, <2>2 DEF ConflictAlwaysCaught, Conflicting
  <2>4. MergeInv'
    BY <1>1, <1>6 DEF RInv, MergeInv, Returned
  <2>5. QED
    BY <1>3, <1>4, <2>3, <2>4
<1>7. QED
  BY <1>2, <1>5, <1>6

\* Past the merge no step disturbs it, and no return reports a conflict.
LEMMA AfterMerge ==
    ASSUME RInv, todo = {}, pc # "done", UNCHANGED <<labels, in, service, todo, merged>>,
           pc' # "identity",
           pc' = "done" => result'.class \notin {"CrossPrefixConflict", "IdentityConflict"}
    PROVE  MergeInv' /\ ConflictAlwaysCaught'
<1>1. ~Returned("CrossPrefixConflict")
  BY DEF Returned
<1>2. MergeInv'
  BY <1>1 DEF RInv, MergeInv, Returned
<1>3. ~\E s \in DOMAIN labels["berm"] : Conflicting(s)
  BY <1>1, DoorwaysAgree DEF RInv
<1>4. ConflictAlwaysCaught'
  BY <1>3 DEF ConflictAlwaysCaught, Conflicting
<1>5. QED
  BY <1>2, <1>4

\* The enable gate: nothing is parsed yet.
LEMMA GateStep ==
    ASSUME RInv, Gate
    PROVE  /\ MergeInv' /\ ParseInv' /\ GateInv' /\ PlanInv' /\ EnvIsDoubleGated'
           /\ ConflictAlwaysCaught'
<1>1. /\ pc = "merge" /\ todo = {} /\ UNCHANGED <<labels, in, service, todo, merged, pos, plan>>
      /\ pc' \in {"done", "suffixes"} /\ (pc' = "done" => result'.class = "inert")
  BY DEF Gate, Return, Outcome
<1>2. MergeInv' /\ ConflictAlwaysCaught'
  BY <1>1, AfterMerge
<1>3. EnvIsDoubleGated'
  BY <1>1 DEF RInv, EnvIsDoubleGated, OnClient, Labelled, Label
<1>4. GateInv' /\ PlanInv'
  BY <1>1 DEF GateInv, PlanInv, Returned
<1>5. ParseInv'
  <2>1. pos = 1
    BY <1>1 DEF RInv, StartInv
  <2>2. \A i \in DOMAIN SuffixOrder : ~(i < pos)
    BY <2>1, GrammarAssumption
  <2>3. QED
    BY <1>1, <2>2 DEF ParseInv, Returned
<1>6. QED
  BY <1>2, <1>3, <1>4, <1>5

\* One suffix: all in front of the loop are accepted after it.
LEMMA SuffixStep ==
    ASSUME RInv, ParseSuffix
    PROVE  /\ MergeInv' /\ ParseInv' /\ GateInv' /\ PlanInv' /\ EnvIsDoubleGated'
           /\ ConflictAlwaysCaught'
<1>1. /\ pc = "suffixes" /\ todo = {}
      /\ UNCHANGED <<labels, in, service, todo, merged, plan>>
  BY DEF ParseSuffix, RInv, MergeInv
<1>2. PICK i \in pos..Len(SuffixOrder) :
         /\ SuffixAt(i)
         /\ \/ Accepted(SuffixOrder[i]) /\ pos' = i + 1 /\ pc' = pc
            \/ /\ ~Accepted(SuffixOrder[i]) /\ pc' = "done"
               /\ result'.class = SuffixError(Shape[SuffixOrder[i]], merged[SuffixOrder[i]])
  BY DEF ParseSuffix, Return, Outcome, Accepted
<1>3. pc' = "done" => result'.class \notin {"plan", "CrossPrefixConflict", "IdentityConflict"}
  BY <1>1, <1>2, OtherClasses DEF Accepted
<1>4. MergeInv' /\ ConflictAlwaysCaught'
  BY <1>1, <1>2, <1>3, AfterMerge
<1>5. EnvIsDoubleGated'
  BY <1>1 DEF RInv, EnvIsDoubleGated, OnClient, Labelled, Label
<1>6. GateInv' /\ PlanInv'
  BY <1>1, <1>2, <1>3 DEF GateInv, PlanInv, Returned
<1>7. ParseInv'
  <2>1. CASE pc' = "done"
    BY <1>3, <2>1 DEF ParseInv, Returned
  <2>2. CASE Accepted(SuffixOrder[i]) /\ pos' = i + 1 /\ pc' = pc
    <3>1. ASSUME NEW j \in DOMAIN SuffixOrder, j < pos', SuffixOrder[j] \in DOMAIN merged
          PROVE  Accepted(SuffixOrder[j])
      <4>1. j \in Nat /\ pos \in Nat /\ i \in Nat
        BY GrammarAssumption DEF RInv, TypeOK
      <4>2. j < pos \/ j = i \/ j \in pos..(i - 1)
        BY <2>2, <3>1, <4>1
      <4>3. CASE j < pos
        BY <1>1, <3>1, <4>3 DEF RInv, ParseInv
      <4>4. CASE j = i
        BY <2>2, <4>4
      <4>5. CASE j \in pos..(i - 1)
        BY <1>2, <3>1, <4>5 DEF SuffixAt
      <4>6. QED
        BY <4>2, <4>3, <4>4, <4>5
    <3>2. \A s : Accepted(s)' = Accepted(s)
      BY <1>1, SameSpec
    <3>3. QED
      BY <1>1, <2>2, <3>1, <3>2 DEF ParseInv, Returned
  <2>3. QED
    BY <1>2, <2>1, <2>2
<1>8. QED
  BY <1>4, <1>5, <1>6, <1>7

\* The acknowledgment: all suffixes are accepted, and env is acknowledged.
LEMMA AckStep ==
    ASSUME RInv, CheckAck
    PROVE  /\ MergeInv' /\ ParseInv' /\ GateInv' /\ PlanInv' /\ EnvIsDoubleGated'
           /\ ConflictAlwaysCaught'
<1>1. /\ pc = "suffixes" /\ todo = {} /\ SuffixesParsed
      /\ UNCHANGED <<labels, in, service, todo, merged, pos, plan>>
      /\ \/ pc' = "done" /\ result'.class = "EnvNoAck"
         \/ pc' = "mechanism" /\ (HasEnvLabel => Value("env.acknowledge") = "true")
  BY DEF CheckAck, Return, Outcome, RInv, MergeInv
<1>2. MergeInv' /\ ConflictAlwaysCaught'
  BY <1>1, AfterMerge
<1>3. EnvIsDoubleGated'
  BY <1>1 DEF RInv, EnvIsDoubleGated, OnClient, Labelled, Label
<1>4. PlanInv'
  BY <1>1 DEF PlanInv, Returned
<1>5. GateInv'
  BY <1>1, SameSpec DEF GateInv
<1>6. \A s \in DOMAIN merged : Accepted(s)
  <2> SUFFICES ASSUME NEW s \in DOMAIN merged PROVE Accepted(s)
    OBVIOUS
  <2>1. PICK i \in DOMAIN SuffixOrder : SuffixOrder[i] = s
    BY MergedIsListed DEF RInv
  <2>2. i \in 1..Len(SuffixOrder) /\ pos \in Nat
    BY GrammarAssumption DEF RInv, TypeOK
  <2>3. i \notin pos..Len(SuffixOrder)
    BY <1>1, <2>1 DEF SuffixesParsed
  <2>4. i < pos
    BY <2>2, <2>3, GrammarAssumption
  <2>5. QED
    BY <1>1, <2>1, <2>4 DEF RInv, ParseInv
<1>7. ParseInv'
  BY <1>1, <1>6, SameSpec DEF ParseInv, Returned
<1>8. QED
  BY <1>2, <1>3, <1>4, <1>5, <1>7

\* The mechanism: env goes on by the client mechanism only.
LEMMA MechanismStep ==
    ASSUME RInv, ChooseMechanism
    PROVE  /\ MergeInv' /\ ParseInv' /\ GateInv' /\ PlanInv' /\ EnvIsDoubleGated'
           /\ ConflictAlwaysCaught'
<1>1. /\ pc = "mechanism" /\ todo = {}
      /\ UNCHANGED <<labels, in, service, todo, merged, pos, plan>>
  BY DEF ChooseMechanism, RInv, MergeInv
<1>2. \/ pc' = "done" /\ result'.class \in {"BadConfig", "EnvWrongMechanism"}
      \/ pc' = "deliveries" /\ (ListEnv \cup RenameEnv = {} \/ Mech = "client")
  BY DEF ChooseMechanism, Return, Outcome
<1>3. MergeInv' /\ ConflictAlwaysCaught'
  BY <1>1, <1>2, AfterMerge
<1>4. EnvIsDoubleGated'
  BY <1>1 DEF RInv, EnvIsDoubleGated, OnClient, Labelled, Label
<1>5. PlanInv'
  BY <1>2 DEF PlanInv, Returned
<1>6. GateInv'
  <2>1. HasEnvLabel => Value("env.acknowledge") = "true"
    BY <1>1 DEF RInv, GateInv
  <2>2. QED
    BY <1>1, <1>2, <2>1, SameSpec DEF GateInv
<1>7. ParseInv'
  <2>1. \A s \in DOMAIN merged : Accepted(s)
    BY <1>1 DEF RInv, ParseInv
  <2>2. QED
    BY <1>1, <1>2, <2>1, SameSpec DEF ParseInv, Returned
<1>8. QED
  BY <1>3, <1>4, <1>5, <1>6, <1>7

\* What the two gates say of the labels of a container with an env delivery.
LEMMA GatesHold ==
    ASSUME RInv, pc = "deliveries", ListEnv \cup RenameEnv # {}
    PROVE  Labelled("env.acknowledge", "true") /\ OnClient
<1>1. Value("env.acknowledge") = "true" /\ Mech = "client"
  BY EnvIsLabelled DEF RInv, GateInv
<1>2. \A p \in Prefix : \A s \in DOMAIN labels[p] :
         s \in DOMAIN merged /\ merged[s] = labels[p][s]
  BY DoorwaysAgree DEF RInv, MergeInv, Returned
<1>3. Labelled("env.acknowledge", "true")
  <2>1. CASE "env.acknowledge" \in DOMAIN merged
    <3>1. merged["env.acknowledge"] = "true"
      BY <1>1, <2>1 DEF Value
    <3>2. PICK p \in Prefix : /\ "env.acknowledge" \in DOMAIN labels[p]
                              /\ labels[p]["env.acknowledge"] = "true"
      BY <2>1, <3>1 DEF RInv, MergeInv
    <3>3. QED
      BY <3>2 DEF Labelled, Label
  <2>2. CASE "env.acknowledge" \notin DOMAIN merged
    <3>1. \A p \in Prefix : "env.acknowledge" \notin DOMAIN labels[p]
      BY <1>2, <2>2
    <3>2. Unset = "true"
      BY <1>1, <2>2 DEF Value
    <3>3. QED
      BY <3>1, <3>2 DEF Labelled, Label, Prefix
  <2>3. QED
    BY <2>1, <2>2
<1>4. Value("delivery") \in {Unset, "client"}
  BY <1>1 DEF Mech, Or
<1>5. \A p \in Prefix : Label(p, "delivery") \in {Unset, Value("delivery")}
  BY <1>2 DEF Label, Value
<1>6. ASSUME Value("delivery") = "client" PROVE Labelled("delivery", "client")
  <2>1. CASE "delivery" \in DOMAIN merged
    <3>1. PICK p \in Prefix : /\ "delivery" \in DOMAIN labels[p]
                              /\ labels[p]["delivery"] = "client"
      BY <1>6, <2>1 DEF Value, RInv, MergeInv
    <3>2. QED
      BY <3>1 DEF Labelled, Label
  <2>2. CASE "delivery" \notin DOMAIN merged
    BY <1>6, <2>2, ResolveAssumption DEF Value
  <2>3. QED
    BY <2>1, <2>2
<1>7. Value("delivery") = Unset =>
         in.default = "client" \/ (in.default = Unset /\ in.config.delivery = "client")
  BY <1>1 DEF Mech, Or
<1>8. OnClient
  BY <1>4, <1>5, <1>6, <1>7 DEF OnClient
<1>9. QED
  BY <1>3, <1>8

\* A delivery is bound, or ends the call.
LEMMA BindStep ==
    ASSUME RInv, NEW d \in Deliveries, ResolveDelivery(d)
    PROVE  /\ MergeInv' /\ ParseInv' /\ GateInv' /\ PlanInv' /\ EnvIsDoubleGated'
           /\ ConflictAlwaysCaught'
<1>1. /\ pc = "deliveries" /\ todo = {}
      /\ UNCHANGED <<labels, in, service, todo, merged, pos>>
  BY DEF ResolveDelivery, RInv, MergeInv
<1>2. \/ plan' = plan \cup {Binding(d)} /\ pc' = pc
      \/ plan' = plan /\ pc' = "done" /\ result'.class = DeliveryError(d)
  BY DEF ResolveDelivery, Return, Outcome
<1>3. pc' = "done" => result'.class \notin {"plan", "CrossPrefixConflict", "IdentityConflict"}
  BY <1>1, <1>2, OtherClasses
<1>4. MergeInv' /\ ConflictAlwaysCaught'
  BY <1>1, <1>2, <1>3, AfterMerge
<1>5. PlanInv'
  BY <1>1, <1>2, <1>3 DEF PlanInv, Returned
<1>6. GateInv'
  BY <1>1, <1>2, SameSpec DEF RInv, GateInv
<1>7. ParseInv'
  BY <1>1, <1>2, <1>3, SameSpec DEF RInv, ParseInv, Returned
<1>8. EnvIsDoubleGated'
  <2>1. CASE \A b \in plan' : b.shape \in {"env", "all"} => b \in plan
    BY <1>1, <2>1 DEF RInv, EnvIsDoubleGated, OnClient, Labelled, Label
  <2>2. CASE ~\A b \in plan' : b.shape \in {"env", "all"} => b \in plan
    <3>1. PICK b \in plan' : b.shape \in {"env", "all"} /\ b \notin plan
      BY <2>2
    <3>2. b = Binding(d)
      BY <1>2, <3>1
    <3>3. d.shape \in {"env", "all"}
      BY <3>1, <3>2 DEF Binding
    <3>4. ListEnv \cup RenameEnv # {}
      BY <3>3, EnvShapes
    <3>5. Labelled("env.acknowledge", "true") /\ OnClient
      BY <1>1, <3>4, GatesHold
    <3>6. QED
      BY <1>1, <3>5 DEF EnvIsDoubleGated, OnClient, Labelled, Label
  <2>3. QED
    BY <2>1, <2>2
<1>9. QED
  BY <1>4, <1>5, <1>6, <1>7, <1>8

\* A plan is returned with every delivery bound.
LEMMA ReturnStep ==
    ASSUME RInv, ReturnPlan
    PROVE  /\ MergeInv' /\ ParseInv' /\ GateInv' /\ PlanInv' /\ EnvIsDoubleGated'
           /\ ConflictAlwaysCaught'
<1>1. /\ pc = "deliveries" /\ todo = {} /\ \A d \in Deliveries : Bound(d)
      /\ UNCHANGED <<labels, in, service, todo, merged, pos, plan>>
      /\ pc' = "done" /\ result'.class = "plan"
  BY DEF ReturnPlan, Return, Outcome, RInv, MergeInv
<1>2. MergeInv' /\ ConflictAlwaysCaught'
  BY <1>1, AfterMerge
<1>3. EnvIsDoubleGated'
  BY <1>1 DEF RInv, EnvIsDoubleGated, OnClient, Labelled, Label
<1>4. PlanInv'
  BY <1>1, SameSpec DEF PlanInv, Bound
<1>5. GateInv'
  BY <1>1 DEF GateInv
<1>6. ParseInv'
  BY <1>1, SameSpec DEF RInv, ParseInv
<1>7. QED
  BY <1>2, <1>3, <1>4, <1>5, <1>6

\* Every step preserves the invariant of the pipeline.
LEMMA PipelineNext == RInv /\ IInv /\ [Next]_vars => RInv'
<1> SUFFICES ASSUME RInv, IInv, [Next]_vars PROVE RInv'
  OBVIOUS
<1>1. TypeOK'
  BY TypeNext DEF RInv
<1> DEFINE Kept == /\ MergeInv' /\ ParseInv' /\ GateInv' /\ PlanInv' /\ EnvIsDoubleGated'
                   /\ ConflictAlwaysCaught'
<1> HIDE DEF Kept
<1>2. CASE DeriveIdentity
  <2>1. Kept
    BY <1>2, MergeIdentity DEF Kept
  <2>2. StartInv'
    BY <1>2 DEF DeriveIdentity, RInv, StartInv
  <2>3. QED
    BY <1>1, <2>1, <2>2 DEF Kept, RInv
<1>3. ASSUME NEW p \in Prefix, NEW s \in DOMAIN labels[p], MergeLabel(p, s)
      PROVE  RInv'
  <2>1. Kept
    BY <1>3, MergeStep DEF Kept
  <2>2. StartInv'
    BY <1>3 DEF MergeLabel, RInv, StartInv
  <2>3. QED
    BY <1>1, <2>1, <2>2 DEF Kept, RInv
<1>4. CASE Gate \/ ParseSuffix \/ CheckAck \/ ChooseMechanism \/ ReturnPlan
  <2>1. Kept
    BY <1>4, GateStep, SuffixStep, AckStep, MechanismStep, ReturnStep DEF Kept
  <2>2. pc' \notin {"identity", "merge"}
    BY <1>4 DEF Gate, ParseSuffix, CheckAck, ChooseMechanism, ReturnPlan, Return
  <2>3. QED
    BY <1>1, <2>1, <2>2 DEF Kept, RInv, StartInv
<1>5. ASSUME NEW d \in Deliveries, ResolveDelivery(d)
      PROVE  RInv'
  <2>1. Kept
    BY <1>5, BindStep DEF Kept
  <2>2. pc' \notin {"identity", "merge"}
    BY <1>5 DEF ResolveDelivery, Return
  <2>3. QED
    BY <1>1, <2>1, <2>2 DEF Kept, RInv, StartInv
<1>6. CASE UNCHANGED vars
  <2>1. UNCHANGED <<labels, in, pc, service, todo, merged, pos, plan, result>>
    BY <1>6 DEF vars
  <2>2. MergeInv' /\ ConflictAlwaysCaught' /\ StartInv'
    BY <2>1 DEF RInv, MergeInv, ConflictAlwaysCaught, Conflicting, Returned, StartInv
  <2>3. ParseInv' /\ GateInv'
    BY <2>1, SameSpec DEF RInv, ParseInv, GateInv, Returned
  <2>4. PlanInv'
    BY <2>1, SameSpec DEF RInv, PlanInv, Returned, Bound
  <2>5. EnvIsDoubleGated'
    BY <2>1 DEF RInv, EnvIsDoubleGated, OnClient, Labelled, Label
  <2>6. QED
    BY <1>1, <2>2, <2>3, <2>4, <2>5 DEF RInv
<1>7. QED
  BY <1>2, <1>3, <1>4, <1>5, <1>6 DEF Next

\* The invariant of the pipeline holds in every reachable state.
THEOREM PipelineInvariant == Spec => []RInv
BY InitInv, NextInv, MergeInit, PipelineNext, PTL DEF Spec

\* However Go orders the label map, a suffix with different values under the two
\* doorways, one of them possibly empty, ends the call with a conflict, and a
\* conflict is reported for nothing else.
THEOREM ConflictsAreCaught == Spec => []ConflictAlwaysCaught
<1>1. RInv => ConflictAlwaysCaught
  BY DEF RInv
<1>2. QED
  BY <1>1, PipelineInvariant, PTL

\* Env reaches a container only past both gates: an acknowledgment among its labels,
\* and client as the mechanism that its labels, the daemon's default and berm.yml, in
\* this order, give it. A hook or volume default refuses env as a label does.
THEOREM EnvPassesBothGates == Spec => []EnvIsDoubleGated
<1>1. RInv => EnvIsDoubleGated
  BY DEF RInv
<1>2. QED
  BY <1>1, PipelineInvariant, PTL

-----------------------------------------------------------------------------
\* What a returned plan binds.

\* The value of a file's attribute is that of its one label.
LEMMA FileValueOf ==
    ASSUME MergeInv, NEW s \in DOMAIN merged, Shape[s].kind = "file"
    PROVE  FileValue(Shape[s].name, Shape[s].attr) = merged[s]
<1> DEFINE L == FileLabels(Shape[s].name, Shape[s].attr)
<1>1. s \in L
  BY DEF FileLabels
<1>2. \A t \in L : t = s
  <2> SUFFICES ASSUME NEW t \in L PROVE t = s
    OBVIOUS
  <2>1. /\ t \in DOMAIN merged /\ Shape[t].kind = "file"
        /\ Shape[t].name = Shape[s].name /\ Shape[t].attr = Shape[s].attr
    BY DEF FileLabels
  <2>2. s \in DOMAIN Shape /\ t \in DOMAIN Shape
    BY <2>1, MergedIsListed
  <2>3. QED
    BY <2>1, <2>2, GrammarAssumption
<1> HIDE DEF L
<1>3. (CHOOSE t \in L : TRUE) = s
  BY <1>1, <1>2
<1>4. QED
  BY <1>1, <1>3 DEF FileValue, L

\* A suffix that Parse accepts is known, and no pattern accepts an empty value.
LEMMA AcceptedSuffix ==
    ASSUME NEW s, Accepted(s)
    PROVE  /\ Shape[s].kind \notin {"unknown", "rotate"}
           /\ Shape[s].kind \in {"envvar", "file", "dotenv", "envdir"} => merged[s] # Unset
<1> DEFINE t == Shape[s]
           v == merged[s]
<1>1. SuffixError(t, v) = "none"
  BY DEF Accepted
<1> HIDE DEF t, v
<1>2. t.kind \notin {"unknown", "rotate"}
  BY <1>1 DEF SuffixError
<1>3. t.kind = "envvar" => v # Unset
  BY <1>1 DEF SuffixError, EnvRefError
<1>4. t.kind = "file" => v # Unset
  BY <1>1 DEF SuffixError
<1>5. t.kind \in {"dotenv", "envdir"} => v # Unset
  BY <1>1 DEF SuffixError
<1>6. QED
  BY <1>2, <1>3, <1>4, <1>5 DEF t, v

\* A rename label of a container whose deliveries are all bound.
LEMMA RenameBound ==
    ASSUME MergeInv, \A d \in Deliveries : Bound(d),
           NEW s \in DOMAIN merged, Accepted(s), Shape[s].kind = "envvar"
    PROVE  \E b \in plan : Delivers(b, Shape[s], merged[s])
<1>1. PICK i \in DOMAIN SuffixOrder : SuffixOrder[i] = s
  BY MergedIsListed
<1>2. merged[s].kind # "all"
  BY MergedIsListed, AcceptedSuffix
<1> DEFINE d == EnvDelivery(<<2, i>>, Shape[s].name, merged[s])
<1>3. d \in Deliveries
  BY <1>1 DEF Deliveries, RenameEnv
<1>4. d.shape = "env" /\ d.name = Shape[s].name /\ d.ref = merged[s]
  BY <1>2 DEF EnvDelivery
<1> HIDE DEF d
<1>5. Binding(d) \in plan
  BY <1>3 DEF Bound
<1>6. Binding(d).shape = "env" /\ Binding(d).name = Shape[s].name /\ Binding(d).key = merged[s].key
  BY <1>4 DEF Binding
<1>7. Delivers(Binding(d), Shape[s], merged[s])
  BY <1>6 DEF Delivers
<1>8. QED
  BY <1>5, <1>7

\* A file label: the binding of its file carries the attribute.
LEMMA FileBound ==
    ASSUME MergeInv, \A d \in Deliveries : Bound(d),
           NEW s \in DOMAIN merged, Accepted(s), Shape[s].kind = "file"
    PROVE  \E b \in plan : Delivers(b, Shape[s], merged[s])
<1> DEFINE f == Shape[s].name
           v == merged[s]
<1>1. PICK i \in DOMAIN FileOrder : FileOrder[i] = f
  BY MergedIsListed
<1> DEFINE d == [at |-> <<3, i>>, shape |-> "file", name |-> FileOrder[i],
                 ref |-> FileRef(FileOrder[i])]
<1>2. d \in Deliveries
  <2>1. HasFile(FileOrder[i])
    BY <1>1 DEF HasFile
  <2>2. QED
    BY <2>1 DEF Deliveries, Files
<1>3. d.shape = "file" /\ d.name = f /\ d.ref = FileRef(f)
  BY <1>1
<1> HIDE DEF d
<1>4. Binding(d) \in plan
  BY <1>2 DEF Bound
<1>5. v # Unset /\ FileValue(f, Shape[s].attr) = v
  BY AcceptedSuffix, FileValueOf
<1> HIDE DEF f, v
<1>6. /\ Binding(d).shape = "file" /\ Binding(d).name = f
      /\ Binding(d).key = FileRef(f).key
      /\ Binding(d).whole = (FileRef(f).kind = "source")
      /\ Binding(d).path = Path(d)
      /\ Binding(d).owner = Attr(d, "owner") /\ Binding(d).mode = Attr(d, "mode")
  BY <1>3 DEF Binding
<1>7. Shape[s].attr = "from" => Binding(d).key = v.key /\ Binding(d).whole = (v.kind = "source")
  BY <1>5, <1>6 DEF FileRef
<1>8. Shape[s].attr = "path" => Binding(d).path = v
  BY <1>3, <1>5, <1>6 DEF Path, Or
<1>9. Shape[s].attr = "mode" => Binding(d).mode = v
  BY <1>3, <1>5, <1>6 DEF Attr, Or
<1>10. Shape[s].attr = "owner" => Binding(d).owner = v
  BY <1>3, <1>5, <1>6 DEF Attr, Or
<1>11. Delivers(Binding(d), Shape[s], v)
  BY <1>6, <1>7, <1>8, <1>9, <1>10 DEF Delivers, f
<1>12. QED
  BY <1>4, <1>11 DEF v

\* A whole-source render.
LEMMA RenderBound ==
    ASSUME MergeInv, \A d \in Deliveries : Bound(d),
           NEW s \in DOMAIN merged, Accepted(s), Shape[s].kind \in {"dotenv", "envdir"}
    PROVE  \E b \in plan : Delivers(b, Shape[s], merged[s])
<1>1. s = Shape[s].kind
  BY MergedIsListed, GrammarAssumption
<1>2. Value(s) = merged[s] /\ merged[s] # Unset
  BY AcceptedSuffix DEF Value
<1>3. PICK i \in 1..2 : RenderOrder[i] = s
  BY <1>1 DEF RenderOrder
<1> DEFINE d == [at |-> <<4, i>>, shape |-> RenderOrder[i], name |-> Unset, ref |-> NoRef]
<1>4. d \in Deliveries
  BY <1>2, <1>3 DEF Deliveries, Renders
<1>5. d.shape = s
  BY <1>3
<1> HIDE DEF d
<1>6. Binding(d) \in plan
  BY <1>4 DEF Bound
<1>7. Binding(d).shape = s /\ Binding(d).path = Path(d)
  BY <1>5 DEF Binding
<1>8. Path(d) = merged[s]
  BY <1>1, <1>2, <1>5 DEF Path
<1>9. Delivers(Binding(d), Shape[s], merged[s])
  BY <1>1, <1>7, <1>8 DEF Delivers
<1>10. QED
  BY <1>6, <1>9

\* The refs of the list form.
LEMMA ListBound ==
    ASSUME \A d \in Deliveries : Bound(d), "env" \in DOMAIN merged,
           NEW i \in 1..Len(merged["env"])
    PROVE  \E b \in plan : DeliversEnv(b, merged["env"][i])
<1> DEFINE r == merged["env"][i]
           d == EnvDelivery(<<1, i>>, r.key, r)
<1>1. d \in Deliveries
  BY DEF Deliveries, ListEnv
<1>2. r.kind = "all" => d.shape = "all"
  BY DEF EnvDelivery
<1>3. r.kind # "all" => d.shape = "env" /\ d.name = r.key /\ d.ref = r
  BY DEF EnvDelivery
<1> HIDE DEF d, r
<1>4. Binding(d) \in plan
  BY <1>1 DEF Bound
<1>5. /\ Binding(d).shape = d.shape /\ Binding(d).name = d.name
      /\ Binding(d).key = d.ref.key /\ Binding(d).source = SourceOf(d)
  BY DEF Binding
<1>6. r.kind = "sourcekey" => SourceOf(d) = r.source
  BY <1>3 DEF SourceOf
<1>7. DeliversEnv(Binding(d), r)
  BY <1>2, <1>3, <1>5, <1>6 DEF DeliversEnv
<1>8. QED
  BY <1>4, <1>7 DEF r

\* A call that returns a plan has bound what every label of either doorway declares:
\* no suffix that Parse does not know slips through, and nothing it accepts is lost
\* between the spec and the plan.
THEOREM NothingDeclaredIsDropped == Spec => []NoSilentlyAbsentSecret
<1>1. RInv => NoSilentlyAbsentSecret
  <2> SUFFICES ASSUME RInv, Returned("plan"), NEW p \in Prefix, NEW s \in DOMAIN labels[p]
               PROVE  /\ Shape[s].kind \notin {"unknown", "rotate"}
                      /\ Shape[s].kind \in {"envvar", "file", "dotenv", "envdir"} =>
                            \E b \in plan : Delivers(b, Shape[s], labels[p][s])
                      /\ Shape[s].kind = "env" =>
                            \A i \in 1..Len(labels[p][s]) :
                                \E b \in plan : DeliversEnv(b, labels[p][s][i])
    BY DEF NoSilentlyAbsentSecret
  <2>1. MergeInv /\ todo = {} /\ ~Returned("CrossPrefixConflict")
    BY DEF RInv, MergeInv, Returned
  <2>2. s \in DOMAIN merged /\ merged[s] = labels[p][s]
    BY <2>1, DoorwaysAgree
  <2>3. Accepted(s) /\ \A d \in Deliveries : Bound(d)
    BY <2>2 DEF RInv, ParseInv, PlanInv
  <2>4. Shape[s].kind \notin {"unknown", "rotate"}
    BY <2>3, AcceptedSuffix
  <2>5. Shape[s].kind \in {"envvar", "file", "dotenv", "envdir"} =>
           \E b \in plan : Delivers(b, Shape[s], labels[p][s])
    BY <2>1, <2>2, <2>3, RenameBound, FileBound, RenderBound
  <2>6. Shape[s].kind = "env" =>
           \A i \in 1..Len(labels[p][s]) : \E b \in plan : DeliversEnv(b, labels[p][s][i])
    <3> SUFFICES ASSUME Shape[s].kind = "env", NEW i \in 1..Len(merged[s])
                 PROVE  \E b \in plan : DeliversEnv(b, merged[s][i])
      BY <2>2
    <3>1. s = "env"
      BY <2>1, <2>2, MergedIsListed, GrammarAssumption
    <3>2. QED
      BY <2>2, <2>3, <3>1, ListBound
  <2>7. QED
    BY <2>4, <2>5, <2>6
<1>2. QED
  BY <1>1, PipelineInvariant, PTL
=============================================================================
