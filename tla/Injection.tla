----------------------------- MODULE Injection -----------------------------
(***************************************************************************)
(* The daemon as a whole, for what it remembers about a container: its     *)
(* record in the ledger and its standing ("sticky") validation error.      *)
(* Four goroutines write or read them: the event loop (handleEvent in      *)
(* internal/daemon/loop.go), the reconcile pass, a socket handler          *)
(* (handleFetch and handleHook in server.go) and the digest (digest.go).   *)
(* What each of them does on the way is detailed in ClientTracker,         *)
(* VolumeDelivery, Server and Bundle; here a delivery is two steps, either *)
(* of which may fail. Of the ledger's file only what LedgerAbs promises is *)
(* used: it holds a state the map went through since the daemon started.   *)
(* Which one is decided when it is read, so saves are not steps here.      *)
(***************************************************************************)
EXTENDS Integers, Sequences, FiniteSets

CONSTANTS
    Container,      \* container ids, never used twice
    Shapes,         \* what labels and annotations resolve to, as pairs
    NoRecord,       \* no record of a container
    MaxVersion,     \* bound: versions of the source
    MaxStarts,      \* bound: starts of one container
    MaxFaults       \* bound: ended watches, crashes, failed inspects and sinks

\* A resolution: a plan for a mechanism, a sticky error, or nothing to do (not
\* enabled, or refused with a class that is not sticky).
Labels == {"volume", "client", "hook", "broken", "plain"}
Annotations == {"hook", "broken", "plain"}

ASSUME InjectionAssumption ==
    /\ MaxVersion \in Nat \ {0} /\ MaxStarts \in Nat /\ MaxFaults \in Nat
    /\ NoRecord \notin Nat
    /\ Shapes \subseteq Labels \X Annotations

Digest == 1..MaxVersion
Worker == {"loop", "reconcile", "handler"}

VARIABLES
    shape,      \* what each container's labels and annotations resolve to
    state,      \* the containers' states
    starts,     \* starts so far
    version,    \* the current version of the source
    hooks,      \* containers whose hook was run and whose request no handler has taken
    events,     \* the runtime's event stream, oldest first
    watching,   \* the stream is connected
    populated,  \* containers whose volume has its manifest
    up,         \* the daemon runs
    records,    \* ledger.records: the hash recorded for each container
    past,       \* the states records went through since the daemon started
    sticky,     \* stickyStore: containers with a standing error
    job,        \* what each goroutine is doing
    locks,      \* the held in-flight locks
    listed,     \* what the reconcile pass has still to look at
    digest,     \* the digest in preparation
    reported,   \* the last digest that was sent
    faults,     \* faults so far
    unseen,     \* history: containers whose start was lost or not inspected
    overlapped, \* history: the destroy in hand met other work for its container
    settled,    \* history: containers whose destroy was handled alone
    forgotten   \* history: containers whose destroy was handled

ledgerVars == <<up, records, past>>
envVars == <<shape, state, starts, version, hooks>>
digestVars == <<digest, reported>>
historyVars == <<unseen, overlapped, settled, forgotten>>
vars == <<envVars, events, watching, populated, ledgerVars, sticky, job, locks,
          listed, digestVars, faults, historyVars>>

Snapshot == [Container -> Digest \cup {NoRecord}]
Nothing == [c \in Container |-> NoRecord]

Idle == [step |-> "idle"]
Job(c, step, hash) == [id |-> c, step |-> step, hash |-> hash]
Begin(c, step) == Job(c, step, NoRecord)
NoDigest == [idle |-> TRUE, records |-> Nothing]
Busy(w, c) == job[w] # Idle /\ job[w].id = c
Exists(c) == state[c] \in {"created", "running"}

\* Neither the reconcile pass nor a handler has the container in hand, or will have it
\* by a list made or a hook run earlier.
Quiet(c) == c \notin listed \cup hooks /\ \A w \in Worker \ {"loop"} : ~Busy(w, c)

Init ==
    /\ shape \in [Container -> Shapes]
    /\ state = [c \in Container |-> "absent"]
    /\ starts = [c \in Container |-> 0]
    /\ version = 1 /\ hooks = {}
    /\ events = <<>> /\ watching = TRUE /\ populated = {}
    /\ up = TRUE /\ records = Nothing /\ past = {Nothing}
    /\ sticky = {}
    /\ job = [w \in Worker |-> Idle]
    /\ locks = {} /\ listed = {}
    /\ digest = NoDigest /\ reported = [drift |-> {}, sticky |-> {}]
    /\ faults = 0
    /\ unseen = {} /\ overlapped = FALSE /\ settled = {} /\ forgotten = {}

Fault == faults < MaxFaults /\ faults' = faults + 1

-----------------------------------------------------------------------------
\* The runtime and the operator.

\* An event reaches the daemon only while it watches.
Emit(type, c) ==
    /\ events' = IF watching THEN Append(events, [type |-> type, id |-> c]) ELSE events
    /\ unseen' = IF type = "start" /\ ~watching THEN unseen \cup {c} ELSE unseen

ContainerStep(c) ==
    /\ \/ /\ state[c] = "absent" /\ state' = [state EXCEPT ![c] = "created"]
          /\ UNCHANGED <<starts, events, unseen>>
       \/ /\ state[c] = "created" /\ starts[c] < MaxStarts
          /\ state' = [state EXCEPT ![c] = "running"]
          /\ starts' = [starts EXCEPT ![c] = @ + 1]
          /\ Emit("start", c)
       \/ /\ state[c] = "running" /\ state' = [state EXCEPT ![c] = "created"]
          /\ Emit("end", c) /\ UNCHANGED starts
       \/ /\ state[c] = "created" /\ state' = [state EXCEPT ![c] = "gone"]
          /\ Emit("destroy", c) /\ UNCHANGED starts
    /\ UNCHANGED <<shape, version, hooks, watching, populated, ledgerVars, sticky, job, locks,
                   listed, digestVars, faults, overlapped, settled, forgotten>>

\* A start that is under way runs the hook, whose request waits in the socket until a
\* handler takes it, whatever becomes of the container; or the hook dies unheard.
HookStep(c) ==
    /\ \/ state[c] = "created" /\ hooks' = hooks \cup {c}
       \/ c \in hooks /\ hooks' = hooks \ {c}
    /\ UNCHANGED <<shape, state, starts, version, events, watching, populated, ledgerVars,
                   sticky, job, locks, listed, digestVars, faults, historyVars>>

Rotate ==
    /\ version < MaxVersion /\ version' = version + 1
    /\ UNCHANGED <<shape, state, starts, hooks, events, watching, populated, ledgerVars, sticky,
                   job, locks, listed, digestVars, faults, historyVars>>

StartsIn(q) == {q[i].id : i \in {j \in DOMAIN q : q[j].type = "start"}}

\* The watch ends and loses what it carried; watchOnce is called again later.
WatchEnds ==
    /\ watching /\ Fault
    /\ watching' = FALSE /\ events' = <<>>
    /\ unseen' = unseen \cup StartsIn(events)
    /\ UNCHANGED <<envVars, populated, ledgerVars, sticky, job, locks, listed, digestVars,
                   overlapped, settled, forgotten>>

Rewatch ==
    /\ up /\ ~watching /\ watching' = TRUE
    /\ UNCHANGED <<envVars, events, populated, ledgerVars, sticky, job, locks, listed,
                   digestVars, faults, historyVars>>

\* The daemon dies with everything in its memory.
Crash ==
    /\ up /\ Fault
    /\ up' = FALSE
    /\ watching' = FALSE /\ events' = <<>>
    /\ sticky' = {} /\ job' = [w \in Worker |-> Idle] /\ locks' = {} /\ listed' = {}
    /\ digest' = NoDigest
    /\ unseen' = unseen \cup StartsIn(events)
    /\ overlapped' = FALSE /\ settled' = {} /\ forgotten' = {}
    /\ UNCHANGED <<envVars, populated, records, past, reported>>

\* LoadLedger finds some state in the file; the stream is connected by Rewatch.
Boot ==
    /\ ~up /\ up' = TRUE
    /\ records' \in past /\ past' = {records'}
    /\ UNCHANGED <<envVars, events, watching, populated, sticky, job, locks, listed,
                   digestVars, faults, historyVars>>

-----------------------------------------------------------------------------
\* The end of an attempt: recordInjection, or alertValidation.

\* A goroutine takes up, or goes on with, work; or it has none left.
Goes(w, j) == job' = [job EXCEPT ![w] = j]
Step(w, step) == job[w].step = step

\* RecordManifest replaces the record and saves. A failed save is logged.
RecordManifest(w) ==
    /\ up /\ Step(w, "record")
    /\ records' = [records EXCEPT ![job[w].id] = job[w].hash]
    /\ past' = past \cup {records'}
    /\ Goes(w, Begin(job[w].id, "clear"))
    /\ UNCHANGED <<envVars, events, watching, populated, up, sticky, locks, listed,
                   digestVars, faults, historyVars>>

\* sticky.clear, and the deferred unlock of a push.
ClearSticky(w) ==
    /\ up /\ Step(w, "clear")
    /\ sticky' = sticky \ {job[w].id}
    /\ Goes(w, Idle)
    /\ locks' = IF w = "handler" THEN locks ELSE locks \ {job[w].id}
    /\ UNCHANGED <<envVars, events, watching, populated, ledgerVars, listed, digestVars,
                   faults, historyVars>>

\* alertValidation of a sticky class: the sink first, which may take its time,
\* then sticky.add.
AddSticky(w) ==
    /\ up /\ Step(w, "alert")
    /\ sticky' = sticky \cup {job[w].id}
    /\ Goes(w, Idle)
    /\ UNCHANGED <<envVars, events, watching, populated, ledgerVars, locks, listed,
                   digestVars, faults, historyVars>>

-----------------------------------------------------------------------------
\* A push, by the event loop or the reconcile pass.

Lock(w) ==
    /\ up /\ Step(w, "lock")
    /\ job[w].id \notin locks
    /\ locks' = locks \cup {job[w].id}
    /\ Goes(w, [job[w] EXCEPT !.step = "apply"])
    /\ UNCHANGED <<envVars, events, watching, populated, ledgerVars, sticky, listed,
                   digestVars, faults, historyVars>>

\* ApplyVolume.
ApplyVolume(w) ==
    /\ up /\ Step(w, "apply")
    /\ populated' = populated \cup {job[w].id}
    /\ Goes(w, [job[w] EXCEPT !.step = "hash"])
    /\ UNCHANGED <<envVars, events, watching, ledgerVars, sticky, locks, listed,
                   digestVars, faults, historyVars>>

\* BuildManifest for the ledger, from the ciphertext as it is now.
HashManifest(w) ==
    /\ up /\ Step(w, "hash")
    /\ Goes(w, Job(job[w].id, "record", version))
    /\ UNCHANGED <<envVars, events, watching, populated, ledgerVars, sticky, locks,
                   listed, digestVars, faults, historyVars>>

\* Mutated form: a manifest that cannot be built is recorded, empty.
PushIgnoresHashError(w) ==
    /\ up /\ job[w].step \in {"apply", "hash"}
    /\ IF Step(w, "hash")
       THEN Goes(w, Job(job[w].id, "record", 0)) /\ UNCHANGED locks
       ELSE Goes(w, Idle) /\ locks' = locks \ {job[w].id}
    /\ UNCHANGED <<envVars, events, watching, populated, ledgerVars, sticky, listed,
                   digestVars, faults, historyVars>>

\* ApplyVolume fails, which is alerted but never sticky, or BuildManifest does,
\* which is logged. Either way the lock is released.
PushFails(w) ==
    /\ up /\ job[w].step \in {"apply", "hash"}
    /\ Goes(w, Idle)
    /\ locks' = locks \ {job[w].id}
    /\ UNCHANGED <<envVars, events, watching, populated, ledgerVars, sticky, listed,
                   digestVars, faults, historyVars>>

-----------------------------------------------------------------------------
\* The event loop.

\* handleStart, from its Inspect: a container that is gone has none.
HandleStart(c) ==
    /\ \/ /\ state[c] = "gone" /\ UNCHANGED <<job, unseen, faults>>
       \/ /\ state[c] # "gone" /\ Fault
          /\ unseen' = unseen \cup {c} /\ UNCHANGED job
       \/ /\ state[c] # "gone"
          /\ CASE shape[c][1] = "volume" -> Goes("loop", Begin(c, "lock"))
               [] shape[c][1] = "broken" -> Goes("loop", Begin(c, "alert"))
               [] OTHER -> UNCHANGED job
          /\ UNCHANGED <<unseen, faults>>
    /\ UNCHANGED <<sticky, overlapped>>

\* Mutated form: an end clears the standing error, as a destroy does.
EndClearsSticky(c) ==
    /\ sticky' = sticky \ {c}
    /\ UNCHANGED <<job, unseen, faults, overlapped>>

\* A stop or a die concerns the client tracker only.
HandleEnd(c) == UNCHANGED <<job, unseen, faults, sticky, overlapped>>

HandleDestroy(c) ==
    /\ Goes("loop", Begin(c, "forget"))
    /\ overlapped' = ~Quiet(c)
    /\ UNCHANGED <<unseen, faults, sticky>>

handleEvent ==
    /\ up /\ job["loop"] = Idle /\ events # <<>>
    /\ events' = Tail(events)
    /\ LET ev == Head(events)
       IN  CASE ev.type = "start" -> HandleStart(ev.id)
             [] ev.type = "end" -> HandleEnd(ev.id)
             [] ev.type = "destroy" -> HandleDestroy(ev.id)
    /\ UNCHANGED <<envVars, watching, populated, ledgerVars, locks, listed, digestVars,
                   settled, forgotten>>

\* Forget drops the record and saves.
Forget ==
    /\ up /\ Step("loop", "forget")
    /\ records' = [records EXCEPT ![job["loop"].id] = NoRecord]
    /\ past' = past \cup {records'}
    /\ Goes("loop", Begin(job["loop"].id, "unstick"))
    /\ UNCHANGED <<envVars, events, watching, populated, up, sticky, locks, listed,
                   digestVars, faults, historyVars>>

\* The sticky error of a destroyed container goes after its record.
Unstick ==
    /\ up /\ Step("loop", "unstick")
    /\ LET c == job["loop"].id
       IN  /\ sticky' = sticky \ {c}
           /\ settled' = IF overlapped THEN settled ELSE settled \cup {c}
           /\ forgotten' = forgotten \cup {c}
    /\ Goes("loop", Idle) /\ overlapped' = FALSE
    /\ UNCHANGED <<envVars, events, watching, populated, ledgerVars, locks, listed,
                   digestVars, faults, unseen>>

-----------------------------------------------------------------------------
\* The reconcile pass.

\* Mutated form: the pass remembers the containers of earlier lists.
ListsRemembered ==
    /\ up /\ job["reconcile"] = Idle /\ listed = {}
    /\ listed' = {c \in Container : state[c] # "absent"}
    /\ UNCHANGED <<envVars, events, watching, populated, ledgerVars, sticky, job, locks,
                   digestVars, faults, historyVars>>

\* List, the start of a pass; when it fails there is no pass.
ReconcileLists ==
    /\ up /\ job["reconcile"] = Idle /\ listed = {}
    /\ listed' = {c \in Container : Exists(c)}
    /\ UNCHANGED <<envVars, events, watching, populated, ledgerVars, sticky, job, locks,
                   digestVars, faults, historyVars>>

\* One container of the list: a volume without a manifest is pushed to, and
\* nothing else is done or said.
ReconcileVisits(c) ==
    /\ up /\ job["reconcile"] = Idle /\ c \in listed
    /\ listed' = listed \ {c}
    /\ IF shape[c][1] = "volume" /\ c \notin populated
       THEN Goes("reconcile", Begin(c, "lock"))
       ELSE UNCHANGED job
    /\ UNCHANGED <<envVars, events, watching, populated, ledgerVars, sticky, locks,
                   digestVars, faults, historyVars>>

-----------------------------------------------------------------------------
\* A socket handler.

\* The resolution of a request, and what the handler does next.
Resolved(c, resolution) ==
    CASE resolution \in {"client", "volume", "hook"} -> Goes("handler", Begin(c, "build"))
      [] resolution = "broken" -> Goes("handler", Begin(c, "alert"))
      [] OTHER -> UNCHANGED job

\* Mutated form: the caller's container is not inspected.
FetchOfAnyone(c) ==
    /\ state[c] # "absent" /\ starts[c] > 0
    /\ Resolved(c, shape[c][1])
    /\ UNCHANGED hooks

\* handleFetch: a process of the container asked, so it was started, and Authenticate
\* inspects the container, which may have ended but is there. Any plan is served,
\* whatever its mechanism.
HandleFetch(c) ==
    /\ Exists(c) /\ starts[c] > 0
    /\ Resolved(c, shape[c][1])
    /\ UNCHANGED hooks

\* handleHook resolves the annotations the hook presents and inspects nothing: the
\* container may be gone. Another mechanism than the hook is refused as not enabled.
HandleHook(c) ==
    /\ c \in hooks /\ hooks' = hooks \ {c}
    /\ Resolved(c, shape[c][2])

HandleRequest(c) ==
    /\ up /\ job["handler"] = Idle
    /\ HandleFetch(c) \/ HandleHook(c)
    /\ UNCHANGED <<shape, state, starts, version, events, watching, populated, ledgerVars,
                   sticky, locks, listed, digestVars, faults, historyVars>>

\* BuildBundle takes the hashes into the bundle's manifest.
BuildBundle ==
    /\ up /\ Step("handler", "build")
    /\ Goes("handler", Job(job["handler"].id, "encode", version))
    /\ UNCHANGED <<envVars, events, watching, populated, ledgerVars, sticky, locks,
                   listed, digestVars, faults, historyVars>>

\* EncodeBundle returned: the injection is recorded.
EncodeBundle ==
    /\ up /\ Step("handler", "encode")
    /\ Goes("handler", [job["handler"] EXCEPT !.step = "record"])
    /\ UNCHANGED <<envVars, events, watching, populated, ledgerVars, sticky, locks,
                   listed, digestVars, faults, historyVars>>

\* A build that fails is alerted, an encode that fails is logged.
HandlerFails ==
    /\ up /\ job["handler"].step \in {"build", "encode"}
    /\ Goes("handler", Idle)
    /\ UNCHANGED <<envVars, events, watching, populated, ledgerVars, sticky, locks,
                   listed, digestVars, faults, historyVars>>

-----------------------------------------------------------------------------
\* The digest.

\* Drift copies the records under the mutex...
DigestSnapshot ==
    /\ up /\ digest = NoDigest
    /\ digest' = [idle |-> FALSE, records |-> records]
    /\ UNCHANGED <<envVars, events, watching, populated, ledgerVars, sticky, job, locks,
                   listed, reported, faults, historyVars>>

\* Mutated form: what clients and hooks fetched is not compared.
DriftOfVolumesOnly(r) ==
    {c \in Container : shape[c][1] = "volume" /\ r[c] \notin {NoRecord, version}}

\* ... and compares each recorded hash with the source's present one.
Drift(r) == {c \in Container : r[c] \notin {NoRecord, version}}

\* composeDigest lists the drift and the sticky errors as they are now. A sink
\* that fails loses this digest; the next one is made afresh.
DigestSend ==
    /\ up /\ digest # NoDigest
    /\ \/ reported' = [drift |-> Drift(digest.records), sticky |-> sticky] /\ UNCHANGED faults
       \/ Fault /\ UNCHANGED reported
    /\ digest' = NoDigest
    /\ UNCHANGED <<envVars, events, watching, populated, ledgerVars, sticky, job, locks,
                   listed, historyVars>>

-----------------------------------------------------------------------------
Push(w) == Lock(w) \/ ApplyVolume(w) \/ HashManifest(w) \/ PushFails(w)
Finish(w) == RecordManifest(w) \/ ClearSticky(w) \/ AddSticky(w)

LoopStep == handleEvent \/ Forget \/ Unstick \/ Push("loop") \/ Finish("loop")
ReconcileStep ==
    \/ ReconcileLists \/ (\E c \in Container : ReconcileVisits(c))
    \/ Push("reconcile") \/ Finish("reconcile")
HandlerStep == BuildBundle \/ EncodeBundle \/ HandlerFails \/ Finish("handler")
DigestStep == DigestSnapshot \/ DigestSend

Environment ==
    \/ \E c \in Container : ContainerStep(c) \/ HookStep(c) \/ HandleRequest(c)
    \/ Rotate \/ WatchEnds \/ Crash

Next == Environment \/ Rewatch \/ Boot \/ LoopStep \/ ReconcileStep \/ HandlerStep \/ DigestStep

Spec == Init /\ [][Next]_vars

(* The goroutines run, the digest's ticker ticks, and the daemon is restarted  *)
(* and connects again. Nothing makes a container start, end or ask, a source   *)
(* rotate or a fault happen.                                                   *)
Fairness ==
    /\ WF_vars(LoopStep) /\ WF_vars(ReconcileStep) /\ WF_vars(HandlerStep)
    /\ WF_vars(DigestStep) /\ WF_vars(Boot) /\ WF_vars(Rewatch)

FairSpec == Spec /\ Fairness

-----------------------------------------------------------------------------
\* Properties.

Steps == {"lock", "apply", "hash", "build", "encode", "record", "clear", "alert",
          "forget", "unstick"}

\* The type invariant.
TypeOK ==
    /\ shape \in [Container -> Shapes]
    /\ state \in [Container -> {"absent", "created", "running", "gone"}]
    /\ starts \in [Container -> 0..MaxStarts] /\ version \in Digest /\ hooks \subseteq Container
    /\ watching \in BOOLEAN /\ populated \subseteq Container
    /\ up \in BOOLEAN /\ records \in Snapshot /\ past \subseteq Snapshot
    /\ sticky \subseteq Container /\ locks \subseteq Container /\ listed \subseteq Container
    /\ job \in [Worker -> {Idle} \cup [id : Container, step : Steps, hash : Digest \cup {NoRecord}]]
    /\ faults \in 0..MaxFaults
    /\ unseen \subseteq Container /\ overlapped \in BOOLEAN
    /\ settled \subseteq forgotten /\ forgotten \subseteq Container

\* A destroyed container leaves nothing behind: when its destroy event was handled
\* while no handler, push or reconcile pass had it in hand and no request of its hook
\* was under way, the daemon has neither a record nor a standing error of it from then
\* on, since nothing new can be begun for a container that is gone.
NothingOfTheDestroyed == \A c \in settled : records[c] = NoRecord /\ c \notin sticky

\* What a step may not do to a container whose destroy was handled.
NoMore(c) ==
    /\ Quiet(c)'
    /\ records'[c] \in {records[c], NoRecord}
    /\ c \in sticky' => c \in sticky

\* Of a destroy that did overlap: the work that was under way may bring a record or an
\* error back, but once it has ended nothing is begun for the container again, and
\* neither a record nor an error appears any more, while this daemon lives.
DestroyedStaysQuiet == [][\A c \in forgotten \cap forgotten' : Quiet(c) => NoMore(c)]_vars

\* A rotated source surfaces: a container recorded with an older version is
\* named by a digest, unless its record changes or the daemon dies first.
RotationSurfaces ==
    \A c \in Container :
        (up /\ records[c] \notin {NoRecord, version})
            ~> (c \in reported.drift \/ ~up \/ records[c] \in {NoRecord, version})

\* A container that is refused with a sticky class of error surfaces: when its start
\* is in the event stream, a digest names it, unless it is destroyed, its annotations
\* let the hook serve it, the daemon dies or its start is lost on the way. (Errors of
\* the other classes are alerted once and stand in no digest.)
BrokenSurfaces ==
    \A c \in Container :
        (shape[c][1] = "broken" /\ shape[c][2] # "hook" /\ c \in StartsIn(events))
            ~> (c \in reported.sticky \/ state[c] = "gone" \/ c \in unseen \/ ~up)
=============================================================================
