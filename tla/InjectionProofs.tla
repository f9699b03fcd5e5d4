--------------------------- MODULE InjectionProofs ---------------------------
(***************************************************************************)
(* Proofs about Injection, for any containers, shapes and bounds: type     *)
(* correctness, and that a destroyed container leaves nothing behind.      *)
(***************************************************************************)
EXTENDS Injection, SequenceTheorems, TLAPS

Event == [type : {"start", "end", "destroy"}, id : Container]
Work == [id : Container, step : Steps, hash : Digest \cup {NoRecord}]

TypeInv == TypeOK /\ events \in Seq(Event)

\* What Work and Idle are told apart by.
LEMMA JobTypes ==
    ASSUME TypeOK, NEW w \in Worker
    PROVE  /\ job[w] \in {Idle} \cup Work
           /\ job[w].step # "idle" => job[w] \in Work
           /\ job[w] \in Work => job[w] # Idle
<1>1. job[w] \in {Idle} \cup Work
  BY DEF TypeOK, Work
<1>2. Idle.step = "idle"
  BY DEF Idle
<1>3. \A j \in Work : j.step \in Steps
  BY DEF Work
<1>4. "idle" \notin Steps
  BY DEF Steps
<1> QED
  BY <1>1, <1>2, <1>3, <1>4

\* A job the code makes is a job.
LEMMA NewJob ==
    ASSUME NEW c \in Container, NEW s \in Steps, NEW h \in Digest \cup {NoRecord}
    PROVE  Job(c, s, h) \in Work /\ Begin(c, s) \in Work
BY DEF Job, Begin, Work

\* Goes keeps the type of job.
LEMMA GoesType ==
    ASSUME TypeOK, NEW w \in Worker, NEW j \in {Idle} \cup Work, Goes(w, j)
    PROVE  job' \in [Worker -> {Idle} \cup Work]
BY DEF TypeOK, Goes, Work

\* The front of the event stream, and what is left after it.
LEMMA EventHead ==
    ASSUME events \in Seq(Event), events # <<>>
    PROVE  /\ Head(events) \in Event /\ Tail(events) \in Seq(Event)
           /\ Head(events) = events[1] /\ 1 \in DOMAIN events
           /\ \A i \in DOMAIN Tail(events) : i + 1 \in DOMAIN events
                                             /\ Tail(events)[i] = events[i + 1]
BY HeadTailProperties, ElementOfSeq, LenProperties

\* The starts in the event stream are of containers.
LEMMA StartsType ==
    ASSUME events \in Seq(Event)
    PROVE  StartsIn(events) \subseteq Container
<1>1. \A i \in DOMAIN events : events[i] \in Event
  BY LenProperties, ElementOfSeq
<1>2. \A e \in Event : e.id \in Container
  BY DEF Event
<1> QED
  BY <1>1, <1>2 DEF StartsIn

\* The types without those of the event stream and of the jobs.
Rest ==
    /\ shape \in [Container -> Shapes]
    /\ state \in [Container -> {"absent", "created", "running", "gone"}]
    /\ starts \in [Container -> 0..MaxStarts] /\ version \in Digest /\ hooks \subseteq Container
    /\ watching \in BOOLEAN /\ populated \subseteq Container
    /\ up \in BOOLEAN /\ records \in Snapshot /\ past \subseteq Snapshot
    /\ sticky \subseteq Container /\ locks \subseteq Container /\ listed \subseteq Container
    /\ faults \in 0..MaxFaults
    /\ unseen \subseteq Container /\ overlapped \in BOOLEAN
    /\ settled \subseteq forgotten /\ forgotten \subseteq Container

Jobs == job \in [Worker -> {Idle} \cup Work]

\* TypeOK, split in two.
LEMMA TypeParts == TypeOK <=> Rest /\ Jobs
BY DEF TypeOK, Rest, Jobs, Work

\* The daemon starts with the types.
LEMMA TypeInit == Init => TypeInv
<1> SUFFICES ASSUME Init PROVE TypeInv
  OBVIOUS
<1>1. Rest
  <2>1. 0 \in 0..MaxStarts /\ 0 \in 0..MaxFaults /\ 1 \in Digest
    BY InjectionAssumption DEF Digest
  <2>2. Nothing \in Snapshot
    BY DEF Nothing, Snapshot
  <2> QED
    BY <2>1, <2>2 DEF Init, Rest
<1>2. Jobs
  BY DEF Init, Jobs
<1>3. events \in Seq(Event)
  BY EmptySeq DEF Init
<1> QED
  BY <1>1, <1>2, <1>3, TypeParts DEF TypeInv

\* A fault stays within its bound.
LEMMA FaultType ==
    ASSUME Rest, Fault
    PROVE  faults' \in 0..MaxFaults
BY InjectionAssumption DEF Rest, Fault

\* The actions, by who takes them.
LEMMA NextCases ==
    ASSUME [Next]_vars
    PROVE  \/ \E c \in Container : \/ ContainerStep(c) \/ HookStep(c) \/ HandleRequest(c)
                                   \/ ReconcileVisits(c)
           \/ Rotate \/ WatchEnds \/ Crash \/ Rewatch \/ Boot
           \/ handleEvent \/ Forget \/ Unstick \/ ReconcileLists
           \/ BuildBundle \/ EncodeBundle \/ HandlerFails
           \/ DigestSnapshot \/ DigestSend
           \/ \E w \in Worker : \/ Lock(w) \/ ApplyVolume(w) \/ HashManifest(w) \/ PushFails(w)
                                \/ RecordManifest(w) \/ ClearSticky(w) \/ AddSticky(w)
           \/ UNCHANGED vars
BY DEF Next, Environment, LoopStep, ReconcileStep, HandlerStep, DigestStep, Push, Finish, Worker

\* The primed parts are the primed type.
LEMMA TypePartsPrimed == Rest' /\ Jobs' => TypeOK'
BY DEF TypeOK, Rest, Jobs, Work

\* Every step keeps the types.
LEMMA TypeStep == TypeInv /\ [Next]_vars => TypeInv'
<1> SUFFICES ASSUME TypeInv, [Next]_vars PROVE Rest' /\ Jobs' /\ events' \in Seq(Event)
  BY TypePartsPrimed DEF TypeInv, Event
<1>0. TypeOK /\ Rest /\ Jobs /\ events \in Seq(Event)
  BY TypeParts DEF TypeInv
<1> USE <1>0 DEF envVars, ledgerVars, digestVars, historyVars
<1>1. ASSUME NEW c \in Container, ContainerStep(c) PROVE Rest' /\ Jobs' /\ events' \in Seq(Event)
  <2>4. Jobs'
    BY <1>1 DEF ContainerStep, Jobs
  <2>5. Rest'
    <3>1. state' \in [Container -> {"absent", "created", "running", "gone"}]
      BY <1>1 DEF ContainerStep, Rest
    <3>2. starts' \in [Container -> 0..MaxStarts]
      <4>1. starts[c] < MaxStarts => starts[c] + 1 \in 0..MaxStarts
        BY InjectionAssumption DEF Rest
      <4> QED
        BY <1>1, <4>1 DEF ContainerStep, Rest
    <3>3. unseen' \subseteq Container
      BY <1>1 DEF ContainerStep, Emit, Rest
    <3> QED
      BY <1>1, <3>1, <3>2, <3>3 DEF ContainerStep, Rest
  <2>6. events' \in Seq(Event)
    <3>1. \A t \in {"start", "end", "destroy"} : [type |-> t, id |-> c] \in Event
      BY DEF Event
    <3>2. \A e \in Event : Append(events, e) \in Seq(Event)
      BY AppendProperties
    <3> QED
      BY <1>1, <3>1, <3>2 DEF ContainerStep, Emit
  <2> QED
    BY <2>4, <2>5, <2>6
<1>2. ASSUME NEW c \in Container, HandleRequest(c) PROVE Rest' /\ Jobs' /\ events' \in Seq(Event)
  <2>3. Begin(c, "build") \in Work /\ Begin(c, "alert") \in Work
    BY NewJob DEF Steps, Digest
  <2>4. Jobs'
    <3>1. \/ Goes("handler", Begin(c, "build")) \/ Goes("handler", Begin(c, "alert"))
          \/ UNCHANGED job
      BY <1>2 DEF HandleRequest, HandleFetch, HandleHook, Resolved
    <3> QED
      BY <3>1, <2>3, GoesType DEF Jobs, Worker
  <2>5. Rest'
    BY <1>2 DEF HandleRequest, HandleFetch, HandleHook, Rest
  <2>6. events' \in Seq(Event)
    BY <1>2 DEF HandleRequest
  <2> QED
    BY <2>4, <2>5, <2>6
<1>3. ASSUME NEW c \in Container, ReconcileVisits(c) PROVE Rest' /\ Jobs' /\ events' \in Seq(Event)
  <2>3. Begin(c, "lock") \in Work
    BY NewJob DEF Steps
  <2>4. Jobs'
    BY <1>3, <2>3, GoesType DEF ReconcileVisits, Jobs, Worker
  <2>5. Rest'
    BY <1>3 DEF ReconcileVisits, Rest
  <2>6. events' \in Seq(Event)
    BY <1>3 DEF ReconcileVisits
  <2> QED
    BY <2>4, <2>5, <2>6
<1>4. CASE Rotate
  <2>4. Jobs'
    BY <1>4 DEF Rotate, Jobs
  <2>5. Rest'
    BY <1>4, InjectionAssumption DEF Rotate, Rest, Digest
  <2>6. events' \in Seq(Event)
    BY <1>4 DEF Rotate
  <2> QED
    BY <2>4, <2>5, <2>6
<1>5. CASE WatchEnds
  <2>4. Jobs'
    BY <1>5 DEF WatchEnds, Jobs
  <2>5. Rest'
    <3>1. StartsIn(events) \subseteq Container
      BY StartsType
    <3>2. faults' \in 0..MaxFaults
      BY <1>5, FaultType DEF WatchEnds
    <3> QED
      BY <1>5, <3>1, <3>2 DEF WatchEnds, Rest
  <2>6. events' \in Seq(Event)
    BY <1>5, EmptySeq DEF WatchEnds
  <2> QED
    BY <2>4, <2>5, <2>6
<1>6. CASE Crash
  <2>4. Jobs'
    BY <1>6 DEF Crash, Jobs
  <2>5. Rest'
    <3>1. StartsIn(events) \subseteq Container
      BY StartsType
    <3>2. faults' \in 0..MaxFaults
      BY <1>6, FaultType DEF Crash
    <3> QED
      BY <1>6, <3>1, <3>2 DEF Crash, Rest
  <2>6. events' \in Seq(Event)
    BY <1>6, EmptySeq DEF Crash
  <2> QED
    BY <2>4, <2>5, <2>6
<1>7. CASE Rewatch
  <2>4. Jobs'
    BY <1>7 DEF Rewatch, Jobs
  <2>5. Rest'
    BY <1>7 DEF Rewatch, Rest
  <2>6. events' \in Seq(Event)
    BY <1>7 DEF Rewatch
  <2> QED
    BY <2>4, <2>5, <2>6
<1>8. CASE Boot
  <2>4. Jobs'
    BY <1>8 DEF Boot, Jobs
  <2>5. Rest'
    BY <1>8 DEF Boot, Rest
  <2>6. events' \in Seq(Event)
    BY <1>8 DEF Boot
  <2> QED
    BY <2>4, <2>5, <2>6
<1>9. CASE handleEvent
  <2>1. Head(events) \in Event /\ Head(events).id \in Container
    BY <1>9, EventHead DEF handleEvent, Event
  <2>2. \A s \in Steps : Begin(Head(events).id, s) \in Work
    BY <2>1, NewJob
  <2>3. \/ UNCHANGED job
        \/ \E s \in Steps : Goes("loop", Begin(Head(events).id, s))
    BY <1>9, <2>1 DEF handleEvent, HandleStart, HandleEnd, HandleDestroy, Event, Steps
  <2>4. Jobs'
    BY <2>2, <2>3, GoesType DEF Jobs, Worker
  <2>5. Rest'
    <3>0. faults' \in 0..MaxFaults
      BY <1>9, <2>1, FaultType DEF handleEvent, HandleStart, HandleEnd, HandleDestroy, Event, Rest
    <3>1. unseen' \subseteq Container /\ sticky' \subseteq Container
      BY <1>9, <2>1 DEF handleEvent, HandleStart, HandleEnd, HandleDestroy, Event, Rest
    <3>2. overlapped' \in BOOLEAN
      BY <1>9, <2>1 DEF handleEvent, HandleStart, HandleEnd, HandleDestroy, Event, Rest
    <3> QED
      BY <1>9, <3>0, <3>1, <3>2 DEF handleEvent, Rest
  <2>6. events' \in Seq(Event)
    BY <1>9, EventHead DEF handleEvent
  <2> QED
    BY <2>4, <2>5, <2>6
<1>10. CASE Forget
  <2>1. "loop" \in Worker /\ job["loop"] \in Work
    BY <1>10, JobTypes DEF Forget, Step, Worker
  <2>2. job["loop"].id \in Container
    BY <2>1 DEF Work
  <2>3. Begin(job["loop"].id, "unstick") \in Work
    BY <2>1, <2>2, NewJob DEF Work, Steps, Rest
  <2>4. Jobs'
    BY <1>10, <2>1, <2>3, GoesType DEF Forget, Jobs
  <2>5. Rest'
    <3>1. [records EXCEPT ![job["loop"].id] = NoRecord] \in Snapshot
      BY <2>1, <2>2 DEF Rest, Snapshot, Work
    <3> QED
      BY <1>10, <3>1 DEF Forget, Rest
  <2>6. events' \in Seq(Event)
    BY <1>10 DEF Forget
  <2> QED
    BY <2>4, <2>5, <2>6
<1>11. CASE Unstick
  <2>1. "loop" \in Worker /\ job["loop"] \in Work
    BY <1>11, JobTypes DEF Unstick, Step, Worker
  <2>2. job["loop"].id \in Container
    BY <2>1 DEF Work
  <2>4. Jobs'
    BY <1>11, <2>1, GoesType DEF Unstick, Jobs
  <2>5. Rest'
    BY <1>11, <2>1, <2>2 DEF Unstick, Rest
  <2>6. events' \in Seq(Event)
    BY <1>11 DEF Unstick
  <2> QED
    BY <2>4, <2>5, <2>6
<1>12. CASE ReconcileLists
  <2>4. Jobs'
    BY <1>12 DEF ReconcileLists, Jobs
  <2>5. Rest'
    BY <1>12 DEF ReconcileLists, Rest
  <2>6. events' \in Seq(Event)
    BY <1>12 DEF ReconcileLists
  <2> QED
    BY <2>4, <2>5, <2>6
<1>13. CASE BuildBundle
  <2>1. "handler" \in Worker /\ job["handler"] \in Work
    BY <1>13, JobTypes DEF BuildBundle, Step, Worker
  <2>2. job["handler"].id \in Container
    BY <2>1 DEF Work
  <2>3. Job(job["handler"].id, "encode", version) \in Work
    BY <2>1, <2>2, NewJob DEF Work, Steps, Rest
  <2>4. Jobs'
    BY <1>13, <2>1, <2>3, GoesType DEF BuildBundle, Jobs
  <2>5. Rest'
    BY <1>13 DEF BuildBundle, Rest
  <2>6. events' \in Seq(Event)
    BY <1>13 DEF BuildBundle
  <2> QED
    BY <2>4, <2>5, <2>6
<1>14. CASE EncodeBundle
  <2>1. "handler" \in Worker /\ job["handler"] \in Work
    BY <1>14, JobTypes DEF EncodeBundle, Step, Worker
  <2>2. job["handler"].id \in Container
    BY <2>1 DEF Work
  <2>3. [job["handler"] EXCEPT !.step = "record"] \in Work
    BY <2>1, <2>2, NewJob DEF Work, Steps, Rest
  <2>4. Jobs'
    BY <1>14, <2>1, <2>3, GoesType DEF EncodeBundle, Jobs
  <2>5. Rest'
    BY <1>14 DEF EncodeBundle, Rest
  <2>6. events' \in Seq(Event)
    BY <1>14 DEF EncodeBundle
  <2> QED
    BY <2>4, <2>5, <2>6
<1>15. CASE HandlerFails
  <2>1. "handler" \in Worker /\ job["handler"] \in Work
    BY <1>15, JobTypes DEF HandlerFails, Step, Worker
  <2>2. job["handler"].id \in Container
    BY <2>1 DEF Work
  <2>4. Jobs'
    BY <1>15, <2>1, GoesType DEF HandlerFails, Jobs
  <2>5. Rest'
    BY <1>15 DEF HandlerFails, Rest
  <2>6. events' \in Seq(Event)
    BY <1>15 DEF HandlerFails
  <2> QED
    BY <2>4, <2>5, <2>6
<1>16. CASE DigestSnapshot
  <2>4. Jobs'
    BY <1>16 DEF DigestSnapshot, Jobs
  <2>5. Rest'
    BY <1>16 DEF DigestSnapshot, Rest
  <2>6. events' \in Seq(Event)
    BY <1>16 DEF DigestSnapshot
  <2> QED
    BY <2>4, <2>5, <2>6
<1>17. CASE DigestSend
  <2>4. Jobs'
    BY <1>17 DEF DigestSend, Jobs
  <2>5. Rest'
    BY <1>17, InjectionAssumption DEF DigestSend, Rest, Fault
  <2>6. events' \in Seq(Event)
    BY <1>17 DEF DigestSend
  <2> QED
    BY <2>4, <2>5, <2>6
<1>18. ASSUME NEW w \in Worker, Lock(w) PROVE Rest' /\ Jobs' /\ events' \in Seq(Event)
  <2>1. w \in Worker /\ job[w] \in Work
    BY <1>18, JobTypes DEF Lock, Step, Worker
  <2>2. job[w].id \in Container
    BY <2>1 DEF Work
  <2>3. [job[w] EXCEPT !.step = "apply"] \in Work
    BY <2>1, <2>2, NewJob DEF Work, Steps, Rest
  <2>4. Jobs'
    BY <1>18, <2>1, <2>3, GoesType DEF Lock, Jobs
  <2>5. Rest'
    BY <1>18, <2>1, <2>2 DEF Lock, Rest
  <2>6. events' \in Seq(Event)
    BY <1>18 DEF Lock
  <2> QED
    BY <2>4, <2>5, <2>6
<1>19. ASSUME NEW w \in Worker, ApplyVolume(w) PROVE Rest' /\ Jobs' /\ events' \in Seq(Event)
  <2>1. w \in Worker /\ job[w] \in Work
    BY <1>19, JobTypes DEF ApplyVolume, Step, Worker
  <2>2. job[w].id \in Container
    BY <2>1 DEF Work
  <2>3. [job[w] EXCEPT !.step = "hash"] \in Work
    BY <2>1, <2>2, NewJob DEF Work, Steps, Rest
  <2>4. Jobs'
    BY <1>19, <2>1, <2>3, GoesType DEF ApplyVolume, Jobs
  <2>5. Rest'
    BY <1>19, <2>1, <2>2 DEF ApplyVolume, Rest
  <2>6. events' \in Seq(Event)
    BY <1>19 DEF ApplyVolume
  <2> QED
    BY <2>4, <2>5, <2>6
<1>20. ASSUME NEW w \in Worker, HashManifest(w) PROVE Rest' /\ Jobs' /\ events' \in Seq(Event)
  <2>1. w \in Worker /\ job[w] \in Work
    BY <1>20, JobTypes DEF HashManifest, Step, Worker
  <2>2. job[w].id \in Container
    BY <2>1 DEF Work
  <2>3. Job(job[w].id, "record", version) \in Work
    BY <2>1, <2>2, NewJob DEF Work, Steps, Rest
  <2>4. Jobs'
    BY <1>20, <2>1, <2>3, GoesType DEF HashManifest, Jobs
  <2>5. Rest'
    BY <1>20 DEF HashManifest, Rest
  <2>6. events' \in Seq(Event)
    BY <1>20 DEF HashManifest
  <2> QED
    BY <2>4, <2>5, <2>6
<1>21. ASSUME NEW w \in Worker, PushFails(w) PROVE Rest' /\ Jobs' /\ events' \in Seq(Event)
  <2>1. w \in Worker /\ job[w] \in Work
    BY <1>21, JobTypes DEF PushFails, Step, Worker
  <2>2. job[w].id \in Container
    BY <2>1 DEF Work
  <2>4. Jobs'
    BY <1>21, <2>1, GoesType DEF PushFails, Jobs
  <2>5. Rest'
    BY <1>21 DEF PushFails, Rest
  <2>6. events' \in Seq(Event)
    BY <1>21 DEF PushFails
  <2> QED
    BY <2>4, <2>5, <2>6
<1>22. ASSUME NEW w \in Worker, RecordManifest(w) PROVE Rest' /\ Jobs' /\ events' \in Seq(Event)
  <2>1. w \in Worker /\ job[w] \in Work
    BY <1>22, JobTypes DEF RecordManifest, Step, Worker
  <2>2. job[w].id \in Container
    BY <2>1 DEF Work
  <2>3. Begin(job[w].id, "clear") \in Work
    BY <2>1, <2>2, NewJob DEF Work, Steps, Rest
  <2>4. Jobs'
    BY <1>22, <2>1, <2>3, GoesType DEF RecordManifest, Jobs
  <2>5. Rest'
    <3>1. [records EXCEPT ![job[w].id] = job[w].hash] \in Snapshot
      BY <2>1, <2>2 DEF Rest, Snapshot, Work
    <3> QED
      BY <1>22, <3>1 DEF RecordManifest, Rest
  <2>6. events' \in Seq(Event)
    BY <1>22 DEF RecordManifest
  <2> QED
    BY <2>4, <2>5, <2>6
<1>23. ASSUME NEW w \in Worker, ClearSticky(w) PROVE Rest' /\ Jobs' /\ events' \in Seq(Event)
  <2>1. w \in Worker /\ job[w] \in Work
    BY <1>23, JobTypes DEF ClearSticky, Step, Worker
  <2>2. job[w].id \in Container
    BY <2>1 DEF Work
  <2>4. Jobs'
    BY <1>23, <2>1, GoesType DEF ClearSticky, Jobs
  <2>5. Rest'
    BY <1>23, <2>1, <2>2 DEF ClearSticky, Rest
  <2>6. events' \in Seq(Event)
    BY <1>23 DEF ClearSticky
  <2> QED
    BY <2>4, <2>5, <2>6
<1>24. ASSUME NEW w \in Worker, AddSticky(w) PROVE Rest' /\ Jobs' /\ events' \in Seq(Event)
  <2>1. w \in Worker /\ job[w] \in Work
    BY <1>24, JobTypes DEF AddSticky, Step, Worker
  <2>2. job[w].id \in Container
    BY <2>1 DEF Work
  <2>4. Jobs'
    BY <1>24, <2>1, GoesType DEF AddSticky, Jobs
  <2>5. Rest'
    BY <1>24, <2>1, <2>2 DEF AddSticky, Rest
  <2>6. events' \in Seq(Event)
    BY <1>24 DEF AddSticky
  <2> QED
    BY <2>4, <2>5, <2>6
<1>25. ASSUME NEW c \in Container, HookStep(c) PROVE Rest' /\ Jobs' /\ events' \in Seq(Event)
  <2>4. Jobs'
    BY <1>25 DEF HookStep, Jobs
  <2>5. Rest'
    BY <1>25 DEF HookStep, Rest
  <2>6. events' \in Seq(Event)
    BY <1>25 DEF HookStep
  <2> QED
    BY <2>4, <2>5, <2>6
<1>26. CASE UNCHANGED vars
  BY <1>26 DEF vars, Rest, Jobs
<1> QED
  BY <1>1, <1>2, <1>3, <1>4, <1>5, <1>6, <1>7, <1>8, <1>9, <1>10, <1>11, <1>12, <1>13,
     <1>14, <1>15, <1>16, <1>17, <1>18, <1>19, <1>20, <1>21, <1>22, <1>23, <1>24,
     <1>25, <1>26, NextCases

\* Every variable keeps its type: no goroutine is ever at a step that the code
\* does not have, and every recorded hash is a hash of the source.
THEOREM TypeCorrect == Spec => []TypeOK
<1>1. TypeInv => TypeOK
  BY DEF TypeInv
<1> QED
  BY <1>1, TypeInit, TypeStep, PTL DEF Spec

-----------------------------------------------------------------------------
(***************************************************************************)
(* That the daemon forgets a destroyed container is a fact about one step; *)
(* that nothing brings it back is one about every goroutine. Work for a    *)
(* container is only begun while it exists, except by the reconcile pass,  *)
(* which goes through a list made earlier, and by the request of a hook    *)
(* run earlier. So the invariant says that a destroy is announced and      *)
(* handled only for containers that are gone, and that no goroutine, no    *)
(* list and no hook has a settled container in hand.                       *)
(***************************************************************************)
Forgetting == {"forget", "unstick"}

AnnouncedIsGone ==
    \A i \in DOMAIN events : events[i].type = "destroy" => state[events[i].id] = "gone"

InHand ==
    job["loop"].step \in Forgetting =>
        /\ state[job["loop"].id] = "gone"
        /\ ~overlapped => Quiet(job["loop"].id)
        /\ ~overlapped /\ job["loop"].step = "unstick" => records[job["loop"].id] = NoRecord

SettledInv ==
    \A c \in settled :
        /\ state[c] = "gone" /\ Quiet(c)
        /\ records[c] = NoRecord /\ c \notin sticky
        /\ job["loop"] # Idle /\ job["loop"].id = c => job["loop"].step \in Forgetting

ForgottenInv ==
    \A c \in forgotten :
        /\ state[c] = "gone"
        /\ job["loop"] # Idle /\ job["loop"].id = c => job["loop"].step \in Forgetting

DownInv == ~up => settled = {} /\ forgotten = {} /\ job["loop"] = Idle

DestroyInv == AnnouncedIsGone /\ InHand /\ SettledInv /\ ForgottenInv /\ DownInv

\* A goroutine that goes on with its work, or ends it, takes up no other container.
LEMMA QuietStays ==
    ASSUME TypeOK, NEW w \in Worker, NEW j, Goes(w, j),
           j = Idle \/ (job[w] # Idle /\ j.id = job[w].id),
           listed' \subseteq listed, hooks' \subseteq hooks, NEW c, Quiet(c)
    PROVE  Quiet(c)'
BY DEF TypeOK, Goes, Quiet, Busy

\* Nor does one that does nothing.
LEMMA QuietKept ==
    ASSUME UNCHANGED job, listed' \subseteq listed, hooks' \subseteq hooks, NEW c, Quiet(c)
    PROVE  Quiet(c)'
BY DEF Quiet, Busy

\* At the start nothing is announced, in hand or settled.
LEMMA DestroyInit == Init => DestroyInv
<1> SUFFICES ASSUME Init PROVE DestroyInv
  OBVIOUS
<1>1. job["loop"] = Idle /\ job["loop"].step = "idle"
  BY DEF Init, Idle, Worker
<1> QED
  BY <1>1 DEF Init, DestroyInv, AnnouncedIsGone, InHand, SettledInv, ForgottenInv, DownInv, Forgetting

\* A step of a goroutine other than the loop, on work it has: the records and errors
\* it may change are those of its own container, which is not a quiet one.
LEMMA OtherStep ==
    ASSUME TypeOK, DestroyInv, NEW w \in Worker \ {"loop"}, NEW j, Goes(w, j),
           job[w] # Idle, j = Idle \/ j.id = job[w].id,
           up' = up, state' = state, events' = events, listed' = listed, hooks' = hooks,
           overlapped' = overlapped, settled' = settled, forgotten' = forgotten,
           \A c \in Container : c # job[w].id => records'[c] = records[c],
           \A c \in sticky' : c \in sticky \/ c = job[w].id
    PROVE  DestroyInv'
<1>1. job'["loop"] = job["loop"]
  BY DEF Goes, TypeOK
<1>2. \A c : Quiet(c) => Quiet(c)' /\ c # job[w].id
  BY QuietStays DEF Quiet, Busy
<1>3. AnnouncedIsGone' /\ DownInv'
  BY <1>1 DEF DestroyInv, AnnouncedIsGone, DownInv
<1>4. InHand'
  <2>1. job["loop"].step \in Forgetting => job["loop"].id \in Container
    BY JobTypes DEF Worker, Forgetting, Work
  <2> QED
    BY <1>1, <1>2, <2>1 DEF DestroyInv, InHand
<1>5. SettledInv' /\ ForgottenInv'
  BY <1>1, <1>2 DEF DestroyInv, SettledInv, ForgottenInv, TypeOK
<1> QED
  BY <1>3, <1>4, <1>5 DEF DestroyInv

\* A step of the loop in a push or in the alert of a start.
LEMMA LoopGoesOn ==
    ASSUME TypeOK, DestroyInv, NEW j, Goes("loop", j),
           job["loop"] # Idle, job["loop"].step \notin Forgetting,
           j = Idle \/ (j.id = job["loop"].id /\ j.step \notin Forgetting),
           up, up' = up, state' = state, events' = events, listed' = listed, hooks' = hooks,
           overlapped' = overlapped, settled' = settled, forgotten' = forgotten,
           \A c \in Container : c # job["loop"].id => records'[c] = records[c],
           \A c \in sticky' : c \in sticky \/ c = job["loop"].id
    PROVE  DestroyInv'
<1>0. "loop" \in Worker
  BY DEF Worker
<1>1. job'["loop"] = j
  BY <1>0 DEF Goes, TypeOK
<1>2. \A c : Quiet(c) => Quiet(c)'
  BY <1>0, QuietStays
<1>3. AnnouncedIsGone' /\ DownInv'
  BY DEF DestroyInv, AnnouncedIsGone, DownInv
<1>4. InHand'
  BY <1>1 DEF InHand, Forgetting, Idle
<1>5. SettledInv' /\ ForgottenInv'
  <2>1. \A c \in settled : c # job["loop"].id
    BY DEF DestroyInv, SettledInv
  <2> QED
    BY <1>1, <1>2, <2>1 DEF DestroyInv, SettledInv, ForgottenInv, TypeOK
<1> QED
  BY <1>3, <1>4, <1>5 DEF DestroyInv

\* Every step keeps the invariant.
LEMMA DestroyStep == TypeInv /\ DestroyInv /\ [Next]_vars => DestroyInv'
<1> SUFFICES ASSUME TypeInv, DestroyInv, [Next]_vars PROVE DestroyInv'
  OBVIOUS
<1>0. TypeOK /\ events \in Seq(Event)
  BY DEF TypeInv
<1> USE <1>0 DEF envVars, ledgerVars, digestVars, historyVars
<1>1. ASSUME NEW c \in Container, ContainerStep(c) PROVE DestroyInv'
  <2>1. \A d : Quiet(d) => Quiet(d)'
    BY <1>1, QuietKept DEF ContainerStep
  <2>2. \A d \in Container : state[d] = "gone" => state'[d] = "gone"
    BY <1>1 DEF ContainerStep, TypeOK
  <2>3. AnnouncedIsGone'
    <3>1. CASE events' = events
      <4>1. \A i \in DOMAIN events : events[i] \in Event
        BY ElementOfSeq, LenProperties
      <4>2. \A e \in Event : e.id \in Container
        BY DEF Event
      <4> QED
        BY <3>1, <4>1, <4>2, <2>2 DEF DestroyInv, AnnouncedIsGone
    <3>2. CASE \E type \in {"start", "end", "destroy"} :
                 /\ events' = Append(events, [type |-> type, id |-> c])
                 /\ type = "destroy" => state'[c] = "gone"
      <4> PICK type \in {"start", "end", "destroy"} :
                 /\ events' = Append(events, [type |-> type, id |-> c])
                 /\ type = "destroy" => state'[c] = "gone"
        BY <3>2
      <4> DEFINE e == [type |-> type, id |-> c]
      <4>1. e \in Event /\ e.type = type /\ e.id = c
        BY DEF Event
      <4>2. /\ Len(events) \in Nat /\ DOMAIN events = 1..Len(events)
            /\ \A i \in 1..Len(events) : events[i] \in Event
        BY LenProperties, ElementOfSeq
      <4>3. /\ DOMAIN events' = 1..(Len(events) + 1)
            /\ \A i \in 1..Len(events) : events'[i] = events[i]
            /\ events'[Len(events) + 1] = e
        BY <4>1, AppendProperties, LenProperties
      <4> HIDE DEF e
      <4>4. \A i \in 1..Len(events) : events[i].id \in Container
        BY <4>2 DEF Event
      <4>5. SUFFICES ASSUME NEW i \in DOMAIN events', events'[i].type = "destroy"
                     PROVE  state'[events'[i].id] = "gone"
        BY DEF AnnouncedIsGone
      <4>6. CASE i \in 1..Len(events)
        BY <4>2, <4>3, <4>4, <4>5, <4>6, <2>2 DEF DestroyInv, AnnouncedIsGone
      <4>7. CASE i = Len(events) + 1
        BY <4>1, <4>3, <4>5, <4>7
      <4> QED
        BY <4>2, <4>3, <4>6, <4>7
    <3> QED
      BY <1>1, <3>1, <3>2 DEF ContainerStep, Emit, TypeOK
  <2>4. InHand'
    <3>1. job["loop"].step \in Forgetting => job["loop"].id \in Container
      BY JobTypes DEF Worker, Forgetting, Work
    <3> QED
      BY <1>1, <2>1, <2>2, <3>1 DEF ContainerStep, DestroyInv, InHand
  <2>5. SettledInv' /\ ForgottenInv' /\ DownInv'
    BY <1>1, <2>1, <2>2 DEF ContainerStep, DestroyInv, SettledInv, ForgottenInv, DownInv, TypeOK
  <2> QED
    BY <2>3, <2>4, <2>5 DEF DestroyInv
<1>2. ASSUME NEW c \in Container, HandleRequest(c) PROVE DestroyInv'
  <2>1. \A d \in Container : state[d] = "gone" /\ Quiet(d) => Quiet(d)'
    BY <1>2
       DEF HandleRequest, HandleFetch, HandleHook, Resolved, Exists, Goes, Begin, Job, TypeOK,
           Worker, Quiet, Busy
  <2>2. job'["loop"] = job["loop"]
    BY <1>2 DEF HandleRequest, HandleFetch, HandleHook, Resolved, Goes, TypeOK, Worker
  <2>3. AnnouncedIsGone' /\ DownInv'
    BY <1>2, <2>2 DEF HandleRequest, DestroyInv, AnnouncedIsGone, DownInv
  <2>4. InHand'
    <3>1. job["loop"].step \in Forgetting => job["loop"].id \in Container
      BY JobTypes DEF Worker, Forgetting, Work
    <3> QED
      BY <1>2, <2>1, <2>2, <3>1 DEF HandleRequest, DestroyInv, InHand
  <2>5. SettledInv' /\ ForgottenInv'
    BY <1>2, <2>1, <2>2 DEF HandleRequest, DestroyInv, SettledInv, ForgottenInv, TypeOK
  <2> QED
    BY <2>3, <2>4, <2>5 DEF DestroyInv
<1>3. ASSUME NEW c \in Container, ReconcileVisits(c) PROVE DestroyInv'
  <2>1. \A d \in Container : state[d] = "gone" /\ Quiet(d) => Quiet(d)'
    BY <1>3 DEF ReconcileVisits, Goes, Begin, Job, TypeOK, Worker, Quiet, Busy
  <2>2. job'["loop"] = job["loop"]
    BY <1>3 DEF ReconcileVisits, Goes, Begin, Job, TypeOK, Worker
  <2>3. AnnouncedIsGone' /\ DownInv'
    BY <1>3, <2>2 DEF ReconcileVisits, DestroyInv, AnnouncedIsGone, DownInv
  <2>4. InHand'
    <3>1. job["loop"].step \in Forgetting => job["loop"].id \in Container
      BY JobTypes DEF Worker, Forgetting, Work
    <3> QED
      BY <1>3, <2>1, <2>2, <3>1 DEF ReconcileVisits, DestroyInv, InHand
  <2>5. SettledInv' /\ ForgottenInv'
    BY <1>3, <2>1, <2>2 DEF ReconcileVisits, DestroyInv, SettledInv, ForgottenInv, TypeOK
  <2> QED
    BY <2>3, <2>4, <2>5 DEF DestroyInv
<1>4. CASE ReconcileLists
  <2>1. \A d \in Container : state[d] = "gone" /\ Quiet(d) => Quiet(d)'
    BY <1>4 DEF ReconcileLists, Exists, TypeOK, Worker, Quiet, Busy
  <2>2. job'["loop"] = job["loop"]
    BY <1>4 DEF ReconcileLists
  <2>3. AnnouncedIsGone' /\ DownInv'
    BY <1>4, <2>2 DEF ReconcileLists, DestroyInv, AnnouncedIsGone, DownInv
  <2>4. InHand'
    <3>1. job["loop"].step \in Forgetting => job["loop"].id \in Container
      BY JobTypes DEF Worker, Forgetting, Work
    <3> QED
      BY <1>4, <2>1, <2>2, <3>1 DEF ReconcileLists, DestroyInv, InHand
  <2>5. SettledInv' /\ ForgottenInv'
    BY <1>4, <2>1, <2>2 DEF ReconcileLists, DestroyInv, SettledInv, ForgottenInv, TypeOK
  <2> QED
    BY <2>3, <2>4, <2>5 DEF DestroyInv
<1>5. CASE Rotate
  <2>1. \A d : Quiet(d) => Quiet(d)'
    BY <1>5, QuietKept DEF Rotate
  <2> QED
    BY <1>5, <2>1 DEF Rotate, DestroyInv, AnnouncedIsGone, InHand, SettledInv, ForgottenInv, DownInv
<1>6. CASE Rewatch
  <2>1. \A d : Quiet(d) => Quiet(d)'
    BY <1>6, QuietKept DEF Rewatch
  <2> QED
    BY <1>6, <2>1 DEF Rewatch, DestroyInv, AnnouncedIsGone, InHand, SettledInv, ForgottenInv, DownInv
<1>7. CASE DigestSnapshot
  <2>1. \A d : Quiet(d) => Quiet(d)'
    BY <1>7, QuietKept DEF DigestSnapshot
  <2> QED
    BY <1>7, <2>1 DEF DigestSnapshot, DestroyInv, AnnouncedIsGone, InHand, SettledInv, ForgottenInv, DownInv
<1>8. CASE DigestSend
  <2>1. \A d : Quiet(d) => Quiet(d)'
    BY <1>8, QuietKept DEF DigestSend
  <2> QED
    BY <1>8, <2>1 DEF DigestSend, DestroyInv, AnnouncedIsGone, InHand, SettledInv, ForgottenInv, DownInv
<1>9. CASE WatchEnds
  <2>1. \A d : Quiet(d) => Quiet(d)'
    BY <1>9, QuietKept DEF WatchEnds
  <2> QED
    BY <1>9, <2>1 DEF WatchEnds, DestroyInv, AnnouncedIsGone, InHand, SettledInv, ForgottenInv, DownInv
<1>10. CASE Crash
  <2>1. job'["loop"] = Idle /\ job'["loop"].step = "idle"
    BY <1>10 DEF Crash, Worker, Idle
  <2> QED
    BY <1>10, <2>1 DEF Crash, Forgetting, DestroyInv, AnnouncedIsGone, InHand, SettledInv, ForgottenInv, DownInv
<1>11. CASE Boot
  <2>1. job["loop"] = Idle /\ job["loop"].step = "idle" /\ settled = {}
    BY <1>11 DEF Boot, DestroyInv, DownInv, Idle
  <2> QED
    BY <1>11, <2>1 DEF Boot, Forgetting, DestroyInv, AnnouncedIsGone, InHand, SettledInv, ForgottenInv, DownInv
<1>12. CASE handleEvent
  <2> DEFINE ev == Head(events)
  <2>1. /\ ev \in Event /\ ev.id \in Container /\ ev = events[1] /\ 1 \in DOMAIN events
        /\ ev.type \in {"start", "end", "destroy"}
    BY <1>12, EventHead DEF handleEvent, Event
  <2>2. "loop" \in Worker /\ job["loop"] = Idle /\ job["loop"].step = "idle"
    BY <1>12 DEF handleEvent, Worker, Idle
  <2>3. AnnouncedIsGone' /\ DownInv'
    BY <1>12, EventHead DEF handleEvent, DestroyInv, AnnouncedIsGone, DownInv
  <2>4. ev.type = "destroy" => state[ev.id] = "gone"
    BY <2>1 DEF DestroyInv, AnnouncedIsGone
  <2>5. \/ UNCHANGED job /\ UNCHANGED sticky
        \/ /\ state[ev.id] # "gone" /\ UNCHANGED sticky
           /\ \E s \in {"lock", "alert"} : Goes("loop", Begin(ev.id, s))
        \/ /\ state[ev.id] = "gone" /\ UNCHANGED sticky
           /\ Goes("loop", Begin(ev.id, "forget"))
           /\ overlapped' = ~Quiet(ev.id)
    BY <1>12, <2>1, <2>4 DEF handleEvent, HandleStart, HandleEnd, HandleDestroy
  <2> HIDE DEF ev
  <2>6. /\ listed' = listed /\ hooks' = hooks /\ state' = state /\ records' = records
        /\ settled' = settled /\ forgotten' = forgotten
    BY <1>12 DEF handleEvent
  <2>7. \A w \in Worker \ {"loop"} : job'[w] = job[w]
    BY <2>5, <2>2 DEF Goes, TypeOK
  <2>8. \A c : Quiet(c)' <=> Quiet(c)
    BY <2>6, <2>7 DEF Quiet, Busy
  <2>9. InHand' /\ SettledInv' /\ ForgottenInv'
    <3>1. CASE UNCHANGED job /\ UNCHANGED sticky
      BY <3>1, <2>2, <2>6, <2>8 DEF DestroyInv, InHand, SettledInv, ForgottenInv, Forgetting
    <3>2. ASSUME NEW s \in {"lock", "alert"}, state[ev.id] # "gone", UNCHANGED sticky,
                 Goes("loop", Begin(ev.id, s))
          PROVE  InHand' /\ SettledInv' /\ ForgottenInv'
      <4>1. job'["loop"].step = s /\ job'["loop"].id = ev.id
        BY <3>2, <2>2 DEF Goes, Begin, Job, TypeOK
      <4>2. InHand'
        BY <4>1, <3>2 DEF InHand, Forgetting
      <4>3. SettledInv' /\ ForgottenInv'
        BY <4>1, <3>2, <2>6, <2>8 DEF DestroyInv, SettledInv, ForgottenInv
      <4> QED
        BY <4>2, <4>3
    <3>3. ASSUME state[ev.id] = "gone", UNCHANGED sticky, Goes("loop", Begin(ev.id, "forget")),
                 overlapped' = ~Quiet(ev.id)
          PROVE  InHand' /\ SettledInv' /\ ForgottenInv'
      <4>1. job'["loop"].step = "forget" /\ job'["loop"].id = ev.id
        BY <3>3, <2>2 DEF Goes, Begin, Job, TypeOK
      <4>2. ~overlapped' => Quiet(ev.id)
        BY <3>3 DEF Quiet, Busy
      <4>3. InHand'
        BY <4>1, <4>2, <3>3, <2>6, <2>8 DEF InHand
      <4>4. SettledInv' /\ ForgottenInv'
        BY <4>1, <3>3, <2>6, <2>8 DEF DestroyInv, SettledInv, ForgottenInv, Forgetting
      <4> QED
        BY <4>3, <4>4
    <3> QED
      BY <2>5, <3>1, <3>2, <3>3
  <2> QED
    BY <2>3, <2>9 DEF DestroyInv
<1>13. CASE Forget
  <2>1. "loop" \in Worker /\ job["loop"] \in Work /\ job["loop"] # Idle
    BY <1>13, JobTypes DEF Forget, Step, Worker
  <2>2. job["loop"].id \in Container
    BY <2>1 DEF Work
  <2>3. job'["loop"].step = "unstick" /\ job'["loop"].id = job["loop"].id
    BY <1>13, <2>1 DEF Forget, Goes, Begin, Job, TypeOK
  <2>4. \A c : Quiet(c) => Quiet(c)'
    <3>1. Begin(job["loop"].id, "unstick").id = job["loop"].id
      BY DEF Begin, Job
    <3> QED
      BY <1>13, <2>1, <3>1, QuietStays DEF Forget
  <2>5. records' = [records EXCEPT ![job["loop"].id] = NoRecord] /\ records \in Snapshot
    BY <1>13 DEF Forget, TypeOK
  <2>6. InHand'
    BY <1>13, <2>2, <2>3, <2>4, <2>5
       DEF Forget, Step, DestroyInv, InHand, Forgetting, Snapshot
  <2>7. SettledInv' /\ ForgottenInv'
    BY <1>13, <2>2, <2>3, <2>4, <2>5
       DEF Forget, DestroyInv, SettledInv, ForgottenInv, Forgetting, Snapshot, TypeOK
  <2>8. AnnouncedIsGone' /\ DownInv'
    BY <1>13 DEF Forget, DestroyInv, AnnouncedIsGone, DownInv
  <2> QED
    BY <2>6, <2>7, <2>8 DEF DestroyInv
<1>14. CASE Unstick
  <2>1. "loop" \in Worker /\ job["loop"] \in Work /\ job["loop"] # Idle
    BY <1>14, JobTypes DEF Unstick, Step, Worker
  <2>2. job["loop"].id \in Container
    BY <2>1 DEF Work
  <2>3. job'["loop"] = Idle /\ job'["loop"].step = "idle"
    BY <1>14, <2>1 DEF Unstick, Goes, TypeOK, Idle
  <2>4. \A c : Quiet(c) => Quiet(c)'
    BY <1>14, <2>1, QuietStays DEF Unstick
  <2>5. InHand'
    BY <2>3 DEF InHand, Forgetting
  <2>6. SettledInv' /\ ForgottenInv'
    BY <1>14, <2>3, <2>4 DEF Unstick, Step, DestroyInv, InHand, SettledInv, ForgottenInv, Forgetting
  <2>7. AnnouncedIsGone' /\ DownInv'
    BY <1>14 DEF Unstick, DestroyInv, AnnouncedIsGone, DownInv
  <2> QED
    BY <2>5, <2>6, <2>7 DEF DestroyInv
<1>15. CASE BuildBundle
  <2>1. "handler" \in Worker \ {"loop"} /\ job["handler"] \in Work /\ job["handler"] # Idle
    BY <1>15, JobTypes DEF BuildBundle, Step, Worker
  <2>2. (Job(job["handler"].id, "encode", version)).id = job["handler"].id
    BY <2>1 DEF Job, Work
  <2> QED
    BY <1>15, <2>1, <2>2, OtherStep DEF BuildBundle
<1>16. CASE EncodeBundle
  <2>1. "handler" \in Worker \ {"loop"} /\ job["handler"] \in Work /\ job["handler"] # Idle
    BY <1>16, JobTypes DEF EncodeBundle, Step, Worker
  <2>2. ([job["handler"] EXCEPT !.step = "record"]).id = job["handler"].id
    BY <2>1 DEF Job, Work
  <2> QED
    BY <1>16, <2>1, <2>2, OtherStep DEF EncodeBundle
<1>17. CASE HandlerFails
  <2>1. "handler" \in Worker \ {"loop"} /\ job["handler"] \in Work /\ job["handler"] # Idle
    BY <1>17, JobTypes DEF HandlerFails, Step, Worker
  <2> QED
    BY <1>17, <2>1, OtherStep DEF HandlerFails
<1>18. ASSUME NEW w \in Worker, Lock(w) PROVE DestroyInv'
  <2>1. job[w] \in Work /\ job[w] # Idle /\ job[w].step \notin Forgetting
    BY <1>18, JobTypes DEF Lock, Step, Forgetting
  <2>2. ([job[w] EXCEPT !.step = "apply"]).id = job[w].id /\ ([job[w] EXCEPT !.step = "apply"]).step = "apply"
    BY <2>1 DEF Job, Begin, Work
  <2>3. CASE w # "loop"
    BY <1>18, <2>1, <2>2, <2>3, OtherStep DEF Lock
  <2>4. CASE w = "loop"
    BY <1>18, <2>1, <2>2, <2>4, LoopGoesOn DEF Lock, Forgetting
  <2> QED
    BY <2>3, <2>4
<1>19. ASSUME NEW w \in Worker, ApplyVolume(w) PROVE DestroyInv'
  <2>1. job[w] \in Work /\ job[w] # Idle /\ job[w].step \notin Forgetting
    BY <1>19, JobTypes DEF ApplyVolume, Step, Forgetting
  <2>2. ([job[w] EXCEPT !.step = "hash"]).id = job[w].id /\ ([job[w] EXCEPT !.step = "hash"]).step = "hash"
    BY <2>1 DEF Job, Begin, Work
  <2>3. CASE w # "loop"
    BY <1>19, <2>1, <2>2, <2>3, OtherStep DEF ApplyVolume
  <2>4. CASE w = "loop"
    BY <1>19, <2>1, <2>2, <2>4, LoopGoesOn DEF ApplyVolume, Forgetting
  <2> QED
    BY <2>3, <2>4
<1>20. ASSUME NEW w \in Worker, HashManifest(w) PROVE DestroyInv'
  <2>1. job[w] \in Work /\ job[w] # Idle /\ job[w].step \notin Forgetting
    BY <1>20, JobTypes DEF HashManifest, Step, Forgetting
  <2>2. (Job(job[w].id, "record", version)).id = job[w].id /\ (Job(job[w].id, "record", version)).step = "record"
    BY <2>1 DEF Job, Begin, Work
  <2>3. CASE w # "loop"
    BY <1>20, <2>1, <2>2, <2>3, OtherStep DEF HashManifest
  <2>4. CASE w = "loop"
    BY <1>20, <2>1, <2>2, <2>4, LoopGoesOn DEF HashManifest, Forgetting
  <2> QED
    BY <2>3, <2>4
<1>21. ASSUME NEW w \in Worker, PushFails(w) PROVE DestroyInv'
  <2>1. job[w] \in Work /\ job[w] # Idle /\ job[w].step \notin Forgetting
    BY <1>21, JobTypes DEF PushFails, Step, Forgetting
  <2>3. CASE w # "loop"
    BY <1>21, <2>1, <2>3, OtherStep DEF PushFails
  <2>4. CASE w = "loop"
    BY <1>21, <2>1, <2>4, LoopGoesOn DEF PushFails, Forgetting
  <2> QED
    BY <2>3, <2>4
<1>22. ASSUME NEW w \in Worker, RecordManifest(w) PROVE DestroyInv'
  <2>1. job[w] \in Work /\ job[w] # Idle /\ job[w].step \notin Forgetting
    BY <1>22, JobTypes DEF RecordManifest, Step, Forgetting
  <2>2. (Begin(job[w].id, "clear")).id = job[w].id /\ (Begin(job[w].id, "clear")).step = "clear"
    BY <2>1 DEF Job, Begin, Work
  <2>3. CASE w # "loop"
    BY <1>22, <2>1, <2>2, <2>3, OtherStep DEF RecordManifest, TypeOK, Snapshot
  <2>4. CASE w = "loop"
    BY <1>22, <2>1, <2>2, <2>4, LoopGoesOn DEF RecordManifest, Forgetting, TypeOK, Snapshot
  <2> QED
    BY <2>3, <2>4
<1>23. ASSUME NEW w \in Worker, ClearSticky(w) PROVE DestroyInv'
  <2>1. job[w] \in Work /\ job[w] # Idle /\ job[w].step \notin Forgetting
    BY <1>23, JobTypes DEF ClearSticky, Step, Forgetting
  <2>3. CASE w # "loop"
    BY <1>23, <2>1, <2>3, OtherStep DEF ClearSticky
  <2>4. CASE w = "loop"
    BY <1>23, <2>1, <2>4, LoopGoesOn DEF ClearSticky, Forgetting
  <2> QED
    BY <2>3, <2>4
<1>24. ASSUME NEW w \in Worker, AddSticky(w) PROVE DestroyInv'
  <2>1. job[w] \in Work /\ job[w] # Idle /\ job[w].step \notin Forgetting
    BY <1>24, JobTypes DEF AddSticky, Step, Forgetting
  <2>3. CASE w # "loop"
    BY <1>24, <2>1, <2>3, OtherStep DEF AddSticky
  <2>4. CASE w = "loop"
    BY <1>24, <2>1, <2>4, LoopGoesOn DEF AddSticky, Forgetting
  <2> QED
    BY <2>3, <2>4
<1>25. ASSUME NEW c \in Container, HookStep(c) PROVE DestroyInv'
  <2>1. \A d \in Container : state[d] = "gone" /\ Quiet(d) => Quiet(d)'
    BY <1>25 DEF HookStep, Quiet, Busy
  <2>2. AnnouncedIsGone' /\ DownInv'
    BY <1>25 DEF HookStep, DestroyInv, AnnouncedIsGone, DownInv
  <2>3. InHand'
    <3>1. job["loop"].step \in Forgetting => job["loop"].id \in Container
      BY JobTypes DEF Worker, Forgetting, Work
    <3> QED
      BY <1>25, <2>1, <3>1 DEF HookStep, DestroyInv, InHand
  <2>4. SettledInv' /\ ForgottenInv'
    BY <1>25, <2>1 DEF HookStep, DestroyInv, SettledInv, ForgottenInv, TypeOK
  <2> QED
    BY <2>2, <2>3, <2>4 DEF DestroyInv
<1>26. CASE UNCHANGED vars
  <2>1. \A d : Quiet(d) => Quiet(d)'
    BY <1>26, QuietKept DEF vars
  <2> QED
    BY <1>26, <2>1 DEF vars, DestroyInv, AnnouncedIsGone, InHand, SettledInv, ForgottenInv, DownInv
<1> QED
  BY <1>1, <1>2, <1>3, <1>4, <1>5, <1>6, <1>7, <1>8, <1>9, <1>10, <1>11, <1>12, <1>13,
     <1>14, <1>15, <1>16, <1>17, <1>18, <1>19, <1>20, <1>21, <1>22, <1>23, <1>24,
     <1>25, <1>26, NextCases

\* A container whose destroy event was handled while nothing else had it in hand and
\* no request of its hook was under way leaves neither a record nor a standing error, for any number of containers and
\* any interleaving of the event loop, the reconcile pass, a handler and the digest.
THEOREM DestroyIsFinal == Spec => []NothingOfTheDestroyed
<1>1. DestroyInv => NothingOfTheDestroyed
  BY DEF DestroyInv, SettledInv, ForgottenInv, NothingOfTheDestroyed
<1> QED
  BY <1>1, TypeInit, TypeStep, DestroyInit, DestroyStep, PTL DEF Spec

-----------------------------------------------------------------------------
\* A step on work that somebody has touches no quiet container whose destroy was
\* handled: not the loop's, since it has none of that container but the destroy.
LEMMA WorkIsElsewhere ==
    ASSUME TypeOK, DestroyInv, NEW w \in Worker, NEW j, Goes(w, j), job[w] # Idle,
           w = "loop" => job[w].step \notin Forgetting,
           j = Idle \/ j.id = job[w].id, listed' = listed, hooks' = hooks,
           \A d \in Container : d # job[w].id => records'[d] = records[d],
           \A d \in sticky' : d \in sticky \/ d = job[w].id,
           NEW c \in Container, c \in forgotten, Quiet(c)
    PROVE  NoMore(c)
<1>1. c # job[w].id
  BY DEF DestroyInv, ForgottenInv, Quiet, Busy
<1>2. Quiet(c)'
  BY QuietStays
<1> QED
  BY <1>1, <1>2 DEF NoMore

\* So does a step that is on nobody's work and begins none.
LEMMA NoWorkBegun ==
    ASSUME UNCHANGED <<job, records, sticky>>, listed' \subseteq listed,
           hooks' \subseteq hooks, NEW c, Quiet(c)
    PROVE  NoMore(c)
BY QuietKept DEF NoMore

\* No step begins anything for a quiet container whose destroy was handled.
LEMMA QuietStep ==
    ASSUME TypeInv, DestroyInv, [Next]_vars, NEW c \in forgotten, c \in forgotten', Quiet(c)
    PROVE  NoMore(c)
<1>0. TypeOK /\ events \in Seq(Event) /\ c \in Container /\ state[c] = "gone"
  BY DEF TypeInv, TypeOK, DestroyInv, ForgottenInv
<1> USE <1>0 DEF envVars, ledgerVars, digestVars, historyVars
<1>1. ASSUME NEW d \in Container, ContainerStep(d) PROVE NoMore(c)
  BY <1>1, NoWorkBegun DEF ContainerStep
<1>2. ASSUME NEW d \in Container, HookStep(d) PROVE NoMore(c)
  BY <1>2 DEF HookStep, NoMore, Quiet, Busy
<1>3. ASSUME NEW d \in Container, HandleRequest(d) PROVE NoMore(c)
  <2>1. d # c
    BY <1>3 DEF HandleRequest, HandleFetch, HandleHook, Exists, Quiet
  <2>2. Quiet(c)'
    BY <1>3, <2>1
       DEF HandleRequest, HandleFetch, HandleHook, Resolved, Goes, Begin, Job, TypeOK, Worker,
           Quiet, Busy
  <2> QED
    BY <1>3, <2>2 DEF HandleRequest, NoMore
<1>4. ASSUME NEW d \in Container, ReconcileVisits(d) PROVE NoMore(c)
  <2>1. d # c
    BY <1>4 DEF ReconcileVisits, Quiet
  <2>2. Quiet(c)'
    BY <1>4, <2>1 DEF ReconcileVisits, Goes, Begin, Job, TypeOK, Worker, Quiet, Busy
  <2> QED
    BY <1>4, <2>2 DEF ReconcileVisits, NoMore
<1>5. CASE ReconcileLists
  BY <1>5 DEF ReconcileLists, Exists, NoMore, Quiet, Busy
<1>6. CASE Rotate \/ WatchEnds \/ Rewatch \/ DigestSnapshot \/ DigestSend
  BY <1>6, NoWorkBegun DEF Rotate, WatchEnds, Rewatch, DigestSnapshot, DigestSend
<1>7. CASE Crash
  BY <1>7 DEF Crash
<1>8. CASE Boot
  BY <1>8 DEF Boot, DestroyInv, DownInv
<1>9. CASE handleEvent
  <2>1. Head(events) \in Event
    BY <1>9, EventHead DEF handleEvent
  <2>2. UNCHANGED sticky
    BY <1>9, <2>1 DEF handleEvent, HandleStart, HandleEnd, HandleDestroy, Event
  <2>3. \A w \in Worker \ {"loop"} : job'[w] = job[w]
    BY <1>9, <2>1 DEF handleEvent, HandleStart, HandleEnd, HandleDestroy, Event, Goes, TypeOK
  <2> QED
    BY <1>9, <2>2, <2>3 DEF handleEvent, NoMore, Quiet, Busy
<1>10. CASE Forget \/ Unstick
  <2>1. \A w \in Worker \ {"loop"} : job'[w] = job[w]
    BY <1>10 DEF Forget, Unstick, Goes, TypeOK
  <2>2. Quiet(c)'
    BY <1>10, <2>1 DEF Forget, Unstick, Quiet, Busy
  <2>3. records'[c] \in {records[c], NoRecord}
    BY <1>10 DEF Forget, Unstick, TypeOK, Snapshot
  <2>4. c \in sticky' => c \in sticky
    BY <1>10 DEF Forget, Unstick
  <2> QED
    BY <2>2, <2>3, <2>4 DEF NoMore
<1>11. CASE BuildBundle \/ EncodeBundle \/ HandlerFails
  <2>1. "handler" \in Worker /\ job["handler"] \in Work /\ job["handler"] # Idle
    BY <1>11, JobTypes DEF BuildBundle, EncodeBundle, HandlerFails, Step, Worker
  <2>2. (Job(job["handler"].id, "encode", version)).id = job["handler"].id
    BY DEF Job
  <2>3. ([job["handler"] EXCEPT !.step = "record"]).id = job["handler"].id
    BY <2>1 DEF Work
  <2>4. \E j : Goes("handler", j) /\ (j = Idle \/ j.id = job["handler"].id)
    BY <1>11, <2>2, <2>3 DEF BuildBundle, EncodeBundle, HandlerFails
  <2>5. UNCHANGED <<listed, hooks, records, sticky>>
    BY <1>11 DEF BuildBundle, EncodeBundle, HandlerFails
  <2> QED
    BY <2>1, <2>4, <2>5, WorkIsElsewhere
<1>12. ASSUME NEW w \in Worker,
              \/ Lock(w) \/ ApplyVolume(w) \/ HashManifest(w) \/ PushFails(w)
              \/ RecordManifest(w) \/ ClearSticky(w) \/ AddSticky(w)
       PROVE  NoMore(c)
  <2> USE DEF Lock, ApplyVolume, HashManifest, PushFails, RecordManifest, ClearSticky, AddSticky
  <2>1. job[w] \in Work /\ job[w] # Idle /\ job[w].step \notin Forgetting
    BY <1>12, JobTypes DEF Step, Forgetting
  <2>2. /\ ([job[w] EXCEPT !.step = "apply"]).id = job[w].id
        /\ ([job[w] EXCEPT !.step = "hash"]).id = job[w].id
    BY <2>1 DEF Work
  <2>3. /\ (Job(job[w].id, "record", version)).id = job[w].id
        /\ (Begin(job[w].id, "clear")).id = job[w].id
    BY DEF Job, Begin
  <2>4. \E j : Goes(w, j) /\ (j = Idle \/ j.id = job[w].id)
    BY <1>12, <2>2, <2>3
  <2>5. \A d \in Container : d # job[w].id => records'[d] = records[d]
    BY <1>12 DEF TypeOK, Snapshot
  <2>6. \A d \in sticky' : d \in sticky \/ d = job[w].id
    BY <1>12
  <2>7. UNCHANGED <<listed, hooks>>
    BY <1>12
  <2> HIDE DEF Lock, ApplyVolume, HashManifest, PushFails, RecordManifest, ClearSticky, AddSticky
  <2> QED
    BY <2>1, <2>4, <2>5, <2>6, <2>7, WorkIsElsewhere
<1>13. CASE UNCHANGED vars
  BY <1>13, NoWorkBegun DEF vars
<1> QED
  BY <1>1, <1>2, <1>3, <1>4, <1>5, <1>6, <1>7, <1>8, <1>9, <1>10, <1>11, <1>12, <1>13,
     NextCases

\* After any handled destroy, also one that met work under way, that work is the last:
\* once it has ended nothing is begun for the container, and no record and no standing
\* error of it appears, for any number of containers.
THEOREM NothingFollowsADestroy == Spec => DestroyedStaysQuiet
<1>1. TypeInv /\ DestroyInv /\ [Next]_vars
         => [\A c \in forgotten \cap forgotten' : Quiet(c) => NoMore(c)]_vars
  BY QuietStep
<1> QED
  BY <1>1, TypeInit, TypeStep, DestroyInit, DestroyStep, PTL DEF Spec, DestroyedStaysQuiet

==============================================================================
