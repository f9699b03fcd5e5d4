------------------------- MODULE ClientTrackerProofs -------------------------
(***************************************************************************)
(* Proofs about ClientTracker, for any number of containers, restarts and  *)
(* lost event streams.                                                     *)
(***************************************************************************)
EXTENDS ClientTracker, SequenceTheorems, TLAPS

\* Expectation numbers only grow: what is pending or alerted has been made.
NumberingInv ==
    /\ \A c \in Container : pending[c] <= expects[c]
    /\ \A a \in alertLog \cup alerting : 1 <= a.expectation /\ a.expectation <= expects[a.id]

\* A stopped tracker has nothing pending.
StoppedInv == stopped => \A c \in Container : pending[c] = 0

IInv ==
    /\ TypeOK
    /\ NumberingInv
    /\ StoppedInv
    /\ PendingHasTimer
    /\ OneAlertPerExpectation

\* The conjuncts that only read the tracker's own state.
TrackerInv ==
    NumberingInv /\ StoppedInv /\ PendingHasTimer /\ OneAlertPerExpectation

\* The event stream stays a sequence of events under what the steps do to it.
LEMMA StreamTypes ==
    ASSUME events \in Seq(Event)
    PROVE  /\ \A e \in Event : Append(events, e) \in Seq(Event)
           /\ <<>> \in Seq(Event)
           /\ events # <<>> => /\ Head(events) \in Event
                              /\ Head(events).id \in Container
                              /\ Head(events).run \in Nat
                              /\ Tail(events) \in Seq(Event)
<1>1. \A e \in Event : Append(events, e) \in Seq(Event)
  BY AppendProperties
<1>2. <<>> \in Seq(Event)
  BY EmptySeq
<1>3. events # <<>> => Head(events) \in Event /\ Tail(events) \in Seq(Event)
  BY HeadTailProperties
<1>4. \A e \in Event : e.id \in Container /\ e.run \in Nat
  BY DEF Event
<1>5. QED
  BY <1>1, <1>2, <1>3, <1>4

\* What Emit adds to the stream and to the missed starts has their types.
LEMMA EmitTypes ==
    ASSUME TypeOK, NEW type \in {"start", "end"}, NEW c \in Container, NEW r \in Nat,
           Emit(type, c, r)
    PROVE  (events \in Seq(Event))' /\ (missed \in [Container -> Nat])'
<1>1. [type |-> type, id |-> c, run |-> r] \in Event
  BY DEF Event
<1>2. events' = events \/ events' = Append(events, [type |-> type, id |-> c, run |-> r])
  BY DEF Emit
<1>3. missed' = missed \/ missed' = [missed EXCEPT ![c] = r]
  BY DEF Emit
<1>4. QED
  BY <1>1, <1>2, <1>3, StreamTypes DEF TypeOK

\* A step that leaves the tracker alone keeps the tracker's invariants.
LEMMA TrackerUnchanged ==
    ASSUME TrackerInv, UNCHANGED trackerVars
    PROVE  TrackerInv'
BY DEF TrackerInv, trackerVars, NumberingInv, StoppedInv, PendingHasTimer,
       OneAlertPerExpectation

\* expect keeps the tracker's invariants.
LEMMA ExpectInv ==
    ASSUME TypeOK, TrackerInv, NEW c \in Container, expect(c),
           UNCHANGED <<firing, alerting, stopped, alertLog>>
    PROVE  TrackerInv' /\ (expects \in [Container -> Nat])'
                       /\ (pending \in [Container -> Nat])' /\ (armed \subseteq Timer)'
<1> USE DEF TypeOK, expect, TrackerInv
<1>1. CASE Timeout > 0 /\ ~stopped /\ pending[c] = 0
  <2> DEFINE k == expects[c] + 1
  <2>1. /\ k \in Nat /\ k # 0 /\ <<c, k>> \in Timer
        /\ expects' = [expects EXCEPT ![c] = k]
        /\ pending' = [pending EXCEPT ![c] = k]
        /\ armed' = armed \cup {<<c, k>>}
    BY <1>1 DEF Timer
  <2> HIDE DEF k
  <2>2. (expects \in [Container -> Nat])' /\ (pending \in [Container -> Nat])'
        /\ (armed \subseteq Timer)'
    BY <2>1
  <2>3. NumberingInv'
    BY <1>1, <2>1 DEF NumberingInv, Alert, k
  <2>4. StoppedInv'
    BY <1>1 DEF StoppedInv
  <2>5. PendingHasTimer'
    BY <2>1 DEF PendingHasTimer
  <2>6. OneAlertPerExpectation'
    <3>1. \A a \in alertLog \cup alerting : a.id = c => a.expectation # k
      BY DEF NumberingInv, Alert, k
    <3>2. QED
      BY <2>1, <3>1 DEF OneAlertPerExpectation, Alert
  <2>7. QED
    BY <2>2, <2>3, <2>4, <2>5, <2>6
<1>2. CASE ~(Timeout > 0 /\ ~stopped /\ pending[c] = 0)
  BY <1>2 DEF NumberingInv, StoppedInv, PendingHasTimer, OneAlertPerExpectation
<1>3. QED
  BY <1>1, <1>2

\* arrived and cancel keep the tracker's invariants.
LEMMA ArrivedInv ==
    ASSUME TypeOK, TrackerInv, NEW c \in Container, arrived(c),
           UNCHANGED <<expects, firing, alerting, stopped, alertLog>>
    PROVE  TrackerInv' /\ (pending \in [Container -> Nat])' /\ (armed \subseteq Timer)'
<1> USE DEF TypeOK, arrived, TrackerInv
<1>1. (pending \in [Container -> Nat])' /\ (armed \subseteq Timer)'
  OBVIOUS
<1>2. NumberingInv'
  BY DEF NumberingInv, Alert
<1>3. StoppedInv'
  BY DEF StoppedInv
<1>4. PendingHasTimer'
  BY DEF PendingHasTimer
<1>5. OneAlertPerExpectation'
  BY DEF OneAlertPerExpectation, NumberingInv, Alert
<1>6. QED
  BY <1>1, <1>2, <1>3, <1>4, <1>5

\* The runtime's steps keep the inductive invariant.
LEMMA EnvironmentInv ==
    ASSUME IInv,
           \/ \E c \in Container : ContainerStarts(c) \/ ContainerEnds(c)
           \/ WatchEnds
           \/ Rewatch
    PROVE  IInv'
<1> USE DEF IInv, TrackerInv
<1>1. ASSUME NEW c \in Container, ContainerStarts(c) PROVE IInv'
  <2>1. TypeOK'
    <3>1. run[c] + 1 \in Nat
      BY DEF TypeOK
    <3>2. (events \in Seq(Event))' /\ (missed \in [Container -> Nat])'
      BY <1>1, <3>1, EmitTypes DEF ContainerStarts
    <3>3. QED
      BY <1>1, <3>1, <3>2 DEF ContainerStarts, TypeOK, fetchVars, trackerVars
  <2>2. QED
    BY <1>1, <2>1, TrackerUnchanged DEF ContainerStarts
<1>2. ASSUME NEW c \in Container, ContainerEnds(c) PROVE IInv'
  <2>1. TypeOK'
    <3>1. run[c] \in Nat
      BY DEF TypeOK
    <3>2. (events \in Seq(Event))' /\ (missed \in [Container -> Nat])'
      BY <1>2, <3>1, EmitTypes DEF ContainerEnds
    <3>3. QED
      BY <1>2, <3>2 DEF ContainerEnds, TypeOK, fetchVars, trackerVars
  <2>2. QED
    BY <1>2, <2>1, TrackerUnchanged DEF ContainerEnds
<1>3. CASE WatchEnds
  <2>1. TypeOK'
    <3>1. events' \in Seq(Event)
      BY <1>3, StreamTypes DEF WatchEnds, TypeOK
    <3>2. missed' \in [Container -> Nat]
      BY <1>3 DEF WatchEnds, TypeOK
    <3>3. watching' \in BOOLEAN
      BY <1>3, Zenon DEF WatchEnds
    <3>4. drops' \in Nat
      <4>1. drops' = drops + 1 /\ drops \in Nat
        BY <1>3 DEF WatchEnds, TypeOK
      <4>2. QED
        BY <4>1
    <3>5. UNCHANGED <<run, alive, fetchVars, trackerVars>>
      BY <1>3 DEF WatchEnds
    <3>6. QED
      BY <3>1, <3>2, <3>3, <3>4, <3>5 DEF TypeOK, fetchVars, trackerVars
  <2>2. QED
    BY <1>3, <2>1, TrackerUnchanged DEF WatchEnds
<1>4. CASE Rewatch
  <2>1. TypeOK'
    BY <1>4 DEF Rewatch, TypeOK, fetchVars, trackerVars
  <2>2. QED
    BY <1>4, <2>1, TrackerUnchanged DEF Rewatch
<1>5. QED
  BY <1>1, <1>2, <1>3, <1>4

\* The event loop's and the fetch handler's steps keep the inductive invariant.
LEMMA HandlerInv ==
    ASSUME IInv, \/ HandleStart \/ HandleEnd
                 \/ \E c \in Container : Authenticate(c)
                 \/ \E h \in handlers : HandleFetch(h)
    PROVE  IInv'
<1> USE DEF IInv, TrackerInv, envVars, fetchVars
<1>1. events # <<>> => /\ Head(events) \in Event
                       /\ Head(events).id \in Container
                       /\ Head(events).run \in Nat
                       /\ Tail(events) \in Seq(Event)
  BY StreamTypes DEF TypeOK
<1>2. CASE HandleStart
  <2>1. CASE expect(Head(events).id) /\ UNCHANGED missed
    <3>1. /\ TrackerInv' /\ (expects \in [Container -> Nat])'
          /\ (pending \in [Container -> Nat])' /\ (armed \subseteq Timer)'
      BY <1>1, <1>2, <2>1, ExpectInv DEF HandleStart
    <3>2. TypeOK'
      BY <1>1, <1>2, <2>1, <3>1 DEF HandleStart, TypeOK
    <3>3. QED
      BY <3>1, <3>2
  <2>2. CASE /\ missed' = [missed EXCEPT ![Head(events).id] = Head(events).run]
             /\ UNCHANGED <<expects, pending, armed>>
    <3>1. TypeOK'
      BY <1>1, <1>2, <2>2 DEF HandleStart, TypeOK
    <3>2. QED
      BY <1>2, <2>2, <3>1, TrackerUnchanged DEF HandleStart, trackerVars
  <2>3. QED
    BY <1>2, <2>1, <2>2 DEF HandleStart
<1>3. CASE HandleEnd
  <2>1. TrackerInv' /\ (pending \in [Container -> Nat])' /\ (armed \subseteq Timer)'
    BY <1>1, <1>3, ArrivedInv DEF HandleEnd
  <2>2. TypeOK'
    BY <1>1, <1>3, <2>1 DEF HandleEnd, TypeOK
  <2>3. QED
    BY <2>1, <2>2
<1>4. ASSUME NEW c \in Container, Authenticate(c) PROVE IInv'
  <2>1. <<c, run[c]>> \in Timer
    BY DEF TypeOK, Timer
  <2>2. TypeOK'
    BY <1>4, <2>1 DEF Authenticate, TypeOK, trackerVars
  <2>3. QED
    BY <1>4, <2>2, TrackerUnchanged DEF Authenticate
<1>5. ASSUME NEW h \in handlers, HandleFetch(h) PROVE IInv'
  <2>1. PICK c \in Container, r \in Nat : h = <<c, r>>
    BY DEF TypeOK, Timer
  <2>2. TrackerInv' /\ (pending \in [Container -> Nat])' /\ (armed \subseteq Timer)'
    BY <1>5, <2>1, ArrivedInv DEF HandleFetch
  <2>3. (crossed \in [Container -> Nat])'
    BY <1>5, <2>1 DEF HandleFetch, TypeOK
  <2>4. (fetched \subseteq Container)'
    BY <1>5, <2>1 DEF HandleFetch, TypeOK
  <2>5. (handlers \subseteq Timer)'
    BY <1>5 DEF HandleFetch, TypeOK
  <2>6. TypeOK'
    BY <1>5, <2>2, <2>3, <2>4, <2>5 DEF HandleFetch, TypeOK
  <2>7. QED
    BY <2>2, <2>6
<1>6. QED
  BY <1>2, <1>3, <1>4, <1>5

\* A timer's expiry keeps the inductive invariant.
LEMMA ExpiryInv ==
    ASSUME IInv, NEW t \in armed, TimerExpires(t)
    PROVE  IInv'
<1> USE DEF IInv, TimerExpires, envVars, fetchVars
<1>1. TypeOK'
  BY DEF TypeOK
<1>2. PendingHasTimer'
  BY DEF PendingHasTimer
<1>3. NumberingInv' /\ StoppedInv' /\ OneAlertPerExpectation'
  BY DEF NumberingInv, StoppedInv, OneAlertPerExpectation
<1>4. QED
  BY <1>1, <1>2, <1>3

\* The timer callback keeps the inductive invariant, whichever expectation it finds.
LEMMA FireInv ==
    ASSUME IInv, NEW t \in firing, fire(t)
    PROVE  IInv'
<1> USE DEF IInv, fire, envVars, fetchVars
<1>1. PICK c \in Container, j \in Nat : t = <<c, j>>
  BY DEF TypeOK, Timer
<1>2. CASE pending[c] = 0
  <2>1. TypeOK'
    BY <1>1, <1>2 DEF TypeOK
  <2>2. PendingHasTimer'
    BY <1>1, <1>2 DEF PendingHasTimer
  <2>3. NumberingInv' /\ StoppedInv' /\ OneAlertPerExpectation'
    BY <1>1, <1>2 DEF NumberingInv, StoppedInv, OneAlertPerExpectation
  <2>4. QED
    BY <2>1, <2>2, <2>3
<1>3. CASE pending[c] # 0
  <2> DEFINE alert == [id |-> c, expectation |-> pending[c], timer |-> j,
                       run |-> run[c], served |-> c \in fetched]
  <2>1. /\ pending' = [pending EXCEPT ![c] = 0]
        /\ alerting' = alerting \cup {alert}
        /\ firing' = firing \ {t}
        /\ UNCHANGED <<expects, armed, stopped, alertLog>>
    BY <1>1, <1>3 DEF AlertOf
  <2>2. alert \in Alert
    BY DEF TypeOK, Alert
  <2>3. alert.id = c /\ alert.expectation = pending[c]
    OBVIOUS
  <2> HIDE DEF alert
  <2>4. TypeOK'
    BY <2>1, <2>2 DEF TypeOK
  <2>5. PendingHasTimer'
    BY <1>1, <2>1 DEF PendingHasTimer, TypeOK
  <2>6. StoppedInv'
    BY <2>1 DEF StoppedInv, TypeOK
  <2>7. NumberingInv'
    BY <1>3, <2>1, <2>2, <2>3 DEF NumberingInv, TypeOK
  <2>8. OneAlertPerExpectation'
    BY <1>3, <2>1, <2>2, <2>3 DEF OneAlertPerExpectation, NumberingInv, TypeOK, Alert
  <2>9. QED
    BY <2>4, <2>5, <2>6, <2>7, <2>8
<1>4. QED
  BY <1>2, <1>3

\* Handing an alert to the sink keeps the inductive invariant.
LEMMA SinkInv ==
    ASSUME IInv, NEW a \in alerting, SinkAlert(a)
    PROVE  IInv'
<1> USE DEF IInv, SinkAlert, envVars, fetchVars
<1>1. TypeOK'
  BY DEF TypeOK
<1>2. alertLog' \cup alerting' = alertLog \cup alerting
  OBVIOUS
<1>3. NumberingInv' /\ OneAlertPerExpectation'
  BY <1>2 DEF NumberingInv, OneAlertPerExpectation
<1>4. PendingHasTimer' /\ StoppedInv'
  BY DEF PendingHasTimer, StoppedInv
<1>5. QED
  BY <1>1, <1>3, <1>4

\* Shutdown keeps the inductive invariant.
LEMMA StopInv ==
    ASSUME IInv, Stop
    PROVE  IInv'
<1> USE DEF IInv, Stop, envVars, fetchVars
<1>1. TypeOK'
  BY DEF TypeOK
<1>2. PendingHasTimer' /\ StoppedInv'
  BY DEF PendingHasTimer, StoppedInv
<1>3. NumberingInv'
  BY DEF NumberingInv, TypeOK
<1>4. OneAlertPerExpectation'
  BY DEF OneAlertPerExpectation, NumberingInv, TypeOK, Alert
<1>5. QED
  BY <1>1, <1>2, <1>3, <1>4

\* The initial state satisfies the inductive invariant.
LEMMA InitInv == Init => IInv
<1> SUFFICES ASSUME Init PROVE IInv
  OBVIOUS
<1> USE DEF Init
<1>1. events \in Seq(Event)
  OBVIOUS
<1>2. TypeOK
  <2>1. 0 \in Nat
    OBVIOUS
  <2>2. QED
    BY <1>1, <2>1, Zenon DEF TypeOK
<1>3. NumberingInv /\ StoppedInv /\ PendingHasTimer /\ OneAlertPerExpectation
  BY DEF NumberingInv, StoppedInv, PendingHasTimer, OneAlertPerExpectation
<1>4. QED
  BY <1>2, <1>3 DEF IInv

\* Every step keeps the inductive invariant.
LEMMA NextInv == IInv /\ [Next]_vars => IInv'
<1> SUFFICES ASSUME IInv, [Next]_vars PROVE IInv'
  OBVIOUS
<1>1. CASE UNCHANGED vars
  BY <1>1 DEF vars, IInv, TypeOK, NumberingInv, StoppedInv, PendingHasTimer,
              OneAlertPerExpectation
<1>2. CASE Next
  BY <1>2, EnvironmentInv, HandlerInv, ExpiryInv, FireInv, SinkInv, StopInv
     DEF Next, Expiry, Fire, Sinks
<1>3. QED
  BY <1>1, <1>2

\* The inductive invariant holds throughout.
LEMMA InvariantHolds == Spec => []IInv
BY InitInv, NextInv, PTL DEF Spec

-----------------------------------------------------------------------------
\* Every variable of the tracker and its environment keeps its type.
THEOREM TypeCorrect == Spec => []TypeOK
<1>1. IInv => TypeOK
  BY DEF IInv
<1>2. QED
  BY <1>1, InvariantHolds, PTL

\* No pending container is ever without a timer that will look at it.
THEOREM NoLostExpectation == Spec => []PendingHasTimer
<1>1. IInv => PendingHasTimer
  BY DEF IInv
<1>2. QED
  BY <1>1, InvariantHolds, PTL

\* One expectation never raises two alerts.
THEOREM AlertsAreUnique == Spec => []OneAlertPerExpectation
<1>1. IInv => OneAlertPerExpectation
  BY DEF IInv
<1>2. QED
  BY <1>1, InvariantHolds, PTL

\* After stop no callback takes up another alert, although expired timers, fetch
\* handlers and a start event may still be on their way: what the sink still gets had
\* been carried out of the mutex before.
THEOREM StopEndsAlerts == Spec => StopIsFinal
<1> DEFINE Final == /\ alerting' \subseteq alerting
                    /\ alertLog' \subseteq alertLog \cup alerting
<1>1. IInv /\ [Next]_vars => [stopped => Final]_vars
  <2> SUFFICES ASSUME IInv, Next, stopped PROVE Final
    OBVIOUS
  <2>1. ASSUME NEW t \in firing, fire(t) PROVE Final
    <3>1. PICK c \in Container, j \in Nat : t = <<c, j>>
      BY DEF IInv, TypeOK, Timer
    <3>2. QED
      BY <2>1, <3>1 DEF fire, IInv, StoppedInv
  <2>2. ASSUME NEW a \in alerting, SinkAlert(a) PROVE Final
    BY <2>2 DEF SinkAlert
  <2>3. CASE UNCHANGED <<alerting, alertLog>>
    BY <2>3
  <2>4. QED
    BY <2>1, <2>2, <2>3
       DEF Next, ContainerStarts, ContainerEnds, Authenticate, HandleFetch, WatchEnds,
           Rewatch, HandleStart, HandleEnd, Expiry, TimerExpires, Fire, Sinks, Stop,
           trackerVars
<1>2. QED
  BY <1>1, InvariantHolds, PTL DEF Spec, StopIsFinal
=============================================================================
