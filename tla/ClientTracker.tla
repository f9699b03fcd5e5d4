---------------------------- MODULE ClientTracker ----------------------------
(***************************************************************************)
(* The client-fetch timeout (internal/daemon/clienttimeout.go) and the two *)
(* paths that drive it: the event loop (handleEvent, expect and cancel)    *)
(* and the fetch handler (arrived). Each expectation starts a timer; an    *)
(* expired timer runs fire on a goroutine of its own, which may have to    *)
(* wait for the mutex while the other paths run, and which calls the sink  *)
(* only after it has given the mutex back.                                 *)
(*                                                                         *)
(* Containers start and exit on their own and their wrapper fetches when   *)
(* it likes; the handler that authenticated one run's wrapper may call     *)
(* arrived when another run is under way. The runtime's event stream is    *)
(* ordered but late, and what it carries is lost when the watch ends.      *)
(***************************************************************************)
EXTENDS Integers, Sequences

CONSTANTS
    Container,  \* client-mode container ids
    Timeout,    \* BERM_CLIENT_TIMEOUT; not positive disables the check
    MaxRuns,    \* bound: starts of one container
    MaxDrops    \* bound: ends of the watch stream

ASSUME TrackerAssumption ==
    Timeout \in Int /\ MaxRuns \in Nat /\ MaxDrops \in Nat

VARIABLES
    run,        \* starts of each container so far; the current run's number
    alive,      \* the containers that run
    handlers,   \* <<container, run>>: authenticated fetches, arrived not yet called
    fetched,    \* the containers whose current run's fetch has called arrived
    events,     \* the runtime's event stream, oldest first
    watching,   \* the stream is connected
    drops,      \* ends of the stream so far
    missed,     \* history: the last run of each container whose start was lost
    crossed,    \* history: the last run whose expectation another run's fetch cleared
    expects,    \* history: expectations made; the k-th has timer k
    pending,    \* tracker.pending: the expectation of each container, 0 if none
    armed,      \* timers that have not expired and were not stopped
    firing,     \* expired timers whose fire has not yet got the mutex
    alerting,   \* entries fire has dropped and not yet handed to the sink
    stopped,    \* tracker.stopped
    alertLog    \* history: the timeout alerts handed to the sink

envVars == <<run, alive, drops, watching>>
fetchVars == <<handlers, fetched, crossed>>
trackerVars == <<expects, pending, armed, firing, alerting, stopped, alertLog>>
vars == <<run, alive, handlers, fetched, events, watching, drops, missed, crossed,
          expects, pending, armed, firing, alerting, stopped, alertLog>>

Timer == Container \X Nat
Alert == [id : Container, expectation : Nat, timer : Nat, run : Nat, served : BOOLEAN]
Event == [type : {"start", "end"}, id : Container, run : Nat]

Init ==
    /\ run = [c \in Container |-> 0]
    /\ alive = {}
    /\ handlers = {}
    /\ fetched = {}
    /\ events = <<>>
    /\ watching = TRUE
    /\ drops = 0
    /\ missed = [c \in Container |-> 0]
    /\ crossed = [c \in Container |-> 0]
    /\ expects = [c \in Container |-> 0]
    /\ pending = [c \in Container |-> 0]
    /\ armed = {}
    /\ firing = {}
    /\ alerting = {}
    /\ stopped = FALSE
    /\ alertLog = {}

-----------------------------------------------------------------------------
\* The runtime.

\* An event reaches the stream only while the daemon watches it.
Emit(type, c, r) ==
    IF watching
    THEN /\ events' = Append(events, [type |-> type, id |-> c, run |-> r])
         /\ missed' = missed
    ELSE /\ events' = events
         /\ missed' = IF type = "start" THEN [missed EXCEPT ![c] = r] ELSE missed

ContainerStarts(c) ==
    /\ c \notin alive
    /\ run[c] < MaxRuns
    /\ run' = [run EXCEPT ![c] = @ + 1]
    /\ alive' = alive \cup {c}
    /\ fetched' = fetched \ {c}
    /\ Emit("start", c, run[c] + 1)
    /\ UNCHANGED <<watching, drops, handlers, crossed, trackerVars>>

\* Stop, die and destroy are one kind of event to the tracker.
ContainerEnds(c) ==
    /\ c \in alive
    /\ alive' = alive \ {c}
    /\ Emit("end", c, run[c])
    /\ UNCHANGED <<run, watching, drops, fetchVars, trackerVars>>

\* The watch ends (watchOnce returns) with events unread.
WatchEnds ==
    /\ watching
    /\ drops < MaxDrops
    /\ watching' = FALSE
    /\ drops' = drops + 1
    /\ events' = <<>>
    /\ missed' = [c \in Container |->
                    IF \E i \in 1..Len(events) : events[i].type = "start" /\ events[i].id = c
                    THEN run[c] ELSE missed[c]]
    /\ UNCHANGED <<run, alive, fetchVars, trackerVars>>

\* runLoop watches again after its two-second pause.
Rewatch ==
    /\ ~watching
    /\ watching' = TRUE
    /\ UNCHANGED <<run, alive, events, drops, missed, fetchVars, trackerVars>>

-----------------------------------------------------------------------------
\* The tracker.

\* Mutated form: the already-pending check is dropped, so the entry and its timer
\* number are overwritten by one whose timer is the first expectation's.
expect_SharedTimer(c) ==
    IF Timeout > 0 /\ ~stopped
    THEN /\ expects' = [expects EXCEPT ![c] = @ + 1]
         /\ pending' = [pending EXCEPT ![c] = expects[c] + 1]
         /\ armed' = IF pending[c] # 0 THEN armed ELSE armed \cup {<<c, expects[c] + 1>>}
    ELSE UNCHANGED <<expects, pending, armed>>

\* Mutated form: stopped is not looked at.
expect_AfterStop(c) ==
    IF Timeout > 0 /\ pending[c] = 0
    THEN /\ expects' = [expects EXCEPT ![c] = @ + 1]
         /\ pending' = [pending EXCEPT ![c] = expects[c] + 1]
         /\ armed' = armed \cup {<<c, expects[c] + 1>>}
    ELSE UNCHANGED <<expects, pending, armed>>

\* expect: ignored when disabled, stopped or already pending.
expect(c) ==
    IF Timeout > 0 /\ ~stopped /\ pending[c] = 0
    THEN /\ expects' = [expects EXCEPT ![c] = @ + 1]
         /\ pending' = [pending EXCEPT ![c] = expects[c] + 1]
         /\ armed' = armed \cup {<<c, expects[c] + 1>>}
    ELSE UNCHANGED <<expects, pending, armed>>

\* Mutated form: the entry is counted down, also where there is none.
arrived_CountsDown(c) ==
    /\ pending' = [pending EXCEPT ![c] = IF @ = 0 THEN -1 ELSE 0]
    /\ armed' = armed \ {<<c, pending[c]>>}

\* arrived and cancel: the entry's timer is stopped, which does nothing for one
\* already expired, and the entry dropped.
arrived(c) ==
    /\ pending' = [pending EXCEPT ![c] = 0]
    /\ armed' = armed \ {<<c, pending[c]>>}

\* handleEvent of a start; the inspect may fail, and then nothing is expected.
HandleStart ==
    /\ events # <<>>
    /\ Head(events).type = "start"
    /\ events' = Tail(events)
    /\ \/ /\ expect(Head(events).id)
          /\ UNCHANGED missed
       \/ /\ missed' = [missed EXCEPT ![Head(events).id] = Head(events).run]
          /\ UNCHANGED <<expects, pending, armed>>
    /\ UNCHANGED <<envVars, fetchVars, firing, alerting, stopped, alertLog>>

\* handleEvent of a stop, die or destroy.
HandleEnd ==
    /\ events # <<>>
    /\ Head(events).type = "end"
    /\ events' = Tail(events)
    /\ arrived(Head(events).id)
    /\ UNCHANGED <<envVars, fetchVars, missed, expects, firing, alerting, stopped,
                   alertLog>>

\* handleFetch authenticates its peer: the wrapper's process is alive at this moment
\* and the container it belongs to is inspected.
Authenticate(c) ==
    /\ c \in alive
    /\ handlers' = handlers \cup {<<c, run[c]>>}
    /\ UNCHANGED <<envVars, events, missed, fetched, crossed, trackerVars>>

\* The start of c's current run is still in the stream, so its expectation is to come.
StartToCome(c) ==
    \E i \in 1..Len(events) :
        events[i].type = "start" /\ events[i].id = c /\ events[i].run = run[c]

\* handleFetch, authenticated, tells the tracker: by id alone, whatever has become of
\* the run that asked.
HandleFetch(h) ==
    /\ h \in handlers
    /\ handlers' = handlers \ {h}
    /\ fetched' = IF h[2] = run[h[1]] THEN fetched \cup {h[1]} ELSE fetched
    /\ arrived(h[1])
    /\ crossed' = IF h[2] # run[h[1]] /\ pending[h[1]] # 0 /\ ~StartToCome(h[1])
                  THEN [crossed EXCEPT ![h[1]] = run[h[1]]] ELSE crossed
    /\ UNCHANGED <<envVars, events, missed, expects, firing, alerting, stopped, alertLog>>

\* The runtime starts the timer's goroutine.
TimerExpires(t) ==
    /\ t \in armed
    /\ armed' = armed \ {t}
    /\ firing' = firing \cup {t}
    /\ UNCHANGED <<envVars, fetchVars, events, missed, expects, pending, alerting,
                   stopped, alertLog>>

\* What the callback of timer t carries out of the mutex about the entry it found.
AlertOf(t) ==
    [id |-> t[1], expectation |-> pending[t[1]], timer |-> t[2], run |-> run[t[1]],
     served |-> t[1] \in fetched]

\* Mutated form: the entry is not dropped, so the next timer alerts for it again.
fire_EntryKept(t) ==
    /\ t \in firing
    /\ firing' = firing \ {t}
    /\ alerting' = IF pending[t[1]] = 0 THEN alerting ELSE alerting \cup {AlertOf(t)}
    /\ UNCHANGED <<envVars, fetchVars, events, missed, expects, armed, stopped, pending,
                   alertLog>>

\* Mutated form: a timer drops whatever entry it finds and alerts only on its own.
fire_DropsOther(t) ==
    /\ t \in firing
    /\ firing' = firing \ {t}
    /\ pending' = [pending EXCEPT ![t[1]] = 0]
    /\ alerting' = IF pending[t[1]] = t[2] THEN alerting \cup {AlertOf(t)} ELSE alerting
    /\ UNCHANGED <<envVars, fetchVars, events, missed, expects, armed, stopped, alertLog>>

\* fire has the mutex: a container no longer pending is left alone; otherwise its
\* expectation, whichever one it is by now, is dropped and the mutex given back.
fire(t) ==
    /\ t \in firing
    /\ firing' = firing \ {t}
    /\ IF pending[t[1]] = 0
       THEN UNCHANGED <<pending, alerting>>
       ELSE /\ pending' = [pending EXCEPT ![t[1]] = 0]
            /\ alerting' = alerting \cup {AlertOf(t)}
    /\ UNCHANGED <<envVars, fetchVars, events, missed, expects, armed, stopped, alertLog>>

\* The callback, without the mutex, calls sink.Alert.
SinkAlert(a) ==
    /\ a \in alerting
    /\ alerting' = alerting \ {a}
    /\ alertLog' = alertLog \cup {a}
    /\ UNCHANGED <<envVars, fetchVars, events, missed, expects, pending, armed, firing,
                   stopped>>

\* stop, at shutdown: every pending timer is stopped and every entry dropped.
Stop ==
    /\ ~stopped
    /\ stopped' = TRUE
    /\ armed' = armed \ {<<c, pending[c]>> : c \in Container}
    /\ pending' = [c \in Container |-> 0]
    /\ UNCHANGED <<envVars, fetchVars, events, missed, expects, firing, alerting,
                   alertLog>>

Expiry == \E t \in armed : TimerExpires(t)
Fire == \E t \in firing : fire(t)
Sinks == \E a \in alerting : SinkAlert(a)

Next ==
    \/ \E c \in Container : ContainerStarts(c) \/ ContainerEnds(c) \/ Authenticate(c)
    \/ \E h \in handlers : HandleFetch(h)
    \/ WatchEnds
    \/ Rewatch
    \/ HandleStart
    \/ HandleEnd
    \/ Expiry
    \/ Fire
    \/ Sinks
    \/ Stop

\* The event loop keeps reading, timers expire, and a goroutine waiting for the
\* mutex gets it and goes on to the sink; containers, fetches and shutdown owe
\* nothing, and an authenticated handler may stall before it calls arrived.
Fairness ==
    /\ WF_vars(HandleStart)
    /\ WF_vars(HandleEnd)
    /\ \A c \in Container, k \in 1..MaxRuns : WF_vars(TimerExpires(<<c, k>>))
    /\ \A c \in Container, k \in 1..MaxRuns : WF_vars(fire(<<c, k>>))
    /\ WF_vars(Sinks)

Spec == Init /\ [][Next]_vars
FairSpec == Spec /\ Fairness

-----------------------------------------------------------------------------
\* Type invariant.
TypeOK ==
    /\ run \in [Container -> Nat]
    /\ alive \subseteq Container
    /\ handlers \subseteq Timer
    /\ fetched \subseteq Container
    /\ events \in Seq(Event)
    /\ watching \in BOOLEAN
    /\ drops \in Nat
    /\ missed \in [Container -> Nat]
    /\ crossed \in [Container -> Nat]
    /\ expects \in [Container -> Nat]
    /\ pending \in [Container -> Nat]
    /\ armed \subseteq Timer
    /\ firing \subseteq Timer
    /\ alerting \subseteq Alert
    /\ stopped \in BOOLEAN
    /\ alertLog \subseteq Alert

\* A pending container always has its own timer still to come, armed or already
\* expired: no interleaving of fetches, events and callbacks leaves an expectation
\* that can never be alerted on.
PendingHasTimer ==
    \A c \in Container :
        pending[c] # 0 => <<c, pending[c]>> \in armed \cup firing

\* One expectation raises at most one alert, and none while it is still pending,
\* even when the callbacks of several expectations of the container overlap.
OneAlertPerExpectation ==
    /\ \A a, b \in alertLog \cup alerting :
          a.id = b.id /\ a.expectation = b.expectation => a = b
    /\ \A a \in alertLog \cup alerting : pending[a.id] # a.expectation

\* stop is final for everything still in the tracker: whatever timer had expired and
\* whatever start event or fetch was still being handled, no callback takes up another
\* alert; the sink only gets the alerts that callbacks had carried out of the mutex
\* before stop came.
StopIsFinal ==
    [][stopped => alerting' \subseteq alerting /\ alertLog' \subseteq alertLog \cup alerting]_vars

\* A start that the loop sees ends in a fetch of that very run, in an alert for the
\* container, or in the run's end or the daemon's: a forgotten wrapper surfaces. The
\* one way around it is crossed: the fetch handler of an earlier run, late, clears the
\* expectation of this one.
ForgottenWrapperSurfaces ==
    \A c \in Container, r \in 1..MaxRuns :
        (\E i \in 1..Len(events) : events[i] = [type |-> "start", id |-> c, run |-> r])
            ~> \/ \E a \in alertLog : a.id = c /\ a.run = r
               \/ c \in fetched \/ c \notin alive \/ run[c] # r
               \/ missed[c] = r \/ crossed[c] = r \/ stopped

\* What the type's comment says: "If the fetch arrives ... the expectation is
\* cleared. If the window elapses with no fetch, fire alerts": a run whose fetch
\* was handled is never alerted on.
NoAlertForServedRun == \A a \in alertLog : ~a.served
=============================================================================
