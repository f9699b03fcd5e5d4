------------------------------ MODULE Heartbeat ------------------------------
(***************************************************************************)
(* The liveness heartbeat: the reconcile goroutine that writes it          *)
(* (runReconcile in internal/daemon/loop.go, beat in heartbeat.go) and the *)
(* separate process that reads it (`berm healthz`, internal/cli/healthz.go).*)
(*                                                                         *)
(* Time is discrete. A stamp is wall-clock time, written by one process    *)
(* and compared by another, so a step of the wall clock changes an age;    *)
(* the ticker runs on the monotonic clock, which never steps. Only ages    *)
(* are kept, never absolute times. The time a goroutine waits for the      *)
(* processor counts as part of the pass or of the write it precedes.       *)
(***************************************************************************)
EXTENDS Integers

CONSTANTS
    Interval,   \* reconcileEvery
    PassMax,    \* a pass that is not wedged ends within this time
    WriteMax,   \* WriteHeartbeat ends within this time
    Steps,      \* by how much the wall clock may step, either way
    MaxFaults   \* bound: wedged passes, failed writes, clock steps and restarts

\* DefaultHeartbeatStaleAfter.
StaleAfter == 3 * Interval

\* Bound: ages above this are one age, stale whatever steps the clock still takes.
MaxStep == CHOOSE s \in Steps : \A t \in Steps : t <= s
AgeCap == StaleAfter + 1 + MaxFaults * MaxStep

ASSUME HeartbeatAssumption ==
    /\ Interval \in Nat \ {0}
    /\ PassMax \in Nat /\ WriteMax \in Nat
    /\ Steps \subseteq Nat
    /\ MaxFaults \in Nat
    /\ AgeCap \in Nat
    /\ StaleAfter < AgeCap

\* The first beat is written before the ticker is made, hence twice WriteMax.
ASSUME BudgetAssumption == Interval + PassMax + 2 * WriteMax <= StaleAfter

VARIABLES
    pc,         \* where runReconcile is
    spent,      \* time since the current pass, or its write, began
    toTick,     \* time to the ticker's next tick; 0 before NewTicker
    tick,       \* the ticker's channel, of capacity one, holds a tick
    cancelled,  \* ctx is cancelled
    beaten,     \* the heartbeat file exists
    age,        \* wall clock now minus the stamp in the file
    stampAge,   \* wall clock now minus the stamp being written
    verdict,    \* what the last healthz reported
    faults,     \* faults so far
    excused,    \* history: a fault since the stamp in the file was taken
    stampExcused \* history: a forward step since the stamp being written was taken

loopVars == <<pc, spent, toTick, tick, cancelled>>
fileVars == <<beaten, age, stampAge, excused, stampExcused>>
vars == <<pc, spent, toTick, tick, cancelled, beaten, age, stampAge, verdict,
          faults, excused, stampExcused>>

\* With a negative ReconcileInterval the goroutine is not started at all.
Init ==
    /\ pc \in {"pass", "stopped"}
    /\ spent = 0 /\ toTick = 0 /\ tick = FALSE /\ cancelled = FALSE
    /\ beaten = FALSE /\ age = 0 /\ stampAge = 0
    /\ verdict = "none" /\ faults = 0
    /\ excused = FALSE /\ stampExcused = FALSE

-----------------------------------------------------------------------------
\* The reconcile goroutine.

\* reconcileVolumes returns, after its work or early when List fails; either
\* way beat follows, which first reads the clock.
EndPass ==
    /\ pc = "pass"
    /\ pc' = "write" /\ spent' = 0
    /\ stampAge' = 0 /\ stampExcused' = FALSE
    /\ UNCHANGED <<toTick, tick, cancelled, beaten, age, excused, verdict, faults>>

\* Mutated form: the ticker is made with the freshness window.
TickerOfStaleAfter ==
    /\ pc' = "select" /\ spent' = 0
    /\ toTick' = IF toTick = 0 THEN StaleAfter ELSE toTick
    /\ UNCHANGED <<tick, cancelled>>

\* After its first beat the goroutine makes the ticker; the others find it there.
ToSelect ==
    /\ pc' = "select" /\ spent' = 0
    /\ toTick' = IF toTick = 0 THEN Interval ELSE toTick
    /\ UNCHANGED <<tick, cancelled>>

\* WriteHeartbeat renames the new stamp into place.
Beat ==
    /\ pc = "write"
    /\ beaten' = TRUE /\ age' = stampAge /\ excused' = stampExcused
    /\ stampAge' = 0 /\ stampExcused' = FALSE
    /\ ToSelect
    /\ UNCHANGED <<verdict, faults>>

\* A failed write is logged and swallowed.
BeatFails ==
    /\ pc = "write"
    /\ faults < MaxFaults
    /\ faults' = faults + 1
    /\ excused' = TRUE
    /\ stampAge' = 0 /\ stampExcused' = FALSE
    /\ ToSelect
    /\ UNCHANGED <<beaten, age, verdict>>

\* The select takes the tick, also when ctx.Done is ready too.
StartPass ==
    /\ pc = "select" /\ tick
    /\ pc' = "pass" /\ spent' = 0 /\ tick' = FALSE
    /\ UNCHANGED <<toTick, cancelled, fileVars, verdict, faults>>

\* The deferred t.Stop ends the ticker.
Stop ==
    /\ pc = "select" /\ cancelled
    /\ pc' = "stopped" /\ toTick' = 0
    /\ UNCHANGED <<spent, tick, cancelled, fileVars, verdict, faults>>

Cancel ==
    /\ ~cancelled
    /\ cancelled' = TRUE
    /\ UNCHANGED <<pc, spent, toTick, tick, fileVars, verdict, faults>>

-----------------------------------------------------------------------------
\* The surroundings.

\* A call of the pass blocks, on a wedged runtime socket say.
Wedge ==
    /\ pc = "pass"
    /\ faults < MaxFaults
    /\ faults' = faults + 1
    /\ pc' = "wedged" /\ spent' = 0
    /\ excused' = TRUE
    /\ UNCHANGED <<toTick, tick, cancelled, beaten, age, stampAge, stampExcused, verdict>>

\* The blocked call returns after all.
Unwedge ==
    /\ pc = "wedged"
    /\ pc' = "pass"
    /\ UNCHANGED <<spent, toTick, tick, cancelled, fileVars, verdict, faults>>

\* An age after the wall clock moved by d.
Older(a, d) == IF a + d > AgeCap THEN AgeCap ELSE a + d

\* One unit of time. It waits for what is due now; a tick that finds the
\* channel full is dropped.
Elapse ==
    /\ ~(pc = "pass" /\ spent >= PassMax)
    /\ ~(pc = "write" /\ spent >= WriteMax)
    /\ ~(pc = "select" /\ tick)
    /\ spent' = IF pc \in {"pass", "write"} THEN spent + 1 ELSE spent
    /\ toTick' = IF toTick = 1 THEN Interval ELSE IF toTick > 1 THEN toTick - 1 ELSE 0
    /\ tick' = (tick \/ toTick = 1)
    /\ age' = IF beaten THEN Older(age, 1) ELSE age
    /\ stampAge' = IF pc = "write" THEN Older(stampAge, 1) ELSE stampAge
    /\ UNCHANGED <<pc, cancelled, beaten, excused, stampExcused, verdict, faults>>

\* The wall clock is set, by d units forward or back.
ClockSteps(d) ==
    /\ faults < MaxFaults
    /\ faults' = faults + 1
    /\ age' = IF beaten THEN Older(age, d) ELSE age
    /\ stampAge' = IF pc = "write" THEN Older(stampAge, d) ELSE stampAge
    /\ excused' = (excused \/ d > 0)
    /\ stampExcused' = (stampExcused \/ (d > 0 /\ pc = "write"))
    /\ UNCHANGED <<loopVars, beaten, verdict>>

\* The daemon's container is restarted; its tmpfs starts empty.
Restart ==
    /\ faults < MaxFaults
    /\ faults' = faults + 1
    /\ pc # "stopped"
    /\ pc' = "pass" /\ spent' = 0 /\ toTick' = 0 /\ tick' = FALSE /\ cancelled' = FALSE
    /\ beaten' = FALSE /\ age' = 0 /\ stampAge' = 0
    /\ excused' = FALSE /\ stampExcused' = FALSE
    /\ UNCHANGED verdict

\* A stamp in the future has age zero.
ClampedAge == IF age < 0 THEN 0 ELSE age

\* Mutated form: the edge of the window is stale.
StrictlyFresh == beaten /\ ClampedAge < StaleAfter
\* Mutated form: no beat yet counts as fresh.
MissingIsFresh == ~beaten \/ ClampedAge <= StaleAfter

\* HeartbeatFresh: a missing beat is not fresh.
HeartbeatFresh == beaten /\ ClampedAge <= StaleAfter

\* The container runtime runs `berm healthz`, which exits 0 or not.
Healthz ==
    /\ verdict' = IF HeartbeatFresh THEN "healthy" ELSE "unhealthy"
    /\ UNCHANGED <<loopVars, fileVars, faults>>

-----------------------------------------------------------------------------
Next ==
    \/ EndPass \/ Beat \/ BeatFails \/ StartPass \/ Stop \/ Cancel
    \/ Wedge \/ Unwedge
    \/ Elapse \/ Restart \/ Healthz
    \/ \E s \in Steps : ClockSteps(s) \/ ClockSteps(-s)

Spec == Init /\ [][Next]_vars

(* Time passes and the container runtime keeps running the healthcheck. A     *)
(* pass that is not wedged returns and its write ends; the select of a        *)
(* goroutine with both cases ready takes each of them at random, so a         *)
(* cancelled context is not ignored for ever. Nothing unblocks a wedged call. *)
Fairness ==
    /\ WF_vars(Elapse) /\ WF_vars(Healthz)
    /\ WF_vars(EndPass) /\ WF_vars(Beat) /\ WF_vars(StartPass)
    /\ SF_vars(Stop)

FairSpec == Spec /\ Fairness

-----------------------------------------------------------------------------
\* Properties.

\* The type invariant: the ticker never waits beyond its interval.
TypeOK ==
    /\ pc \in {"pass", "write", "select", "wedged", "stopped"}
    /\ spent \in Nat
    /\ toTick \in 0..Interval
    /\ tick \in BOOLEAN /\ cancelled \in BOOLEAN /\ beaten \in BOOLEAN
    /\ age \in Int /\ age <= AgeCap
    /\ stampAge \in Int /\ stampAge <= AgeCap
    /\ verdict \in {"none", "healthy", "unhealthy"}
    /\ faults \in 0..MaxFaults
    /\ excused \in BOOLEAN /\ stampExcused \in BOOLEAN

\* No false alarm: until the goroutine ends, as long as the beat in the file was
\* followed by no wedged pass, no failed write and no forward step of the clock,
\* healthz calls the daemon healthy, however slow the passes and writes are within
\* their bounds and however many ticks they make the ticker drop.
ProgressingIsHealthy == beaten /\ ~excused /\ pc # "stopped" => HeartbeatFresh

\* What healthz ought to say.
Truth == IF pc \in {"wedged", "stopped"} THEN "unhealthy" ELSE "healthy"

\* Once the faults are over, healthz settles on the truth for good: a wedged
\* goroutine is reported although its process lives and even if the clock was
\* set back after its last beat, one that never ran is reported too, and a
\* goroutine that recovered is reported healthy again.
VerdictSettles == <>[](verdict = Truth)
=============================================================================
