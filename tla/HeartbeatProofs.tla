--------------------------- MODULE HeartbeatProofs ---------------------------
(***************************************************************************)
(* Proofs about Heartbeat for every interval, every bound on a pass and on *)
(* a write that fit the freshness window, and any number of faults.        *)
(***************************************************************************)
EXTENDS Heartbeat, TLAPS

(***************************************************************************)
(* The age of a beat that nothing has excused is bounded by where the      *)
(* goroutine is: the time its write took, the wait for the next tick, the  *)
(* pass so far and the write so far. A backward step only lowers an age,   *)
(* so the bounds survive it.                                               *)
(***************************************************************************)
WorkBound ==
    /\ pc = "pass" => spent <= PassMax
    /\ pc = "write" => spent <= WriteMax
    /\ pc = "select" => toTick > 0
    /\ pc = "wedged" => spent = 0

StampBound == pc = "write" /\ ~stampExcused => stampAge <= spent

AgeBound ==
    beaten /\ ~excused =>
        /\ pc = "select" /\ ~tick => age <= WriteMax + Interval - toTick
        /\ pc = "select" /\ tick => age <= WriteMax + Interval
        /\ pc = "pass" => age <= WriteMax + Interval + spent
        /\ pc = "write" => age <= WriteMax + Interval + PassMax + spent
        /\ pc # "wedged"

BeatInv == WorkBound /\ StampBound /\ AgeBound

-----------------------------------------------------------------------------
\* The two halves of the type invariant.
Flags ==
    /\ tick \in BOOLEAN /\ cancelled \in BOOLEAN /\ beaten \in BOOLEAN
    /\ excused \in BOOLEAN /\ stampExcused \in BOOLEAN

Numbers ==
    /\ pc \in {"pass", "write", "select", "wedged", "stopped"}
    /\ spent \in Nat
    /\ toTick \in 0..Interval
    /\ age \in Int /\ age <= AgeCap
    /\ stampAge \in Int /\ stampAge <= AgeCap
    /\ verdict \in {"none", "healthy", "unhealthy"}
    /\ faults \in 0..MaxFaults

\* The variables of the heartbeat keep their types: the ticker is never set
\* beyond its interval and the counters stay within their bounds.
THEOREM TypeCorrect == Spec => []TypeOK
<1>1. Init => Flags /\ Numbers
  <2>1. Init => Flags
    BY Zenon DEF Init, Flags
  <2>2. Init => Numbers
    BY HeartbeatAssumption DEF Init, Numbers
  <2> QED BY <2>1, <2>2
<1>2. Flags /\ [Next]_vars => Flags'
  <2> SUFFICES ASSUME Flags, [Next]_vars PROVE Flags'
    OBVIOUS
  <2> USE DEF Flags
  <2>1. CASE EndPass
    BY Zenon, <2>1 DEF EndPass
  <2>2. CASE Beat
    BY Zenon, <2>2 DEF Beat, ToSelect
  <2>3. CASE BeatFails
    BY Zenon, <2>3 DEF BeatFails, ToSelect
  <2>4. CASE StartPass
    BY Zenon, <2>4 DEF StartPass, fileVars
  <2>5. CASE Stop
    BY Zenon, <2>5 DEF Stop, fileVars
  <2>6. CASE Cancel
    BY Zenon, <2>6 DEF Cancel, fileVars
  <2>7. CASE Wedge
    BY Zenon, <2>7 DEF Wedge
  <2>8. CASE Unwedge
    BY Zenon, <2>8 DEF Unwedge, fileVars
  <2>9. CASE Elapse
    BY Zenon, <2>9 DEF Elapse
  <2>10. CASE Restart
    BY Zenon, <2>10 DEF Restart
  <2>11. CASE Healthz
    BY Zenon, <2>11 DEF Healthz, loopVars, fileVars
  <2>12. ASSUME NEW s, ClockSteps(s) PROVE Flags'
    BY Zenon, <2>12 DEF ClockSteps, loopVars
  <2>13. CASE UNCHANGED vars
    BY Zenon, <2>13 DEF vars
  <2> QED
    BY <2>1, <2>2, <2>3, <2>4, <2>5, <2>6, <2>7, <2>8, <2>9, <2>10, <2>11,
       <2>12, <2>13 DEF Next
<1>3. Flags /\ Numbers /\ [Next]_vars => Numbers'
  <2> SUFFICES ASSUME Flags, Numbers, [Next]_vars PROVE Numbers'
    OBVIOUS
  <2> USE HeartbeatAssumption DEF Numbers
  <2>1. CASE EndPass
    BY <2>1 DEF EndPass
  <2>2. CASE Beat
    BY <2>2 DEF Beat, ToSelect
  <2>3. CASE BeatFails
    BY <2>3 DEF BeatFails, ToSelect
  <2>4. CASE StartPass
    BY <2>4 DEF StartPass, fileVars
  <2>5. CASE Stop
    BY <2>5 DEF Stop, fileVars
  <2>6. CASE Cancel
    BY <2>6 DEF Cancel, fileVars
  <2>7. CASE Wedge
    BY <2>7 DEF Wedge
  <2>8. CASE Unwedge
    BY <2>8 DEF Unwedge, fileVars
  <2>9. CASE Elapse
    BY <2>9 DEF Elapse, Older
  <2>10. CASE Restart
    BY <2>10 DEF Restart
  <2>11. CASE Healthz
    BY <2>11 DEF Healthz, loopVars, fileVars
  <2>12. ASSUME NEW s \in Steps, ClockSteps(s) \/ ClockSteps(-s) PROVE Numbers'
    <3>1. s \in Nat
      OBVIOUS
    <3>2. CASE ClockSteps(s)
      BY <3>1, <3>2 DEF ClockSteps, Older, loopVars
    <3>3. CASE ClockSteps(-s)
      BY <3>1, <3>3 DEF ClockSteps, Older, loopVars
    <3> QED BY <2>12, <3>2, <3>3
  <2>13. CASE UNCHANGED vars
    BY <2>13 DEF vars
  <2> QED
    BY <2>1, <2>2, <2>3, <2>4, <2>5, <2>6, <2>7, <2>8, <2>9, <2>10, <2>11,
       <2>12, <2>13 DEF Next
<1>4. Flags /\ Numbers <=> TypeOK
  BY Zenon DEF Flags, Numbers, TypeOK
<1> QED
  BY <1>1, <1>2, <1>3, <1>4, PTL DEF Spec

\* Every step of the goroutine, of time and of the clock keeps the bounds.
LEMMA BeatInvStep ==
    TypeOK /\ BeatInv /\ [Next]_vars => BeatInv'
<1> SUFFICES ASSUME TypeOK, BeatInv, [Next]_vars PROVE BeatInv'
  OBVIOUS
<1> USE HeartbeatAssumption DEF TypeOK, BeatInv, WorkBound, StampBound, AgeBound
<1>1. CASE EndPass
  BY <1>1 DEF EndPass
<1>2. CASE Beat
  BY <1>2 DEF Beat, ToSelect
<1>3. CASE BeatFails
  BY <1>3 DEF BeatFails, ToSelect
<1>4. CASE StartPass
  BY <1>4 DEF StartPass, fileVars
<1>5. CASE Stop
  BY <1>5 DEF Stop, fileVars
<1>6. CASE Cancel
  BY <1>6 DEF Cancel, fileVars
<1>7. CASE Wedge
  BY <1>7 DEF Wedge
<1>8. CASE Unwedge
  BY <1>8 DEF Unwedge, fileVars
<1>9. CASE Elapse
  BY <1>9 DEF Elapse, Older
<1>10. CASE Restart
  BY <1>10 DEF Restart
<1>11. CASE Healthz
  BY <1>11 DEF Healthz, loopVars, fileVars
<1>12. ASSUME NEW s \in Steps, ClockSteps(s) \/ ClockSteps(-s) PROVE BeatInv'
  <2>1. s \in Nat
    OBVIOUS
  <2>2. CASE ClockSteps(s)
    <3>1. WorkBound'
      BY <2>2 DEF ClockSteps, loopVars
    <3>2. CASE s = 0
      BY <2>1, <2>2, <3>1, <3>2 DEF ClockSteps, Older, loopVars
    <3>3. CASE s > 0
      <4>1. excused' /\ (pc = "write" => stampExcused') /\ pc' = pc
        BY <2>2, <3>3 DEF ClockSteps, loopVars
      <4> QED BY <3>1, <4>1
    <3> QED BY <2>1, <3>2, <3>3
  <2>3. CASE ClockSteps(-s)
    BY <2>1, <2>3 DEF ClockSteps, Older, loopVars
  <2> QED BY <1>12, <2>2, <2>3
<1>13. CASE UNCHANGED vars
  BY <1>13 DEF vars
<1> QED
  BY <1>1, <1>2, <1>3, <1>4, <1>5, <1>6, <1>7, <1>8, <1>9, <1>10, <1>11,
     <1>12, <1>13 DEF Next

\* healthz raises no false alarm: a beat followed by no fault is fresh until
\* the goroutine ends, for every pass and write within the budget.
THEOREM NoFalseAlarm == Spec => []ProgressingIsHealthy
<1>1. Init => BeatInv
  BY HeartbeatAssumption DEF Init, BeatInv, WorkBound, StampBound, AgeBound
<1>2. TypeOK /\ BeatInv => ProgressingIsHealthy
  <2> SUFFICES ASSUME TypeOK, BeatInv, beaten, ~excused, pc # "stopped"
               PROVE HeartbeatFresh
    BY DEF ProgressingIsHealthy
  <2>1. age <= Interval + PassMax + 2 * WriteMax
    BY HeartbeatAssumption DEF TypeOK, BeatInv, WorkBound, AgeBound
  <2>2. StaleAfter \in Nat
    BY HeartbeatAssumption DEF StaleAfter
  <2> QED
    BY <2>1, <2>2, HeartbeatAssumption, BudgetAssumption
    DEF HeartbeatFresh, ClampedAge, TypeOK
<1> QED
  BY <1>1, <1>2, BeatInvStep, TypeCorrect, PTL DEF Spec
=============================================================================
