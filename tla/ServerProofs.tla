---------------------------- MODULE ServerProofs ----------------------------
(***************************************************************************)
(* Proofs about Server, for any number of connections.                     *)
(***************************************************************************)
EXTENDS Server, TLAPS

USE DEF ledgerVars, taskVars

\* A connection's handler and its socket go through their stages together.
StageInv ==
    \A c \in Conn :
        /\ peer[c] = "idle" => sock[c] = "none"
        /\ sock[c] \in {"none", "backlog"} => stage[c] = "none"
        /\ stage[c] \in {"untrack", "done"} => sock[c] = "closed"
        /\ sock[c] = "open" /\ stage[c] = "none" => c = accepted
        /\ Running(c) <=> c \in conns
        /\ c = accepted => stage[c] = "none" /\ sock[c] = "open"

\* A bundle lives only while its handler writes or records it.
BundleInv == \A c \in bundle : stage[c] \in {"encode", "finish", "record"}

\* A whole bundle on the wire stays there, and only then is a record made.
WireInv ==
    /\ \A c \in Conn : stage[c] = "record" => wire[c] = "bundle"
    /\ \A c \in Conn : wire[c] = "bundle" => stage[c] \in {"record", "close", "untrack", "done"}
    /\ RecordedWasWritten

\* serve returns after its handlers, and run after serve and the tasks.
ReturnInv ==
    /\ accept = "returned" => \A c \in Conn : ~Running(c)
    /\ main = "exited" => accept = "returned" /\ tasks = {}

IInv == TypeOK /\ StageInv /\ BundleInv /\ WireInv /\ ReturnInv

-----------------------------------------------------------------------------
\* The initial state satisfies the inductive invariant.
LEMMA InitInv == Init => IInv
<1> SUFFICES ASSUME Init PROVE IInv
  OBVIOUS
<1>1. TypeOK
  BY DEF Init, TypeOK, Stage
<1>2. StageInv
  BY ServerAssumption DEF Init, StageInv, Running
<1>3. BundleInv /\ WireInv /\ ReturnInv
  BY DEF Init, BundleInv, WireInv, RecordedWasWritten, ReturnInv
<1>4. QED
  BY <1>1, <1>2, <1>3 DEF IInv

\* The peers' steps.
LEMMA PeerInv ==
    ASSUME IInv, NEW c \in Conn, PeerStep(c)
    PROVE  IInv'
<1> USE DEF PeerStep, Dial, SendRequest, Receive, GiveUp, Alive
<1>1. TypeOK'
  BY DEF IInv, TypeOK
<1>2. StageInv'
  BY DEF IInv, TypeOK, StageInv, Running
<1>3. BundleInv'
  BY DEF IInv, BundleInv
<1>4. WireInv'
  BY DEF IInv, TypeOK, WireInv, RecordedWasWritten
<1>5. ReturnInv'
  BY DEF IInv, ReturnInv, Running
<1>6. QED
  BY <1>1, <1>2, <1>3, <1>4, <1>5 DEF IInv

\* The accept loop's steps.
LEMMA AcceptInv ==
    ASSUME IInv, AcceptStep
    PROVE  IInv'
<1> USE ServerAssumption DEF IInv
<1>1. ASSUME NEW c \in Conn, AcceptConn(c)
      PROVE  IInv'
  <2> USE <1>1 DEF AcceptConn
  <2>1. TypeOK'
    BY DEF TypeOK
  <2>2. StageInv'
    BY DEF TypeOK, StageInv, Running
  <2>3. BundleInv' /\ WireInv' /\ ReturnInv'
    BY DEF BundleInv, WireInv, RecordedWasWritten, ReturnInv, Running
  <2>4. QED
    BY <2>1, <2>2, <2>3
<1>2. CASE AcceptFails \/ Drain
  <2> USE <1>2 DEF AcceptFails, Drain
  <2>1. TypeOK'
    BY DEF TypeOK
  <2>2. StageInv' /\ BundleInv' /\ WireInv' /\ ReturnInv'
    BY DEF StageInv, BundleInv, WireInv, RecordedWasWritten, ReturnInv, Running
  <2>3. QED
    BY <2>1, <2>2
<1>3. CASE Track
  <2> USE <1>3 DEF Track
  <2>0. accepted \in Conn
    BY DEF TypeOK
  <2>1. TypeOK'
    BY <2>0 DEF TypeOK, Stage
  <2>2. StageInv'
    BY <2>0 DEF TypeOK, StageInv, Running
  <2>3. stage[accepted] = "none"
    BY <2>0 DEF StageInv
  <2>4. BundleInv' /\ WireInv' /\ ReturnInv'
    BY <2>0, <2>3 DEF TypeOK, BundleInv, WireInv, RecordedWasWritten, ReturnInv, Running
  <2>5. QED
    BY <2>1, <2>2, <2>4
<1>4. QED
  BY <1>1, <1>2, <1>3 DEF AcceptStep

\* The handlers' steps.
LEMMA HandlerInv ==
    ASSUME IInv, NEW c \in Conn, HandlerStep(c)
    PROVE  IInv'
<1> USE DEF IInv
<1>1. CASE \/ ReadHeader(c) \/ HeaderFails(c) \/ Authenticate(c)
           \/ ReadHookBody(c) \/ ResolvePlan(c)
  <2> USE <1>1 DEF ReadHeader, HeaderFails, Authenticate, ReadHookBody, ResolvePlan, To
  <2>1. TypeOK'
    BY DEF TypeOK, Stage
  <2>2. StageInv'
    BY DEF TypeOK, StageInv, Running
  <2>3. BundleInv' /\ WireInv' /\ ReturnInv'
    BY DEF TypeOK, BundleInv, WireInv, RecordedWasWritten, ReturnInv, Running
  <2>4. QED
    BY <2>1, <2>2, <2>3
<1>2. CASE Refuse(c)
  <2> USE <1>2 DEF Refuse, To
  <2>1. TypeOK'
    BY DEF TypeOK, Stage
  <2>2. StageInv'
    BY DEF TypeOK, StageInv, Running
  <2>3. wire[c] # "bundle" /\ \A d \in Conn \ {c} : wire'[d] = wire[d] /\ stage'[d] = stage[d]
    BY DEF TypeOK, WireInv
  <2>4. stage'[c] = "close" /\ wire'[c] # "bundle"
    BY <2>3 DEF TypeOK
  <2>5. WireInv'
    BY <2>3, <2>4 DEF TypeOK, WireInv, RecordedWasWritten
  <2>6. BundleInv' /\ ReturnInv'
    BY DEF TypeOK, BundleInv, ReturnInv, Running
  <2>7. QED
    BY <2>1, <2>2, <2>5, <2>6
<1>3. CASE Build(c)
  <2> USE <1>3 DEF Build, To
  <2>1. TypeOK'
    BY DEF TypeOK, Stage
  <2>2. StageInv'
    BY DEF TypeOK, StageInv, Running
  <2>3. BundleInv' /\ WireInv' /\ ReturnInv'
    BY DEF TypeOK, BundleInv, WireInv, RecordedWasWritten, ReturnInv, Running
  <2>4. QED
    BY <2>1, <2>2, <2>3
<1>4. CASE Encode(c)
  <2> USE <1>4 DEF Encode, To
  <2>1. TypeOK'
    BY DEF TypeOK, Stage
  <2>2. StageInv'
    BY DEF TypeOK, StageInv, Running
  <2>3. wire[c] # "bundle" /\ \A d \in Conn \ {c} : wire'[d] = wire[d] /\ stage'[d] = stage[d]
    BY DEF TypeOK, WireInv
  <2>4. \/ stage'[c] = "finish" /\ wire'[c] = "part"
        \/ stage'[c] = "record" /\ wire'[c] = "bundle"
    BY DEF TypeOK
  <2>5. WireInv'
    BY <2>3, <2>4 DEF TypeOK, WireInv, RecordedWasWritten
  <2>6. BundleInv' /\ ReturnInv'
    BY DEF TypeOK, BundleInv, ReturnInv, Running
  <2>7. QED
    BY <2>1, <2>2, <2>5, <2>6
<1>5. CASE EncodeFails(c) \/ Record(c)
  <2> USE <1>5 DEF EncodeFails, Record, Destroy, To
  <2>1. TypeOK'
    BY DEF TypeOK, Stage
  <2>2. StageInv'
    BY DEF TypeOK, StageInv, Running
  <2>3. BundleInv' /\ WireInv' /\ ReturnInv'
    BY DEF TypeOK, BundleInv, WireInv, RecordedWasWritten, ReturnInv, Running
  <2>4. QED
    BY <2>1, <2>2, <2>3
<1>6. CASE CloseConn(c) \/ Untrack(c)
  <2> USE <1>6 DEF CloseConn, Untrack, To
  <2>1. TypeOK'
    BY DEF TypeOK, Stage
  <2>2. StageInv'
    BY DEF TypeOK, StageInv, Running
  <2>3. BundleInv' /\ WireInv' /\ ReturnInv'
    BY DEF TypeOK, BundleInv, WireInv, RecordedWasWritten, ReturnInv, Running
  <2>4. QED
    BY <2>1, <2>2, <2>3
<1>7. QED
  BY <1>1, <1>2, <1>3, <1>4, <1>5, <1>6 DEF HandlerStep

\* The steps of run.
LEMMA ShutdownInv ==
    ASSUME IInv, Cancel \/ ShutdownStep
    PROVE  IInv'
<1> USE DEF IInv, ShutdownStep
<1>1. CASE Cancel \/ Exit
  <2> USE <1>1 DEF Cancel, Exit
  <2>1. TypeOK'
    BY DEF TypeOK
  <2>2. StageInv' /\ BundleInv' /\ WireInv' /\ ReturnInv'
    BY DEF StageInv, BundleInv, WireInv, RecordedWasWritten, ReturnInv, Running
  <2>3. QED
    BY <2>1, <2>2
<1>2. CASE CloseListener \/ CloseConns
  <2> USE <1>2 DEF CloseListener, CloseConns
  <2>1. TypeOK'
    BY DEF TypeOK
  <2>2. StageInv'
    BY DEF TypeOK, StageInv, Running
  <2>3. BundleInv' /\ WireInv' /\ ReturnInv'
    BY DEF BundleInv, WireInv, RecordedWasWritten, ReturnInv, Running
  <2>4. QED
    BY <2>1, <2>2, <2>3
<1>3. QED
  BY <1>1, <1>2

\* The tasks' returns, and the calls that never return.
LEMMA TaskInv ==
    ASSUME IInv, (\E g \in Task : TaskReturns(g)) \/ (\E x \in Conn \cup Task : Wedge(x))
    PROVE  IInv'
<1> USE DEF IInv, TaskReturns, Wedge
<1>1. TypeOK'
  BY DEF TypeOK
<1>2. StageInv' /\ BundleInv' /\ WireInv'
  BY DEF StageInv, BundleInv, WireInv, RecordedWasWritten, Running
<1>3. ReturnInv'
  BY DEF ReturnInv, Running
<1>4. QED
  BY <1>1, <1>2, <1>3

\* Every step preserves the inductive invariant.
LEMMA NextInv == IInv /\ [Next]_vars => IInv'
<1> SUFFICES ASSUME IInv, [Next]_vars PROVE IInv'
  OBVIOUS
<1>1. CASE \E c \in Conn : PeerStep(c) \/ HandlerStep(c)
  BY <1>1, PeerInv, HandlerInv
<1>2. CASE AcceptStep
  BY <1>2, AcceptInv
<1>3. CASE Cancel \/ ShutdownStep
  BY <1>3, ShutdownInv
<1>4. CASE UNCHANGED vars
  BY <1>4 DEF vars, IInv, TypeOK, StageInv, BundleInv, WireInv, RecordedWasWritten,
              ReturnInv, Running
<1>5. CASE (\E g \in Task : TaskReturns(g)) \/ (\E x \in Conn \cup Task : Wedge(x))
  BY <1>5, TaskInv
<1>6. QED
  BY <1>1, <1>2, <1>3, <1>4, <1>5 DEF Next

\* The inductive invariant holds in every reachable state.
THEOREM InvariantHolds == Spec => []IInv
<1>1. QED
  BY InitInv, NextInv, PTL DEF Spec

\* Type correctness, for any set of connections.
THEOREM TypeCorrect == Spec => []TypeOK
<1>1. IInv => TypeOK
  BY DEF IInv
<1>2. QED
  BY <1>1, InvariantHolds, PTL

\* From accept to close, serve knows every open connection: close, run at any moment,
\* misses at most the one connection that is between AcceptUnix and track.
THEOREM NoConnectionEscapes == Spec => []OpenIsTracked
<1>1. IInv => OpenIsTracked
  <2> SUFFICES ASSUME IInv, NEW c \in Conn, sock[c] = "open", c # accepted
               PROVE  c \in conns
    BY DEF OpenIsTracked
  <2>1. Running(c)
    BY DEF IInv, StageInv, Running
  <2>2. QED
    BY <2>1 DEF IInv, StageInv
<1>2. QED
  BY <1>1, InvariantHolds, PTL

\* When run returns nothing of the daemon is left: the nested waits cover every
\* handler and every task, and every path of a handler closes its connection and destroys its bundle.
THEOREM CleanExit == Spec => []ExitLeavesNothing
<1>1. IInv => ExitLeavesNothing
  <2> SUFFICES ASSUME IInv, main = "exited"
               PROVE  (\A c \in Conn : ~Running(c) /\ sock[c] # "open") /\ bundle = {} /\ tasks = {}
    BY DEF ExitLeavesNothing
  <2>1. accept = "returned" /\ accepted = NoConn /\ tasks = {}
    BY DEF IInv, ReturnInv, TypeOK
  <2>2. \A c \in Conn : ~Running(c)
    BY <2>1 DEF IInv, ReturnInv
  <2>3. ASSUME NEW c \in Conn PROVE sock[c] # "open"
    BY <2>1, <2>2, <2>3, ServerAssumption DEF IInv, StageInv, Running
  <2>4. \A c \in bundle : c \in Conn /\ Running(c)
    BY DEF IInv, TypeOK, BundleInv, Running
  <2>5. QED
    BY <2>1, <2>2, <2>3, <2>4
<1>2. QED
  BY <1>1, InvariantHolds, PTL

\* Neither the ledger nor a peer ever takes a truncated bundle for a delivery.
THEOREM OnlyWholeBundlesCount == Spec => []RecordedWasWritten
<1>1. IInv => RecordedWasWritten
  BY DEF IInv, WireInv
<1>2. QED
  BY <1>1, InvariantHolds, PTL
=============================================================================
