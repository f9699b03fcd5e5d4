------------------------------- MODULE Server -------------------------------
(***************************************************************************)
(* The socket server of the daemon (internal/daemon/server.go): the accept *)
(* loop, one handler goroutine per connection, and the shutdown run makes  *)
(* when its context is cancelled (internal/daemon/daemon.go), against      *)
(* peers that send, stay silent, or give up at their deadline              *)
(* (internal/client/client.go, internal/hook/hook.go).                     *)
(*                                                                         *)
(* What a request asks for is abstracted to whether each stage of its      *)
(* handler succeeds; the stages, their early returns and the deferred      *)
(* calls keep the order of the code.                                       *)
(***************************************************************************)
CONSTANTS
    Conn,     \* connections that peers may make
    NoConn,   \* no connection
    Task      \* the goroutines run starts beside serve: the event loop, and the
              \* reconcile and the digest when they are enabled

ASSUME ServerAssumption == NoConn \notin Conn /\ Conn \cap Task = {}

VARIABLES
    main,      \* run: "up", "cancelled", "closing" (listener closed, connections not
               \* yet), "waiting" for its goroutines, "exited"
    listening, \* the listener is open
    accept,    \* serve: "accept", "track", "drain" (wg.Wait), "returned"
    accepted,  \* the connection AcceptUnix returned and serve has not tracked
    conns,     \* the tracked connections
    sock,      \* the server's end: "none", "backlog", "open", "closed"
    stage,     \* where the handler of a connection is
    bundle,    \* connections whose handler holds a bundle in locked memory
    wire,      \* what the server has written: "none", "part", "bundle", "error"
    peer,      \* the client: "idle", "silent", "sent", "served", "refused", "gone"
    sent,      \* what of the request is in the socket: "none", "fetch" (all of it),
               \* "header" of a hook request, "hook" (all of it)
    ledger,    \* connections whose injection is in the ledger's map
    gaps,      \* connections whose record was skipped, which the log says
    tasks,     \* the tasks that have not returned
    wedged     \* tasks and handlers in a call that never returns

ledgerVars == <<ledger, gaps>>
taskVars == <<tasks, wedged>>
vars == <<main, listening, accept, accepted, conns, sock, stage, bundle, wire, peer, sent,
          ledgerVars, taskVars>>

Stage == {"none", "header", "auth", "body", "resolve", "build", "encode", "finish",
          "record", "close", "untrack", "done"}
Running(c) == stage[c] \notin {"none", "done"}
Alive(c) == peer[c] \in {"silent", "sent"}

Init ==
    /\ main = "up"
    /\ listening = TRUE
    /\ accept = "accept"
    /\ accepted = NoConn
    /\ conns = {}
    /\ sock = [c \in Conn |-> "none"]
    /\ stage = [c \in Conn |-> "none"]
    /\ bundle = {}
    /\ wire = [c \in Conn |-> "none"]
    /\ peer = [c \in Conn |-> "idle"]
    /\ sent = [c \in Conn |-> "none"]
    /\ ledger = {}
    /\ gaps = {}
    /\ tasks = Task
    /\ wedged = {}

-----------------------------------------------------------------------------
\* The peer: Fetch of the client or of the hook.

\* The dial succeeds as long as the listener is open, accepted or not.
Dial(c) ==
    /\ peer[c] = "idle"
    /\ listening
    /\ peer' = [peer EXCEPT ![c] = "silent"]
    /\ sock' = [sock EXCEPT ![c] = "backlog"]
    /\ UNCHANGED <<main, listening, accept, accepted, conns, stage, bundle, wire, sent,
                   ledgerVars, taskVars>>

\* WriteRequest, the header alone, or WriteHookRequest, whose body follows it.
SendRequest(c) ==
    /\ peer[c] = "silent"
    /\ \/ /\ sent[c] = "none"
          /\ sent' = [sent EXCEPT ![c] = "fetch"]
          /\ peer' = [peer EXCEPT ![c] = "sent"]
       \/ /\ sent[c] = "none"
          /\ sent' = [sent EXCEPT ![c] = "header"]
          /\ UNCHANGED peer
       \/ /\ sent[c] = "header"
          /\ sent' = [sent EXCEPT ![c] = "hook"]
          /\ peer' = [peer EXCEPT ![c] = "sent"]
    /\ UNCHANGED <<main, listening, accept, accepted, conns, sock, stage, bundle, wire,
                   ledgerVars, taskVars>>

\* ReadResponse: a whole bundle, the error frame, or a truncated answer.
Receive(c) ==
    /\ peer[c] = "sent"
    /\ \/ wire[c] = "bundle" /\ peer' = [peer EXCEPT ![c] = "served"]
       \/ wire[c] = "error" /\ peer' = [peer EXCEPT ![c] = "refused"]
       \/ wire[c] \in {"none", "part"} /\ sock[c] = "closed"
          /\ peer' = [peer EXCEPT ![c] = "gone"]
    /\ UNCHANGED <<main, listening, accept, accepted, conns, sock, stage, bundle, wire,
                   sent, ledgerVars, taskVars>>

\* The deadline of the whole exchange passes, or the peer dies.
GiveUp(c) ==
    /\ Alive(c)
    /\ peer' = [peer EXCEPT ![c] = "gone"]
    /\ UNCHANGED <<main, listening, accept, accepted, conns, sock, stage, bundle, wire,
                   sent, ledgerVars, taskVars>>

-----------------------------------------------------------------------------
\* serve.

AcceptConn(c) ==
    /\ accept = "accept"
    /\ listening
    /\ sock[c] = "backlog"
    /\ sock' = [sock EXCEPT ![c] = "open"]
    /\ accepted' = c
    /\ accept' = "track"
    /\ UNCHANGED <<main, listening, conns, stage, bundle, wire, peer, sent,
                   ledgerVars, taskVars>>

\* Mutated form: the accept loop returns without waiting for its handlers.
AcceptFails_NoWait ==
    /\ accept = "accept"
    /\ ~listening \/ \E c \in Conn : sock[c] = "backlog"
    /\ accept' = "returned"
    /\ UNCHANGED <<main, listening, accepted, conns, sock, stage, bundle, wire, peer, sent,
                   ledgerVars, taskVars>>

\* AcceptUnix fails, with the listener closed or with no descriptor left for a
\* waiting connection: either way the loop is over.
AcceptFails ==
    /\ accept = "accept"
    /\ ~listening \/ \E c \in Conn : sock[c] = "backlog"
    /\ accept' = "drain"
    /\ UNCHANGED <<main, listening, accepted, conns, sock, stage, bundle, wire, peer, sent,
                   ledgerVars, taskVars>>

\* Mutated form: the loop still holds the connection it handed to a handler.
Track_KeepsAccepted ==
    /\ accept = "track"
    /\ conns' = conns \cup {accepted}
    /\ stage' = [stage EXCEPT ![accepted] = "header"]
    /\ accept' = "accept"
    /\ UNCHANGED <<main, listening, accepted, sock, bundle, wire, peer, sent,
                   ledgerVars, taskVars>>

\* track, and the goroutine of the handler starts.
Track ==
    /\ accept = "track"
    /\ conns' = conns \cup {accepted}
    /\ stage' = [stage EXCEPT ![accepted] = "header"]
    /\ accepted' = NoConn
    /\ accept' = "accept"
    /\ UNCHANGED <<main, listening, sock, bundle, wire, peer, sent,
                   ledgerVars, taskVars>>

\* wg.Wait returns.
Drain ==
    /\ accept = "drain"
    /\ \A c \in Conn : ~Running(c)
    /\ accept' = "returned"
    /\ UNCHANGED <<main, listening, accepted, conns, sock, stage, bundle, wire, peer, sent,
                   ledgerVars, taskVars>>

-----------------------------------------------------------------------------
\* handle, handleFetch and handleHook.

To(c, s) == stage' = [stage EXCEPT ![c] = s]

\* ReadRequestHeader returns a request, also one whose peer has gone since, and the
\* fetch or the hook path takes it.
ReadHeader(c) ==
    /\ stage[c] = "header"
    /\ sock[c] = "open" /\ sent[c] # "none"
    /\ To(c, IF sent[c] = "fetch" THEN "auth" ELSE "body")
    /\ UNCHANGED <<main, listening, accept, accepted, conns, sock, bundle, wire, peer, sent,
                   ledgerVars, taskVars>>

\* A read that waits for bytes ends without them.
ReadFails(c) == sock[c] = "closed" \/ peer[c] = "gone"

\* Mutated form: a failed read is tried again.
HeaderFails_Retried(c) ==
    /\ stage[c] = "header"
    /\ ReadFails(c) \/ sent[c] # "none"
    /\ UNCHANGED vars

\* The read fails, or the frame is of another version or type.
HeaderFails(c) ==
    /\ stage[c] = "header"
    /\ ReadFails(c) \/ sent[c] # "none"
    /\ To(c, "close")
    /\ UNCHANGED <<main, listening, accept, accepted, conns, sock, bundle, wire, peer, sent,
                   ledgerVars, taskVars>>

\* The fetch path: the peer is a container.
Authenticate(c) ==
    /\ stage[c] = "auth"
    /\ To(c, "resolve")
    /\ UNCHANGED <<main, listening, accept, accepted, conns, sock, bundle, wire, peer, sent,
                   ledgerVars, taskVars>>

\* The hook path: ReadHookBody returns the id and the annotations.
ReadHookBody(c) ==
    /\ stage[c] = "body"
    /\ sock[c] = "open" /\ sent[c] = "hook"
    /\ To(c, "resolve")
    /\ UNCHANGED <<main, listening, accept, accepted, conns, sock, bundle, wire, peer, sent,
                   ledgerVars, taskVars>>

\* There is a plan, of the hook mechanism on the hook path.
ResolvePlan(c) ==
    /\ stage[c] = "resolve"
    /\ To(c, "build")
    /\ UNCHANGED <<main, listening, accept, accepted, conns, sock, bundle, wire, peer, sent,
                   ledgerVars, taskVars>>

\* Any of these, or BuildBundle, fails: WriteError, whose own failure is ignored. A
\* bundle half built is destroyed by BuildBundle. The body may also fail to parse.
Refuse(c) ==
    /\ stage[c] \in {"auth", "body", "resolve", "build"}
    /\ stage[c] = "body" => ReadFails(c) \/ sent[c] = "hook"
    /\ wire' = IF sock[c] = "open" /\ Alive(c) THEN [wire EXCEPT ![c] = "error"] ELSE wire
    /\ To(c, "close")
    /\ UNCHANGED <<main, listening, accept, accepted, conns, sock, bundle, peer, sent,
                   ledgerVars, taskVars>>

\* BuildBundle returns: the secrets are in locked memory until Destroy.
Build(c) ==
    /\ stage[c] = "build"
    /\ bundle' = bundle \cup {c}
    /\ To(c, "encode")
    /\ UNCHANGED <<main, listening, accept, accepted, conns, sock, wire, peer, sent,
                   ledgerVars, taskVars>>

\* EncodeBundle streams the bundle: some of it is on the wire, then all of it.
Encode(c) ==
    /\ sock[c] = "open" /\ Alive(c)
    /\ \/ /\ stage[c] = "encode"
          /\ wire' = [wire EXCEPT ![c] = "part"]
          /\ To(c, "finish")
       \/ /\ stage[c] = "finish"
          /\ wire' = [wire EXCEPT ![c] = "bundle"]
          /\ To(c, "record")
    /\ UNCHANGED <<main, listening, accept, accepted, conns, sock, bundle, peer, sent,
                   ledgerVars, taskVars>>

\* The deferred Destroy of the bundle.
Destroy(c) == bundle' = bundle \ {c}

\* Mutated form: the injection is recorded although the bundle was not written.
EncodeFails_Recorded(c) ==
    /\ stage[c] \in {"encode", "finish"}
    /\ ledger' = ledger \cup {c}
    /\ Destroy(c)
    /\ To(c, "close")
    /\ UNCHANGED <<main, listening, accept, accepted, conns, sock, wire, peer, sent, gaps,
                   taskVars>>

\* A write fails, or a field is too long for its frame: nothing is recorded.
EncodeFails(c) ==
    /\ stage[c] \in {"encode", "finish"}
    /\ Destroy(c)
    /\ To(c, "close")
    /\ UNCHANGED <<main, listening, accept, accepted, conns, sock, wire, peer, sent,
                   ledgerVars, taskVars>>

\* Mutated form: a cancelled daemon skips the record.
Record_UnlessCancelled(c) ==
    /\ stage[c] = "record"
    /\ ledger' = IF main = "up" THEN ledger \cup {c} ELSE ledger
    /\ Destroy(c)
    /\ To(c, "close")
    /\ UNCHANGED <<main, listening, accept, accepted, conns, sock, wire, peer, sent, gaps,
                   taskVars>>

\* recordFromBundleManifest, after which the handler returns: the manifest does not
\* parse, which is logged, or recordInjection puts the record into the map, where a
\* save that fails and is only logged leaves it.
Record(c) ==
    /\ stage[c] = "record"
    /\ \/ ledger' = ledger \cup {c} /\ gaps' = gaps
       \/ ledger' = ledger /\ gaps' = gaps \cup {c}
    /\ Destroy(c)
    /\ To(c, "close")
    /\ UNCHANGED <<main, listening, accept, accepted, conns, sock, wire, peer, sent, taskVars>>

\* Mutated form: the deferred calls run in the opposite order.
CloseConn_UntrackFirst(c) ==
    /\ stage[c] = "close"
    /\ conns' = conns \ {c}
    /\ To(c, "untrack")
    /\ UNCHANGED <<main, listening, accept, accepted, sock, bundle, wire, peer, sent,
                   ledgerVars, taskVars>>

\* The deferred conn.Close ...
CloseConn(c) ==
    /\ stage[c] = "close"
    /\ sock' = [sock EXCEPT ![c] = "closed"]
    /\ To(c, "untrack")
    /\ UNCHANGED <<main, listening, accept, accepted, conns, bundle, wire, peer, sent,
                   ledgerVars, taskVars>>

\* ... then untrack and wg.Done.
Untrack(c) ==
    /\ stage[c] = "untrack"
    /\ conns' = conns \ {c}
    /\ To(c, "done")
    /\ UNCHANGED <<main, listening, accept, accepted, sock, bundle, wire, peer, sent,
                   ledgerVars, taskVars>>

-----------------------------------------------------------------------------
\* run.

Cancel ==
    /\ main = "up"
    /\ main' = "cancelled"
    /\ UNCHANGED <<listening, accept, accepted, conns, sock, stage, bundle, wire, peer, sent,
                   ledgerVars, taskVars>>

\* close: the listener first, which resets the connections nobody accepted ...
CloseListener ==
    /\ main = "cancelled"
    /\ main' = "closing"
    /\ listening' = FALSE
    /\ sock' = [c \in Conn |-> IF sock[c] = "backlog" THEN "closed" ELSE sock[c]]
    /\ UNCHANGED <<accept, accepted, conns, stage, bundle, wire, peer, sent,
                   ledgerVars, taskVars>>

\* ... then, under the mutex, every tracked connection.
CloseConns ==
    /\ main = "closing"
    /\ main' = "waiting"
    /\ sock' = [c \in Conn |-> IF c \in conns THEN "closed" ELSE sock[c]]
    /\ UNCHANGED <<listening, accept, accepted, conns, stage, bundle, wire, peer, sent,
                   ledgerVars, taskVars>>

\* runLoop, runReconcile or runDigest sees the cancelled context and returns, from
\* between two of its passes.
TaskReturns(g) ==
    /\ g \in tasks \ wedged
    /\ main # "up"
    /\ tasks' = tasks \ {g}
    /\ UNCHANGED <<main, listening, accept, accepted, conns, sock, stage, bundle, wire, peer,
                   sent, ledgerVars, wedged>>

\* A call out of the daemon never returns, whatever becomes of the context: to the
\* runtime, to sops or to the sink, made by a task or by a handler.
Wedge(x) ==
    /\ x \in (tasks \cup {c \in Conn : stage[c] \in {"auth", "resolve", "build"}}) \ wedged
    /\ wedged' = wedged \cup {x}
    /\ UNCHANGED <<main, listening, accept, accepted, conns, sock, stage, bundle, wire, peer,
                   sent, ledgerVars, tasks>>

\* run's own wg.Wait: serve and every task have returned.
Exit ==
    /\ main = "waiting"
    /\ accept = "returned"
    /\ tasks = {}
    /\ main' = "exited"
    /\ UNCHANGED <<listening, accept, accepted, conns, sock, stage, bundle, wire, peer, sent,
                   ledgerVars, taskVars>>

-----------------------------------------------------------------------------
PeerStep(c) == Dial(c) \/ SendRequest(c) \/ Receive(c) \/ GiveUp(c)
HandlerStep(c) ==
    /\ c \notin wedged
    /\ \/ ReadHeader(c) \/ HeaderFails(c) \/ Authenticate(c) \/ ReadHookBody(c)
       \/ ResolvePlan(c) \/ Refuse(c) \/ Build(c) \/ Encode(c) \/ EncodeFails(c)
       \/ Record(c) \/ CloseConn(c) \/ Untrack(c)
AcceptStep == (\E c \in Conn : AcceptConn(c)) \/ AcceptFails \/ Track \/ Drain
ShutdownStep == CloseListener \/ CloseConns \/ Exit

Next ==
    \/ \E c \in Conn : PeerStep(c) \/ HandlerStep(c)
    \/ AcceptStep
    \/ Cancel
    \/ ShutdownStep
    \/ \E g \in Task : TaskReturns(g)
    \/ \E x \in Conn \cup Task : Wedge(x)

\* Goroutines make progress except in a call that never returns, and a peer's deadline
\* passes; nothing makes the operator cancel, or a peer dial or send.
Fairness ==
    /\ \A c \in Conn : WF_vars(HandlerStep(c)) /\ WF_vars(GiveUp(c))
    /\ WF_vars(AcceptStep)
    /\ WF_vars(ShutdownStep)
    /\ \A g \in Task : WF_vars(TaskReturns(g))

Spec == Init /\ [][Next]_vars
FairSpec == Spec /\ Fairness

-----------------------------------------------------------------------------
\* Type invariant.
TypeOK ==
    /\ main \in {"up", "cancelled", "closing", "waiting", "exited"}
    /\ listening \in BOOLEAN
    /\ accept \in {"accept", "track", "drain", "returned"}
    /\ accepted \in Conn \cup {NoConn}
    /\ (accept = "track") <=> (accepted # NoConn)
    /\ conns \subseteq Conn
    /\ sock \in [Conn -> {"none", "backlog", "open", "closed"}]
    /\ stage \in [Conn -> Stage]
    /\ bundle \subseteq Conn
    /\ wire \in [Conn -> {"none", "part", "bundle", "error"}]
    /\ peer \in [Conn -> {"idle", "silent", "sent", "served", "refused", "gone"}]
    /\ sent \in [Conn -> {"none", "fetch", "header", "hook"}]
    /\ ledger \subseteq Conn
    /\ gaps \subseteq Conn
    /\ tasks \subseteq Task
    /\ wedged \subseteq Conn \cup Task

\* No open connection escapes the bookkeeping: it is tracked, or it is the one serve
\* is about to track, from accept until the handler has closed it. What close cannot
\* find in conns it cannot close.
OpenIsTracked ==
    \A c \in Conn : sock[c] = "open" => c \in conns \/ c = accepted

\* When run returns, no handler and no task is at work, no connection is open and no
\* secret is left in a bundle's locked memory.
ExitLeavesNothing ==
    main = "exited" => /\ \A c \in Conn : ~Running(c) /\ sock[c] # "open"
                       /\ bundle = {}
                       /\ tasks = {}

\* The ledger records what was delivered: only a connection that the whole bundle was
\* written to, and no peer takes a truncated bundle for a whole one.
RecordedWasWritten ==
    /\ \A c \in ledger : wire[c] = "bundle"
    /\ \A c \in Conn : peer[c] = "served" => wire[c] = "bundle"

\* No delivery goes unnoticed, also when the daemon is shutting down: a served
\* container enters the ledger's map, or the log names the gap the skipped record left.
\* Whether the record then reaches the file `berm stale` reads is a matter of Ledger.
ServedIsRecorded == \A c \in Conn : peer[c] = "served" ~> c \in ledger \cup gaps

\* A cancelled daemon exits, given that its peers' deadlines pass, unless a call it
\* made to the runtime, to sops or to the sink never returns: run waits for the event
\* loop, the reconcile and the digest as for the handlers, and has no deadline.
ShutdownCompletes == main = "cancelled" ~> main = "exited" \/ wedged # {}
=============================================================================
