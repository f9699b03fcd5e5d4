--------------------------- MODULE VolumeDelivery ---------------------------
(***************************************************************************)
(* Volume-mode delivery: pushVolume (internal/daemon/loop.go) and          *)
(* ApplyVolume (internal/delivery/volume.go), driven by two goroutines at  *)
(* once, the event loop (a start event, whatever the volume holds) and the *)
(* reconcile pass (a missing manifest), against source rotation, delivery  *)
(* errors, daemon crashes and the gated deployment the manifest releases.  *)
(*                                                                         *)
(* A source is a version number: its secrets and its ciphertext hash both  *)
(* change with every rotation. Every value is decrypted afresh, the many   *)
(* values of a render one after the other, so what counts of a file is its *)
(* oldest value: the first one decrypted.                                  *)
(* A push takes the lock of its container, not of the volume, and replicas *)
(* of one service share a volume.                                          *)
(***************************************************************************)
EXTENDS Naturals

CONSTANTS
    Container,   \* volume-mode containers of one service
    Volume,      \* tmpfs named volumes
    VolumeOf,    \* the volume each container's labels name
    Source,      \* sealed sources
    NFiles,      \* files and renders of the plan, written in order 1..NFiles
    SourceOf,    \* the source of each file
    NoManifest,  \* no manifest in the volume
    NoRecord,    \* no record in the ledger
    MaxVersion,  \* bound: rotations of a source
    MaxStarts,   \* bound: starts of one container
    MaxFailures, \* bound: failed deliveries
    MaxCrashes   \* bound: daemon crashes

File == 1..NFiles
Hashes == [Source -> Nat]

ASSUME VolumeAssumption ==
    /\ Container # {}
    /\ NFiles \in Nat \ {0}
    /\ VolumeOf \in [Container -> Volume]
    /\ SourceOf \in [1..NFiles -> Source]
    /\ NoManifest \notin [Source -> Nat]
    /\ NoRecord \notin [Source -> Nat]
    /\ {MaxVersion, MaxStarts, MaxFailures, MaxCrashes} \subseteq Nat

Pusher == {"loop", "reconcile"}

VARIABLES
    up,         \* the daemon runs
    version,    \* the current version of each source; the first is 1
    content,    \* the version of the oldest value in each file of a volume, 0 while
                \* the file, or part of an envdir render, is missing
    manifest,   \* the hashes in a volume's manifest
    ledger,     \* the hashes the daemon's ledger holds for each container
    saved,      \* the ledger file, which a restart loads
    holder,     \* the goroutine holding each container's keyed lock
    pc,         \* where each goroutine is in pushVolume
    target,     \* the container it pushes
    next,       \* the file it writes next
    plain,      \* the version it decrypted first for that file
    hashes,     \* the hashes BuildManifest has read so far, 0 where it has not
    app,        \* each container: created and gated, running, or exited
    starts,     \* starts of each container so far
    events,     \* start events of each container not yet handled
    failures, crashes,
    \* history, read by no action:
    began,      \* the versions when the push took its lock
    since,      \* the versions when the push of the container's record took its lock
    told        \* the container's record is of the last push that touched its volume

pushVars == <<holder, pc, target, next, plain, hashes>>
appVars == <<app, starts>>
histVars == <<began, since, told>>
ledgerVars == <<ledger, saved>>
faultVars == <<failures, crashes>>
vars == <<up, version, content, manifest, ledger, saved, holder, pc, target, next, plain,
          hashes, app, starts, events, failures, crashes, began, since, told>>

NoHashes == [s \in Source |-> 0]
NoFiles == [f \in File |-> 0]
Free == "free"
Nobody == CHOOSE c \in Container : TRUE    \* the target of an idle goroutine
Sharers(c) == {b \in Container : VolumeOf[b] = VolumeOf[c]}

\* Goroutine p is inside the lock of its target.
Pushing(p) == pc[p] \notin {"idle", "lock"}
PushingTo(v) == {p \in Pusher : Pushing(p) /\ VolumeOf[target[p]] = v}

Init ==
    /\ up = TRUE
    /\ version = [s \in Source |-> 1]
    /\ content = [v \in Volume |-> NoFiles]
    /\ manifest = [v \in Volume |-> NoManifest]
    /\ ledger = [c \in Container |-> NoRecord]
    /\ saved = ledger
    /\ holder = [c \in Container |-> Free]
    /\ pc = [p \in Pusher |-> "idle"]
    /\ target = [p \in Pusher |-> Nobody]
    /\ next = [p \in Pusher |-> 1]
    /\ plain = [p \in Pusher |-> 0]
    /\ hashes = [p \in Pusher |-> NoHashes]
    /\ app = [c \in Container |-> "created"]
    /\ starts = [c \in Container |-> 0]
    /\ events = [c \in Container |-> 0]
    /\ failures = 0
    /\ crashes = 0
    /\ began = [p \in Pusher |-> NoHashes]
    /\ since = [c \in Container |-> NoHashes]
    /\ told = [c \in Container |-> FALSE]
-----------------------------------------------------------------------------
\* Taking a container to push, and the keyed lock.

\* Mutated form: the pass pushes only to running containers.
ReconcileFinds_RunningOnly(c) ==
    /\ up
    /\ pc["reconcile"] = "idle"
    /\ app[c] = "running"
    /\ manifest[VolumeOf[c]] = NoManifest
    /\ pc' = [pc EXCEPT !["reconcile"] = "lock"]
    /\ target' = [target EXCEPT !["reconcile"] = c]
    /\ UNCHANGED <<up, version, content, manifest, ledgerVars, holder, next, plain, hashes,
                   appVars, events, faultVars, histVars>>

\* reconcileVolumes meets a container, in whatever state, whose volume has no
\* manifest; the check is made before the lock is taken.
ReconcileFinds(c) ==
    /\ up
    /\ pc["reconcile"] = "idle"
    /\ manifest[VolumeOf[c]] = NoManifest
    /\ pc' = [pc EXCEPT !["reconcile"] = "lock"]
    /\ target' = [target EXCEPT !["reconcile"] = c]
    /\ UNCHANGED <<up, version, content, manifest, ledgerVars, holder, next, plain, hashes,
                   appVars, events, faultVars, histVars>>

\* handleStart of a volume-mode container.
HandleStart(c) ==
    /\ up
    /\ pc["loop"] = "idle"
    /\ events[c] > 0
    /\ events' = [events EXCEPT ![c] = @ - 1]
    /\ pc' = [pc EXCEPT !["loop"] = "lock"]
    /\ target' = [target EXCEPT !["loop"] = c]
    /\ UNCHANGED <<up, version, content, manifest, ledgerVars, holder, next, plain, hashes,
                   appVars, faultVars, histVars>>

\* handleStart returns early: the inspect or the resolve failed.
HandleStartFails(c) ==
    /\ up
    /\ pc["loop"] = "idle"
    /\ events[c] > 0
    /\ failures < MaxFailures
    /\ events' = [events EXCEPT ![c] = @ - 1]
    /\ failures' = failures + 1
    /\ UNCHANGED <<up, version, content, manifest, ledgerVars, pushVars, appVars, crashes,
                   histVars>>

\* The push has the lock; what follows may change the volume under every sharer.
EnterPush(p) ==
    LET v == VolumeOf[target[p]] IN
    /\ pc[p] = "lock"
    /\ pc' = [pc EXCEPT ![p] = "open"]
    /\ began' = [began EXCEPT ![p] = version]
    /\ told' = [c \in Container |-> told[c] /\ VolumeOf[c] # v]
    /\ UNCHANGED <<up, version, content, manifest, ledgerVars, target, next, plain, hashes,
                   appVars, events, faultVars, since>>

\* Mutated form: the keyed lock is taken without waiting for its holder.
TakeLock_NoWait(p) ==
    /\ EnterPush(p)
    /\ holder' = [holder EXCEPT ![target[p]] = p]

\* keyedMutex.lock.
TakeLock(p) ==
    /\ holder[target[p]] = Free
    /\ EnterPush(p)
    /\ holder' = [holder EXCEPT ![target[p]] = p]

\* The push returns: the deferred unlock runs.
EndPush(p) ==
    /\ pc' = [pc EXCEPT ![p] = "idle"]
    /\ holder' = [holder EXCEPT ![target[p]] = Free]
    /\ target' = [target EXCEPT ![p] = Nobody]
    /\ next' = [next EXCEPT ![p] = 1]
    /\ plain' = [plain EXCEPT ![p] = 0]
    /\ hashes' = [hashes EXCEPT ![p] = NoHashes]
    /\ began' = [began EXCEPT ![p] = NoHashes]

-----------------------------------------------------------------------------
\* ApplyVolume.

\* What a handle on source s decrypts, and what its sealed file hashes to, as they
\* stand now.
OpenSource(s) == version[s]
SourceCipherHash(s) == version[s]

\* WriteFile and WriteRender decrypt the file's source into a temp file.
Decrypt(p) ==
    /\ pc[p] = "open"
    /\ plain' = [plain EXCEPT ![p] = OpenSource(SourceOf[next[p]])]
    /\ pc' = [pc EXCEPT ![p] = "publish"]
    /\ UNCHANGED <<up, version, content, manifest, ledgerVars, holder, target, next, hashes,
                   appVars, events, faultVars, histVars>>

\* Mutated form: an off-by-one leaves the last file to the next push.
PublishFile_SkipsLast(p) ==
    LET v == VolumeOf[target[p]] IN
    /\ pc[p] = "publish"
    /\ content' = [content EXCEPT ![v][next[p]] = plain[p]]
    /\ IF next[p] < NFiles - 1
       THEN /\ next' = [next EXCEPT ![p] = @ + 1]
            /\ pc' = [pc EXCEPT ![p] = "open"]
       ELSE /\ next' = next
            /\ pc' = [pc EXCEPT ![p] = "hash"]
    /\ UNCHANGED <<up, version, manifest, ledgerVars, holder, target, plain, hashes,
                   appVars, events, faultVars, histVars>>

\* Mutated form: the write loop runs past the end of the plan.
PublishFile_Overruns(p) ==
    LET v == VolumeOf[target[p]] IN
    /\ pc[p] = "publish"
    /\ content' = [content EXCEPT ![v][next[p]] = plain[p]]
    /\ next' = [next EXCEPT ![p] = @ + 1]
    /\ pc' = [pc EXCEPT ![p] = IF next[p] < NFiles THEN "open" ELSE "hash"]
    /\ UNCHANGED <<up, version, manifest, ledgerVars, holder, target, plain, hashes,
                   appVars, events, faultVars, histVars>>

\* The rename (of an envdir render, the last one) lands the file; after the last file
\* the manifest is built.
PublishFile(p) ==
    LET v == VolumeOf[target[p]] IN
    /\ pc[p] = "publish"
    /\ content' = [content EXCEPT ![v][next[p]] = plain[p]]
    /\ IF next[p] < NFiles
       THEN /\ next' = [next EXCEPT ![p] = @ + 1]
            /\ pc' = [pc EXCEPT ![p] = "open"]
       ELSE /\ next' = next
            /\ pc' = [pc EXCEPT ![p] = "hash"]
    /\ UNCHANGED <<up, version, manifest, ledgerVars, holder, target, plain, hashes,
                   appVars, events, faultVars, histVars>>

\* The first file of the plan whose source BuildManifest has not hashed yet.
FirstUnhashed(p, f) ==
    /\ hashes[p][SourceOf[f]] = 0
    /\ \A g \in 1..(f - 1) : hashes[p][SourceOf[g]] # 0

\* BuildManifest walks the plan and reads the hash of each source once, from the
\* sealed file as it stands now; it runs for the manifest and again for the ledger.
HashSource(p, f) ==
    /\ pc[p] \in {"hash", "rehash"}
    /\ FirstUnhashed(p, f)
    /\ hashes' = [hashes EXCEPT ![p][SourceOf[f]] = SourceCipherHash(SourceOf[f])]
    /\ pc' = [pc EXCEPT ![p] =
                IF \E g \in File : SourceOf[g] # SourceOf[f] /\ hashes[p][SourceOf[g]] = 0
                THEN @
                ELSE IF @ = "hash" THEN "manifest" ELSE "record"]
    /\ UNCHANGED <<up, version, content, manifest, ledgerVars, holder, target, next, plain,
                   appVars, events, faultVars, histVars>>

\* WriteManifest: the ready signal appears, or is replaced, in one rename.
PublishManifest(p) ==
    /\ pc[p] = "manifest"
    /\ manifest' = [manifest EXCEPT ![VolumeOf[target[p]]] = hashes[p]]
    /\ hashes' = [hashes EXCEPT ![p] = NoHashes]
    /\ pc' = [pc EXCEPT ![p] = "rehash"]
    /\ UNCHANGED <<up, version, content, ledgerVars, holder, target, next, plain, appVars,
                   events, faultVars, histVars>>

\* The record is in the ledger and its push over. The save that follows may fail, which
\* is only logged, or lose to an older snapshot: the file then stays behind the map.
RecordEnds(p) ==
    /\ saved' \in {saved, ledger'}
    /\ since' = [since EXCEPT ![target[p]] = began[p]]
    /\ told' = [told EXCEPT ![target[p]] = TRUE]
    /\ EndPush(p)
    /\ UNCHANGED <<up, version, content, manifest, appVars, events, faultVars>>

\* Mutated form: a record already in the ledger is kept.
Record_KeepsFirst(p) ==
    /\ pc[p] = "record"
    /\ ledger' = [ledger EXCEPT ![target[p]] = IF @ = NoRecord THEN hashes[p] ELSE @]
    /\ RecordEnds(p)

\* recordInjection replaces the container's record and saves the ledger.
Record(p) ==
    /\ pc[p] = "record"
    /\ ledger' = [ledger EXCEPT ![target[p]] = hashes[p]]
    /\ RecordEnds(p)

\* A decrypt, a write or a hash fails: the push ends where it stands, and what it
\* has written stays.
PushFails(p) ==
    /\ pc[p] \in {"open", "publish", "hash", "manifest", "rehash"}
    /\ failures < MaxFailures
    /\ failures' = failures + 1
    /\ EndPush(p)
    /\ UNCHANGED <<up, version, content, manifest, ledgerVars, appVars, events, crashes,
                   since, told>>

-----------------------------------------------------------------------------
\* The operator, the runtime and the daemon process.

\* A sealed source is replaced.
Rotate(s) ==
    /\ version[s] < MaxVersion
    /\ version' = [version EXCEPT ![s] = @ + 1]
    /\ UNCHANGED <<up, content, manifest, ledgerVars, pushVars, appVars, events, faultVars,
                   histVars>>

\* A running daemon is told of the start.
Start(c) ==
    /\ starts[c] < MaxStarts
    /\ starts' = [starts EXCEPT ![c] = @ + 1]
    /\ app' = [app EXCEPT ![c] = "running"]
    /\ events' = IF up THEN [events EXCEPT ![c] = @ + 1] ELSE events

\* The waiter's ManifestReady turns true and the gated container starts.
GatedStart(c) ==
    /\ app[c] = "created"
    /\ manifest[VolumeOf[c]] # NoManifest
    /\ Start(c)
    /\ UNCHANGED <<up, version, content, manifest, ledgerVars, pushVars, faultVars, histVars>>

Exit(c) ==
    /\ app[c] = "running"
    /\ app' = [app EXCEPT ![c] = "exited"]
    /\ UNCHANGED <<up, version, content, manifest, ledgerVars, pushVars, starts, events,
                   faultVars, histVars>>

\* A restart of the container alone does not pass the waiter again.
Restart(c) ==
    /\ app[c] = "exited"
    /\ Start(c)
    /\ UNCHANGED <<up, version, content, manifest, ledgerVars, pushVars, faultVars, histVars>>

\* The daemon dies: its goroutines, locks, unread events and the ledger in its memory
\* are gone. The next daemon knows what the ledger file holds.
CrashDaemon ==
    /\ up
    /\ crashes < MaxCrashes
    /\ crashes' = crashes + 1
    /\ up' = FALSE
    /\ pc' = [p \in Pusher |-> "idle"]
    /\ holder' = [c \in Container |-> Free]
    /\ target' = [p \in Pusher |-> Nobody]
    /\ next' = [p \in Pusher |-> 1]
    /\ plain' = [p \in Pusher |-> 0]
    /\ hashes' = [p \in Pusher |-> NoHashes]
    /\ events' = [c \in Container |-> 0]
    /\ began' = [p \in Pusher |-> NoHashes]
    /\ ledger' = saved
    /\ told' = [c \in Container |-> told[c] /\ saved[c] = ledger[c]]
    /\ UNCHANGED <<version, content, manifest, saved, appVars, failures, since>>

StartDaemon ==
    /\ ~up
    /\ up' = TRUE
    /\ UNCHANGED <<version, content, manifest, ledgerVars, pushVars, appVars, events,
                   faultVars, histVars>>

\* A tmpfs volume that nobody mounts any more is emptied, manifest and all.
TmpfsGone(v) ==
    /\ ~up
    /\ \A c \in Container : VolumeOf[c] = v => app[c] # "running"
    /\ manifest[v] # NoManifest \/ content[v] # NoFiles
    /\ content' = [content EXCEPT ![v] = NoFiles]
    /\ manifest' = [manifest EXCEPT ![v] = NoManifest]
    /\ told' = [c \in Container |-> told[c] /\ VolumeOf[c] # v]
    /\ UNCHANGED <<up, version, ledgerVars, pushVars, appVars, events, faultVars, began, since>>

PushStep(p) ==
    \/ TakeLock(p)
    \/ Decrypt(p)
    \/ PublishFile(p)
    \/ \E f \in File : HashSource(p, f)
    \/ PublishManifest(p)
    \/ Record(p)

Next ==
    \/ \E c \in Container : ReconcileFinds(c) \/ HandleStart(c) \/ HandleStartFails(c)
    \/ \E p \in Pusher : PushStep(p) \/ PushFails(p)
    \/ \E s \in Source : Rotate(s)
    \/ \E c \in Container : GatedStart(c) \/ Exit(c) \/ Restart(c)
    \/ CrashDaemon
    \/ StartDaemon
    \/ \E v \in Volume : TmpfsGone(v)

\* The reconcile ticker and the event loop keep running, a push in progress goes
\* on, the waiter polls, and the daemon is restarted; rotations, failures, crashes
\* and exits owe nothing.
Fairness ==
    /\ \A c \in Container : WF_vars(ReconcileFinds(c)) /\ WF_vars(HandleStart(c))
    /\ \A p \in Pusher : WF_vars(PushStep(p))
    /\ \A c \in Container : WF_vars(GatedStart(c))
    /\ WF_vars(StartDaemon)

Spec == Init /\ [][Next]_vars
FairSpec == Spec /\ Fairness

-----------------------------------------------------------------------------
\* Type invariant.
TypeOK ==
    /\ up \in BOOLEAN
    /\ version \in Hashes
    /\ content \in [Volume -> [File -> Nat]]
    /\ manifest \in [Volume -> Hashes \cup {NoManifest}]
    /\ ledger \in [Container -> Hashes \cup {NoRecord}]
    /\ saved \in [Container -> Hashes \cup {NoRecord}]
    /\ holder \in [Container -> Pusher \cup {Free}]
    /\ pc \in [Pusher -> {"idle", "lock", "open", "publish", "hash", "manifest",
                          "rehash", "record"}]
    /\ target \in [Pusher -> Container]
    /\ next \in [Pusher -> File]
    /\ plain \in [Pusher -> Nat]
    /\ hashes \in [Pusher -> Hashes]
    /\ app \in [Container -> {"created", "running", "exited"}]
    /\ starts \in [Container -> Nat]
    /\ events \in [Container -> Nat]
    /\ failures \in Nat
    /\ crashes \in Nat
    /\ began \in [Pusher -> Hashes]
    /\ since \in [Container -> Hashes]
    /\ told \in [Container -> BOOLEAN]

\* The ready signal is sound: a volume with a manifest holds every declared file,
\* after any failure or crash in the middle of a push and with pushes of several
\* replicas interleaved. A gated container never starts over a partial delivery.
ReadySignalSound ==
    \A v \in Volume : manifest[v] # NoManifest => \A f \in File : content[v][f] # 0

\* What a push has written is never older than the sources were when it took its
\* lock, in a volume no other container shares: the keyed lock keeps a concurrent
\* push of the same container from landing a secret decrypted before a rotation.
PushDeliversFresh ==
    \A p \in Pusher :
        Pushing(p) /\ Sharers(target[p]) = {target[p]} =>
            \A f \in File :
                f < next[p] \/ pc[p] \in {"hash", "manifest", "rehash", "record"}
                    => content[VolumeOf[target[p]]][f] >= began[p][SourceOf[f]]

\* The record of the last push into a volume of its own brackets what the volume holds,
\* wherever in the push, and however often, a source was rotated: no file is older than
\* its source was when the push began, the manifest is no older than the files, the
\* record no older than the manifest, and no newer than the source. So a source that
\* `berm stale` reports for it was rotated after the delivery: there is no false alarm,
\* and no file is older than the one rotation window of the push. A save that failed
\* before a crash leaves a record this does not speak of.
RecordBoundsContent ==
    \A c \in Container :
        told[c] /\ Sharers(c) = {c} =>
            \A f \in File :
                LET v == VolumeOf[c]
                    s == SourceOf[f]
                IN  /\ since[c][s] <= content[v][f]
                    /\ content[v][f] <= manifest[v][s]
                    /\ manifest[v][s] <= ledger[c][s]
                    /\ ledger[c][s] <= version[s]

\* A created container, whose start waits for the manifest, eventually starts: the
\* reconcile pass breaks the wait of the app for the waiter for the start event.
GatedAppStarts ==
    \A c \in Container : app[c] = "created" ~> app[c] = "running"

\* Drift: the sources of the container's record whose ciphertext has changed.
Drift(c) == {s \in Source : ledger[c][s] \notin {0, version[s]}}

\* What the ledger says of a record (the ciphertext hash "as it stood when it was
\* last injected") and the operations guide of `berm stale`: a container no push is
\* writing that holds an old secret is reported.
StaleIsReported ==
    \A c \in Container :
        PushingTo(VolumeOf[c]) = {} /\ ledger[c] # NoRecord =>
            \A f \in File :
                content[VolumeOf[c]][f] \in 1..(version[SourceOf[f]] - 1)
                    => SourceOf[f] \in Drift(c)
=============================================================================
