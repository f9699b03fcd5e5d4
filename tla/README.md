# berm: a TLA+ model of the secret-delivery daemon

berm delivers secrets kept in SOPS-encrypted files to containers. A container
declares what it wants in labels; the daemon decides what it may have, decrypts it,
and delivers it by one of three mechanisms (*client*: a wrapper in the container
fetches over a Unix socket; *hook*: an OCI hook does it before the process starts;
*volume*: the daemon writes into a tmpfs volume). It keeps a ledger of what it
delivered, so that a rotated secret shows up as stale.

This directory holds TLA+ modules of the parts in which order, failure and
concurrency matter, TLC configurations that check them on small instances, and TLAPS
proofs for every value of the constants. `PROJECT.json` maps each definition to the
lines it models, and lists the runs, the hazards and the theorems. Paths below are
relative to the repository root; line numbers are in `PROJECT.json`.

## 1. Inventory

| component | state | operations | interacts with |
|---|---|---|---|
| event loop (`daemon/loop.go`) | the runtime's event stream | `handleEvent` (start, stop/die/destroy), re-watch after the stream ends | tracker, volume push, ledger `Forget`, sticky errors |
| reconcile pass (`daemon/loop.go`) | a ticker | list the running containers, push each volume-mode one without a manifest, beat | volume push, heartbeat |
| volume delivery (`loop.go` `pushVolume`, `delivery/volume.go`, `writer.go`, `manifest.go`) | files and manifest of a tmpfs volume, one lock per container | decrypt, publish file by file, hash the ciphertext, publish the manifest last, record | called by event loop *and* reconcile pass; releases the gated deployment; writes the ledger |
| staleness ledger (`daemon/ledger.go`) | a map under a mutex, a JSON file | `RecordManifest`, `Forget`, `save`, `LoadLedger`, `Drift` | written by handlers, event loop, reconcile pass; read by status/stale/digest |
| client-fetch timeout (`daemon/clienttimeout.go`) | pending expectations and their timers | `expect`, `arrived`, `cancel`, `fire`, `stop` | event loop, fetch handlers, timer goroutines, alerts |
| socket server (`daemon/server.go`, `daemon.go` `run`) | listener, tracked connections, wait group | `serve`, `track`, `handle`, `handleFetch`, `handleHook`, `close` | peers, authentication, resolver, bundle builder, ledger, tracker |
| label grammar and resolver (`label/`, `resolve/`, `peerauth` `ServiceName`) | none (a pipeline) | derive the identity, merge the two doorways, gate, parse, acknowledge, choose the mechanism, resolve each delivery | `berm.yml`; called by every path |
| bundle building (`delivery/handler.go`, `wire/wire.go`) | locked buffers | `BuildBundle`, `Destroy` | backend, server |
| SOPS/age backend (`backend/`) | handles with locked buffers | `Open`, `Keys`, `Value`, `Close`; each read runs `sops` | bundle building, volume delivery |
| peer authentication (`peerauth/`) | none | pid to cgroup to container id, start-time check | server |
| hook handler (`hookd/`) | none | check the peer, resolve, build, record | server |
| wire protocol (`wire/protocol.go`) | none | encode and decode requests, bundles, errors | server, client, hook |
| validation alerts, sticky errors (`daemon/daemon.go`) | last error of each container | `alertValidation`, clear | event loop, handlers, status |
| status, stale, digest; CLI | none | read-only reports over ledger and runtime | ledger |
| heartbeat, `healthz` | a time stamp file | beat, check | reconcile pass |
| client, OCI hook (`client/`, `hook/`, `cmd/`) | none | fetch with a deadline, apply, exec | server |
| configuration (`config/`) | `berm.yml` | load | resolver |
| adapters, wiring, alert transport | none | selection | all |

**Hard behaviours.** Four kinds of goroutine (handlers, event loop, reconcile pass,
timers) share the ledger, the tracker and the volumes. `save` renames after it has
released the mutex. Two goroutines push to one volume, and a push reads its sources
several times while they may be replaced. A timer that has expired cannot be recalled.
A watch ends and loses events. A gated container starts only once its volume is
populated, while the start event that would populate it comes only once it has
started. Peers stall and give up, and shutdown may come between any two steps. Go's
map order decides in which order labels are met. A destroy is handled while other
goroutines still work for the container. Every read of a source decrypts it afresh, into
memory that somebody has to wipe on every path. Freshness of the heartbeat is judged by
another process, with a clock that may be set. A handler, or the callback of a timer, goes on
with what it learned before others changed it. `PROJECT.json` lists 36 such hazards at
the lines where they bite.

**What makes each part correct.**
- *Ledger*: the file is whole, never goes back behind what was saved before a call
  began, and holds what the map passed through; without overlap it is the map.
- *Tracker*: every expectation is cleared or alerted on, once; stop ends what is pending.
- *Volume*: a manifest means a complete delivery; a push never leaves an older secret
  than it found; the record bounds what the volume holds; gated containers start.
- *Resolver*: no secret outside the container's scope, none in the environment without
  both gates, none silently missing, no contradiction settled by chance.
- *Server*: recorded only if the whole bundle was written, and recorded or logged as a gap
  when it was; on exit nothing open, running or in locked memory; shutdown ends.
- *Bundle, backend, client, hook*: no plaintext outlives its use on any path; the ready
  signal means a complete delivery; what the receiver refuses is not recorded.
- *Event loop, reconcile pass, handlers and digest together*: a destroyed container
  leaves nothing behind; drift and standing errors reach a digest.
- *Heartbeat*: no alarm while the reconcile goroutine progresses, an alarm when it hangs.

## 2. Modules

`LedgerAbs` is the abstract ledger: a map and a durable copy that may become any state
the map passed through, and a start that resumes from the copy.

`Ledger` models `ledger.go`. `records` is the map, `file` the published file; each
goroutine is in one of the steps of `save` (`Save`): snapshot under the mutex, create the
temp file, write it, rename it; every step may fail. `Crash` loses everything in
memory, `LoadLedger` is the start. History variables (mutation numbers) are read by no
action. It refines `LedgerAbs` by mapping the copy to what the file holds.

`ClientTracker` models `clienttimeout.go`, and from `loop.go` and `server.go` the code
that drives it. An expired timer (`firing`) is a goroutine that has left the runtime's
timer heap and waits for the mutex: `Stop` on it has no effect any more, as in Go. The
event stream is a queue between the runtime and the loop, so events are handled late;
`WatchEnds` loses what is queued and `Rewatch` starts an empty stream. A fetch handler is
two steps, `Authenticate` (the peer's process and its container) and `HandleFetch`
(`arrived`, by id alone), and any number of handlers may be between them while containers
end and start again. A callback is two steps as well: `fire` takes the entry out under the
mutex, `SinkAlert` calls the sink without it.

`VolumeDelivery` models `pushVolume`, `ApplyVolume`, `BuildManifest` and
`PopulatedVolume`, run by `"loop"` (a start event) and `"reconcile"` (a missing
manifest), with one lock per *container*. A source is a version number. A file holds
the version of its oldest value: the values of a render are decrypted one after
the other. Ciphertext is hashed source by source for the manifest and once more for the
ledger. `ledger` is the map in memory and `saved` the file: a save may fail, which the code
only logs (`RecordEnds`), and after a crash the daemon has the file's records. The
environment rotates sources, fails deliveries, kills the daemon, stops and
starts containers, and drops a tmpfs volume that nobody has mounted.

`Resolve` models the pipeline from `peerauth.ServiceName` through `label.Parse` to
`resolve.Resolve`: one action per stage and one step per label, suffix and delivery,
with the early return of each. The merge meets labels in any order (Go's map order) and
tells an absent label from an empty one; the rest of the pipeline sorts. The loop over the
suffixes goes along `SuffixOrder` (`SuffixAt`: the next suffix the merged map has), and the
deliveries are a set in which each has its place, a kind and an index, so that the next to
be resolved is the one with nothing unresolved before it. Label text is abstracted to the
shape `parse.go` gives a suffix and to references of five kinds; a value no pattern
matches, the empty one among them, is refused.

`Server` models `serve`, `track`, `handle` with its fetch and hook paths, `close`, and
`run`'s shutdown, which waits for `serve` and for the other goroutines (`Task`: event loop,
reconcile pass, digest) without a deadline. A task returns when it sees the cancelled
context, unless it is in a call that never returns (`Wedge`), as a handler may be. `Record`
puts the injection into the map or, when the manifest does not parse, only logs (`gaps`). Each stage of a handler succeeds or fails; what follows a
failure (the error frame or none, the deferred `Destroy`, the close, the untrack) has the
code's order. The peer is `client.Fetch` or `hook.Fetch`: it dials, sends (the hook in two parts), reads, or
gives up at its deadline. `AcceptFails` is any accept error, which ends the loop.

`Bundle` follows one bundle from the sealed source to the container: `BuildBundle` with
`addFile`, `addRender` and `addEnv` over a handle of the SOPS/age backend, `EncodeBundle`,
`decodeBundle`, and `berm-client fetch`, `berm-client exec` or the OCI hook applying it. A
buffer of locked memory is a number and a slice the number of the buffer it views, so
`live` says what is not yet wiped and a view of a wiped buffer is told from an intact one.
A value has one of three sizes: empty (no buffer), ordinary, above `maxField`. Every read
is a sops run of its own (`captureDecrypt`) and the operator may rotate between any two.
A bundle is a function of three sections, files, variables and pointers. The frame is
written and read write by write through a socket that holds `PipeCap` writes: `at` is the
encoder's place in it (section, field, write of the field), `WriteAt` what is written
there and `After` the place that follows. A name too long for 16 bits stops the encoder in the middle, a length above
`maxField` stops the decoder, and either end may give up at any point.

`Injection` composes what the daemon remembers of a container: the ledger's record and the
sticky error, with the event loop, the reconcile pass, a socket handler and the digest.
A delivery is two steps here, either of which may fail (the detail is in the modules
above); what counts is when each goroutine reads, records, alerts, clears and forgets. A
container's labels and its annotations resolve independently (`Shapes`), as the fetch path
reads labels by inspection and the hook presents annotations. The hook path inspects
nothing: `hooks` are the containers whose hook was run and not yet heard, and a handler
takes such a request also when the container is gone. Of the ledger's file only
the promise of `LedgerAbs` is used: a start resumes from some state the map went through.

`Heartbeat` models `runReconcile`, `beat` and `berm healthz` in discrete time. Passes and
writes take up to `PassMax` and `WriteMax`, a pass may be wedged, a tick that finds the
channel full is dropped, and the wall clock may step while the ticker does not.

## 3. Runs

| run | shows | bounds |
|---|---|---|
| `ledger` | the file is never torn; calls that do not overlap are durable; a rename never loses what was saved before its call began; refinement of `LedgerAbs` | 2 goroutines, 2 containers, 3 mutations |
| `ledger_concurrent` | **violated**: an idle ledger's file equals its map | 2 mutations |
| `tracker` | no pending expectation without a timer; at most one alert each; no callback takes up an alert after stop; a wrapper that never fetches surfaces | 3 runs of a container, 1 lost watch |
| `tracker_early_fetch` | **violated**: no alert for a run whose fetch was served | 2 runs |
| `volume` | the ready signal is sound; a push delivers nothing older than it found; the record bounds what the volume holds; the gated container starts | 1 container, 2 sources, 2 versions each, 1 failure, 1 crash |
| `volume_replicas` | the ready signal and the gated start for two replicas that share a volume | 2 containers, 1 source |
| `volume_stale` | **violated**: a file older than its source is reported by `Drift` | 1 source |
| `resolve` | scope, double gate of env, no secret silently absent, conflicts always caught | all maps of up to 3 of 32 labels, with `enable` true, false or missing; 4 contexts |
| `server` | open connections are tracked; exit leaves nothing; recorded means written; served leads to recorded or logged; shutdown completes unless a call never returns | 2 connections, 1 task |
| `injection` | a destroy that met no other work leaves nothing behind, and after one that did nothing is begun once that work has ended; a rotated source and a container refused with a sticky error reach a digest | 1 container of 4 shapes, 2 versions, 1 start, 1 fault |
| `bundle` | no plaintext buffer is left; a manifest, a success or a running application means a complete and intact delivery; a refused bundle is never recorded | 5 plans of up to 3 targets, 3 versions of the source, 3 receivers |
| `heartbeat` | no false alarm while the goroutine progresses; `healthz` settles on the truth | interval 2, a pass up to 2, a write up to 1, 3 faults; clock steps both ways |

**Why the bounds are enough.** The ledger's interesting histories need one saved
mutation, a stale snapshot and a newer one: three mutations of two goroutines. A timer
can act on a later expectation only if there are two, and on one made after a lost watch
if there are three. In a volume a torn read needs two versions and two sources; a push
over an earlier complete delivery needs two starts; one failure and one crash reach every
step at which a push can be cut, and a second one starts from a state the first can
reach. The resolver's rules relate at most three labels beside `enable` (a suffix, its
attribute and a gate). Connections interact only through `close`, the accept loop and
the wait group: one in the accept loop's hand and one being handled. `run` waits for each
task in the same way, so one stands for all. In `Injection`
containers share no state but the locks and the event stream, and every conflict is about
one container: its four goroutines, one start, end and destroy, one rotation between any
two steps, and one lost watch, failed inspect, failed sink or crash. The plans of `Bundle`
have every kind of target, with a key that a rotation removes, one whose value becomes too
big, one whose name is too long, an empty value and a malformed line; `BigChunks` exceeds
`PipeCap` because no socket buffer holds `maxField` bytes. In `Heartbeat` a pass and its
write may take longer than the interval, so ticks are dropped, and the window is reached exactly. Bounds are
guards of the environment's actions only; the proofs hold for every bound. Deadlock is
checked for the ledger; the other systems may really stop (bounds used up, the pipeline
returned, the daemon exited) and what must not get stuck is a liveness property.

**Fairness.** Only what the Go scheduler and the code's own loops give is assumed.
*Tracker*: the event loop reads its channel, timers expire, a goroutine that waits for
the mutex gets it. *Volume*: the reconcile ticker ticks and the event loop handles
events; a push goes on; the waiter polls for the manifest; the daemon is restarted.
*Server*: goroutines progress except in a call that never returns, tasks see the cancelled
context, and a peer's deadline passes (`client.Fetch` and `hook.Fetch` set one; the server
sets none, which is why shutdown depends on it).
*Injection*: each goroutine goes on, the digest's ticker ticks (the run is about a daemon
with the digest enabled), the daemon is restarted and watches again. *Heartbeat*: time
passes, the container runtime runs the healthcheck, a pass that is not wedged and a write
end. Nothing makes a container start or fetch, a source rotate, a peer dial or send, or an
operator cancel, and nothing unblocks a wedged call. All fairness is weak but one: `Stop`
of the heartbeat's goroutine is strongly fair, because Go's `select` chooses at random
among the cases that are ready, so a cancelled context is not passed over for ever by a
ticker that is always ready too.

## 4. Proofs

TLAPS proves the theorems below for every value of the constants that satisfies the
module's assumption (`LedgerAssumption`, `TrackerAssumption`, `VolumeAssumption`,
`ResolveAssumption`, `ServerAssumption`, `InjectionAssumption`, `SourceAssumption`,
`KeyAssumption`, `PlanAssumption` and `SizeAssumption` of `Bundle`, `HeartbeatAssumption`:
bounds are naturals, "none" values are not ordinary ones, plans name their sources, only a
file has a pointer variable (`addFile` alone appends one), and no socket buffers `maxField`
bytes). `GrammarAssumption` of `Resolve` says what the text of a label decides: a suffix
has one shape, two `berm.file` labels of the same file and attribute are the same suffix,
the orders list every suffix and file a label can have, and the all sentinel is a value of
`berm.env` and not of `berm.env.VAR` (`parse.go` accepts it in the list only).

| module | theorems |
|---|---|
| `LedgerProofs` | `TypeCorrect`, `FileNeverTorn`, `SerialSavesDurable`, `PublishNeverLosesEarlierCalls`, `LedgerImplementsAbstract` |
| `ClientTrackerProofs` | `TypeCorrect`, `NoLostExpectation`, `AlertsAreUnique`, `StopEndsAlerts` |
| `VolumeProofs` | `TypeCorrect`, `ManifestOnlyOverCompleteDelivery`, `LockKeepsPushFresh`, `RecordBoundsVolume` |
| `ResolveProofs` | `TypeCorrect`, `ScopeIsKept`, `ConflictsAreCaught`, `EnvPassesBothGates`, `NothingDeclaredIsDropped` |
| `ServerProofs` | `TypeCorrect`, `NoConnectionEscapes`, `CleanExit`, `OnlyWholeBundlesCount` |
| `BundleProofs` | `EveryBufferIsWiped`, `TypeCorrect`, `RefusedNeverRecorded`, `ReadyMeansComplete` |
| `InjectionProofs` | `TypeCorrect`, `DestroyIsFinal`, `NothingFollowsADestroy` |
| `HeartbeatProofs` | `TypeCorrect`, `NoFalseAlarm` |

Each follows from an inductive invariant, with one step per action.

- *Ledger*. That the file is never torn says nothing about temp files, and a rename
  publishes a temp file. `CallInv` says that a written temp file is the snapshot of its
  save, that the snapshot is a past state of the map, and that it is no older than the
  call's own mutation and than everything acknowledged before the call (`floor`).
  `HistoryInv` ties map and file to `hist`; from both, every rename is a step of
  `LedgerAbs`. `SerialInv` is the case without overlap: one call in flight,
  its snapshot the newest.
- *Tracker*. Uniqueness needs that an alert's number is one already given out and that
  the pending number is not above the last one (`NumberingInv`); with that a new
  expectation is new. `StoppedInv`: after stop nothing is pending, so a late callback
  finds nothing and takes up no alert; one taken up before still reaches the sink, which
  `StopIsFinal` says.
- *Volume*. The manifest is written after the last file, but another push may be
  under way. `WrittenInv`: what a push has written stays in the volume, since no
  push removes a file and a tmpfs goes away only with the daemon down, when no push is
  under way. `LockInv` and `VersionInv`
  say who holds the lock and that versions only grow; with `FreshInv` they give
  freshness where no other container shares the volume, because the other pusher of the
  same container is shut out by the lock (lemma `Exclusive`). What the record says about
  the volume is `BInv`, which bounds every step of a push by the one before: `SourceBound`,
  no file and no decrypted value is newer than its source; `PushBound` and
  `FileBound`, what a push has written is no older than the push and no newer than what it
  hashed afterwards, whichever rotation comes in between; `UntouchedInv`, while a record
  speaks of a volume (`told`) no push has begun to change it. A crash that falls back to an
  older file ends `told`.
- *Resolve*. A binding's source was checked against `service`; the property speaks of the
  container's labels and the call's identity. `IdentityInv` relates them, for any label map.
  The other properties relate the end of the pipeline to the labels, so `RInv` carries
  what each stage has established to the stages that follow. `MergeInv`: until a conflict
  is returned, a label is still to be met or is in the merged map with its own value, which
  no order of the map can change. `ParseInv`: the suffixes behind the loop were accepted,
  and after it all of them. `GateInv`: what the acknowledgment and the mechanism's gate
  have let through. `PlanInv`: a returned plan binds every delivery of the merged map. That
  a label makes a delivery which binds what it declares is lemma by lemma, one for each
  kind of label.
- *Server*. `StageInv` ties the socket, the tracked set and the stage of a handler;
  `BundleInv` says at which stages a bundle lives; `WireInv` that a handler that
  records has written the whole bundle; `ReturnInv` that `serve` returns after its
  handlers and `run` after `serve` and its tasks.
- *Bundle*. `OwnerInv`: every live buffer has an owner that will wipe it (the decrypt in
  hand, the handle, the bundle; at the receiver the field being read or the bundle), and
  an owner that has had its turn owns nothing. `TInv` adds to the types that `at` is a place
  of the frame (`Framed`) and that nothing is written before the bundle is built.
  `RefusalInv`: what the encoder is past can be taken. A big field cannot be passed: the
  receiver never takes its length off the socket, so every write since is still in it, and
  there are more of them than it holds. The ready signal takes four invariants. `KeepInv`
  is the converse of `OwnerInv`: a slice of either bundle views a buffer that still lives, so
  nothing is copied from a wiped one. `SyncInv` relates the two ends: what is in the socket
  is a path of places from where the receiver is (`Here`) to `at`, and what the receiver
  has is section by section what the frame holds before that place; or it is an error frame
  alone. `BuildInv`: the targets behind `ti` are complete in the bundle, an envdir or env
  all with the keys of *one* listing, because what it has and what it still wants together
  are that listing. `ApplyInv`: what is in the container is what has been read off the
  receiver's bundle, and with the manifest the encoder is at the frame's end.
- *Injection*. That the daemon forgets a destroyed container is one step; that nothing
  brings it back concerns every goroutine. `AnnouncedIsGone`: a destroy is announced only
  of a container that is gone. `InHand`: while the loop forgets a container that nobody
  else had in hand, nobody takes it up. `SettledInv` says the same from then on, with the
  reconcile pass's list and the hook's waiting request counted as work; `DownInv` that a crash ends what is settled. With
  `ForgottenInv` (the loop has no work but a destroy for a container whose destroy was
  handled) the action property follows step by step: what a goroutine changes is what it has
  in hand.
- *Heartbeat*. The age of a beat depends on where the goroutine is. `AgeBound` gives it for
  each place (write, wait for the tick, pass, next write); it needs `WorkBound` for the time
  a pass has taken and `StampBound` for a stamp taken and not yet renamed. The assumption
  `BudgetAssumption`, Interval + PassMax + 2 * WriteMax <= StaleAfter, is the budget under
  which the window of three intervals is right.

**Model-checked only.** Every invariant and every action property of a passing run is
stated by a theorem. Liveness is out of the prover's reach and stays with TLC:
`ForgottenWrapperSurfaces`, `GatedAppStarts`, `ServedIsRecorded`, `ShutdownCompletes`,
`RotationSurfaces`, `BrokenSurfaces`, `VerdictSettles`. So do the three properties the code
does not have.

## 5. Where code and comments disagree

Three runs show the code doing what its own comment excludes (the quotes are in
`PROJECT.json`).

1. `ledger_concurrent`: two overlapping calls return nil and the older snapshot is
   renamed last; after a restart a record is missing. The window lasts until the next save.
2. `tracker_early_fetch`: a fetch handled before the start event clears nothing, and the
   expectation made afterwards alerts although the container was served.
3. `volume_stale`: a rotation after the decrypt and before the hashing leaves the old
   secret under the hash of the new one; `Drift` says nothing.

The models show these as well; they are stated here without a run of their own.

- `fire` looks a container up by id only, so the callback of a cleared expectation alerts
  on the container's next one (`src/internal/daemon/clienttimeout.go:94-95`: "is a no-op").
- The doorways are merged before `enable` is looked at, so a container that is not enabled
  can fail with a conflict, which is alerted (`src/internal/label/parse.go:37-39`: "never
  alerted").
- A connection accepted before `close` and tracked after its sweep stays open until the
  peer gives up (`src/internal/daemon/server.go:92-93`: "every live connection").
- `arrived` knows a container by id only: a handler that authenticated its caller in one run
  and stalls there clears the expectation of the next run, so that run's forgotten wrapper
  does not surface (`src/internal/daemon/clienttimeout.go:17-21`).
  `ForgottenWrapperSurfaces` exempts a run this happened to (`crossed`).
- `fire` calls the sink after it gave the mutex back, so an alert may follow `stop`; and
  `run` does not wait for timer goroutines, so one may also be lost when the process exits.
- A failed save is only logged, so `berm stale`, which reads the file, may not know of an
  injection that the daemon's map has, and after a crash an older record may stand over a
  newer volume. A manifest that does not parse leaves no record at all, which
  `src/internal/daemon/server.go:231-233` accepts as "a ledger gap".
- `run` waits for the event loop, the reconcile pass, the digest and the handlers without a
  deadline: a call that ignores the cancelled context keeps the daemon from exiting.
- What a handler, a push or a reconcile pass began before the destroy event was handled, or
  a hook's request read after it, puts the record or the sticky error back after the one
  step that removes them, and no second destroy comes. The store's comment says an error
  "clears when the container injects cleanly or is destroyed"
  (`src/internal/daemon/daemon.go:422`). `NothingOfTheDestroyed` speaks of the other destroys,
  `DestroyedStaysQuiet` of what can still come after these.
- A destroy event lost between two watches is never made up for: the record stays.
- Sticky errors live in memory only, and nothing resolves running containers again after
  a restart, so a standing error is gone from the digest until the container's next start
  or fetch, though it is kept "visible until fixed" (`src/internal/daemon/daemon.go:358`).
- The encoder does not know `maxField`: a secret above it is written, the receiver refuses
  it, and the daemon logs a failed encode without an alert. A recorded injection is one
  that was written to the socket, not one that was applied.
- A push that delivered but could not build the ledger's manifest is logged and leaves the
  container unrecorded; so does a crash between the two.
- `DefaultHeartbeatStaleAfter` follows the default interval, not the configured one, and
  with the reconcile pass disabled nothing ever beats: `healthz` then calls a working
  daemon unhealthy. A failed `List` still beats, and a hung event loop or server is not
  seen. A forward step of the clock alarms until the next beat. The clamp of a negative
  age changes the age that is printed and never the verdict.
- "a single slow or skipped pass never trips a false alarm"
  (`src/internal/daemon/heartbeat.go:31-32`) holds within `BudgetAssumption` only. The code
  bounds no pass, and one that takes longer than the window alarms although it progresses.
- `docs/OPERATIONS.md:292` calls a daemon healthy whose beat is "younger than" the window;
  the code also accepts a beat exactly as old (`<=`).

Seen while reading: with *two* conflicting suffixes the map order decides
which one the error names, while `src/internal/label/parse.go:58-59` says a bad label
set "fails on the same one every run" (the sort comes after the merge); any accept error
ends `serve` for good (`src/internal/daemon/server.go:62-65`); and `reconcile` stays
silent on a bad plan "so it cannot storm the sink" (`src/internal/daemon/loop.go:131-132`)
while a push it makes alerts at every pass that fails.

## 6. Not modelled

- The text of labels, dotenv files, JSON and tables: parsing and layout. A ledger without
  a path (`path == ""`), which never saves. The content of alerts.
- The sops process, memory locking itself, mount namespaces, file modes and owners: I/O.
  A length of 4 GiB or more, which `uint32(len)` would truncate.
- Read-only reports (`status`, `stale`, `validate`, `suggest`): they print what `Drift` and
  the resolver compute. The flags and the wiring of the commands.
- The walk from a peer's pid to its container through `/proc` (`peerauth/cgroup.go`,
  `starttime.go`); `Server` has its outcome.
- Power loss: `save` does not sync the file, and a crash in the model is the process
  dying, after which the kernel still holds every completed write.
- Loading `berm.yml`: it is read once at the start and is a constant of `Resolve`.

## 7. Plan

Done, in this order: ledger, tracker, volume delivery, resolver, server, heartbeat,
bundle, injection. Next:

1. `PeerAuth`: from pid to container with a pid that is reused between the two reads.
2. `Injection` with two starts of a container, where a rapid restart meets the push of the
   first start.
3. The non-temporal half of the liveness properties as theorems: what holds while the
   awaited step is still to come, for instance that a served connection's handler is on its
   way to the record.
