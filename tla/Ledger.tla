------------------------------- MODULE Ledger -------------------------------
(***************************************************************************)
(* The staleness ledger (internal/daemon/ledger.go): a map of container    *)
(* records guarded by a mutex, persisted by save() after every mutation.   *)
(* save() takes the mutex only to snapshot; the temp file and the rename   *)
(* happen after it is released, so the saves of different goroutines       *)
(* (connection handlers, the event loop, the reconcile pass) overlap.      *)
(*                                                                         *)
(* A crash is the daemon process dying at any point; LoadLedger then reads *)
(* whatever the last rename published.                                     *)
(***************************************************************************)
EXTENDS Naturals

CONSTANTS
    Container,      \* container ids
    Digest,         \* what a record holds: the hashes of one injection
    Writer,         \* goroutines that call RecordManifest or Forget
    NoRecord,       \* no entry in the map
    Absent,         \* the ledger file does not exist
    Torn,           \* a file whose write did not finish
    MaxMutations    \* bound: mutations that may be live at once in one history

ASSUME LedgerAssumption ==
    /\ MaxMutations \in Nat
    /\ NoRecord \notin Digest
    /\ Absent \notin [Container -> Digest \cup {NoRecord}]
    /\ Torn \notin [Container -> Digest \cup {NoRecord}]
    /\ Torn # Absent

VARIABLES
    up,         \* the daemon process runs
    records,    \* Ledger.records, in memory
    file,       \* the published ledger file
    pc,         \* where each goroutine is in RecordManifest/Forget and save()
    snap,       \* the bytes each save() marshalled
    temp,       \* the temp file of each save()
    \* history, read by no action:
    seq,        \* mutations applied to records
    hist,       \* the state of records after each mutation
    fileSeq,    \* the mutation count the published file reflects
    bootSeq,    \* the mutation count this process started from
    ownSeq,     \* the mutation each in-flight call applied
    snapSeq,    \* the mutation count each snapshot reflects
    floor,      \* the largest snapSeq of a save that returned before the call began
    acked,      \* the largest snapSeq of a save that has returned nil
    overlapped, \* two calls were in flight at once since the start
    failed      \* a save returned an error since the start

diskVars == <<file, fileSeq>>
histVars == <<seq, hist, bootSeq>>
callVars == <<ownSeq, floor>>
flagVars == <<overlapped, failed>>
vars == <<up, records, file, pc, snap, temp, seq, hist, fileSeq, bootSeq,
          ownSeq, snapSeq, floor, acked, overlapped, failed>>

Snapshot == [Container -> Digest \cup {NoRecord}]
Nothing == [c \in Container |-> NoRecord]
Contents(f) == IF f = Absent THEN Nothing ELSE f

InFlight == {w \in Writer : pc[w] # "idle"}
AllIdle == InFlight = {}

-----------------------------------------------------------------------------
Init ==
    /\ up = TRUE
    /\ file = Absent
    /\ records = Nothing
    /\ pc = [w \in Writer |-> "idle"]
    /\ snap = [w \in Writer |-> Nothing]
    /\ temp = [w \in Writer |-> Absent]
    /\ seq = 0
    /\ hist = [i \in 0..MaxMutations |-> Nothing]
    /\ fileSeq = 0
    /\ bootSeq = 0
    /\ ownSeq = [w \in Writer |-> 0]
    /\ snapSeq = [w \in Writer |-> 0]
    /\ floor = [w \in Writer |-> 0]
    /\ acked = 0
    /\ overlapped = FALSE
    /\ failed = FALSE

\* Mutated form: the records are marshalled before the call's own change.
SnapshotForSave_BeforeOwnChange(w) ==
    /\ pc[w] = "applied"
    /\ snap' = [snap EXCEPT ![w] = hist[ownSeq[w] - 1]]
    /\ snapSeq' = [snapSeq EXCEPT ![w] = ownSeq[w] - 1]
    /\ pc' = [pc EXCEPT ![w] = "snapped"]
    /\ UNCHANGED <<up, records, diskVars, temp, histVars, callVars, acked,
                   flagVars>>

\* Mutated form: a failed write is not returned, and the rename follows.
WriteTemp_ErrorIgnored(w) ==
    /\ pc[w] = "writing"
    /\ temp' \in {temp, [temp EXCEPT ![w] = snap[w]]}
    /\ pc' = [pc EXCEPT ![w] = "written"]
    /\ UNCHANGED <<up, records, diskVars, snap, histVars, callVars, snapSeq,
                   acked, flagVars>>

\* Mutated form: save() returns nil after closing the temp file, unrenamed.
Rename_Forgotten(w) ==
    /\ pc[w] = "written"
    /\ temp' = [temp EXCEPT ![w] = Absent]
    /\ acked' = IF snapSeq[w] > acked THEN snapSeq[w] ELSE acked
    /\ pc' = [pc EXCEPT ![w] = "idle"]
    /\ UNCHANGED <<up, records, diskVars, snap, histVars, callVars, snapSeq,
                   flagVars>>

\* Mutated form: the file is merged into the map the process already holds, so
\* an absent or older file leaves records behind that it does not hold.
LoadLedger_Merged ==
    /\ ~up
    /\ file # Torn
    /\ up' = TRUE
    /\ records' = [c \in Container |-> IF Contents(file)[c] = NoRecord
                                       THEN records[c] ELSE Contents(file)[c]]
    /\ seq' = fileSeq
    /\ bootSeq' = fileSeq
    /\ acked' = fileSeq
    /\ overlapped' = FALSE
    /\ failed' = FALSE
    /\ UNCHANGED <<diskVars, pc, snap, temp, hist, callVars, snapSeq>>

\* Mutated form: an absent file leaves the map nil.
LoadLedger_NilMap ==
    /\ ~up
    /\ file # Torn
    /\ up' = TRUE
    /\ records' = file
    /\ seq' = fileSeq
    /\ bootSeq' = fileSeq
    /\ acked' = fileSeq
    /\ overlapped' = FALSE
    /\ failed' = FALSE
    /\ UNCHANGED <<diskVars, pc, snap, temp, hist, callVars, snapSeq>>

\* The critical section of RecordManifest and Forget: the map is changed and the
\* mutex released, with save() still to come.
Apply(w, newRecords) ==
    /\ up
    /\ pc[w] = "idle"
    /\ seq < MaxMutations
    /\ records' = newRecords
    /\ seq' = seq + 1
    /\ hist' = [hist EXCEPT ![seq + 1] = newRecords]
    /\ pc' = [pc EXCEPT ![w] = "applied"]
    /\ ownSeq' = [ownSeq EXCEPT ![w] = seq + 1]
    /\ floor' = [floor EXCEPT ![w] = acked]
    /\ overlapped' = (overlapped \/ ~AllIdle)
    /\ UNCHANGED <<up, diskVars, snap, temp, bootSeq, snapSeq, acked, failed>>

\* RecordManifest replaces the container's whole record.
RecordManifest(w, c, d) == Apply(w, [records EXCEPT ![c] = d])

\* Forget of a container with no record returns at once and saves nothing.
Forget(w, c) ==
    /\ records[c] # NoRecord
    /\ Apply(w, [records EXCEPT ![c] = NoRecord])

\* save(): the records are marshalled under the mutex.
SnapshotForSave(w) ==
    /\ pc[w] = "applied"
    /\ snap' = [snap EXCEPT ![w] = records]
    /\ snapSeq' = [snapSeq EXCEPT ![w] = seq]
    /\ pc' = [pc EXCEPT ![w] = "snapped"]
    /\ UNCHANGED <<up, records, diskVars, temp, histVars, callVars, acked,
                   flagVars>>

\* MkdirAll and CreateTemp: an empty file that a write may leave incomplete.
CreateTemp(w) ==
    /\ pc[w] = "snapped"
    /\ temp' = [temp EXCEPT ![w] = Torn]
    /\ pc' = [pc EXCEPT ![w] = "writing"]
    /\ UNCHANGED <<up, records, diskVars, snap, histVars, callVars, snapSeq,
                   acked, flagVars>>

\* Write and Close both succeeded.
WriteTemp(w) ==
    /\ pc[w] = "writing"
    /\ temp' = [temp EXCEPT ![w] = snap[w]]
    /\ pc' = [pc EXCEPT ![w] = "written"]
    /\ UNCHANGED <<up, records, diskVars, snap, histVars, callVars, snapSeq,
                   acked, flagVars>>

\* The rename publishes the temp file in one step and save returns nil.
Rename(w) ==
    /\ pc[w] = "written"
    /\ file' = temp[w]
    /\ fileSeq' = snapSeq[w]
    /\ temp' = [temp EXCEPT ![w] = Absent]
    /\ acked' = IF snapSeq[w] > acked THEN snapSeq[w] ELSE acked
    /\ pc' = [pc EXCEPT ![w] = "idle"]
    /\ UNCHANGED <<up, records, snap, histVars, callVars, snapSeq, flagVars>>

\* Any of MkdirAll, CreateTemp, Write, Close or Rename fails: the temp file is
\* removed and the error returned; the in-memory record stays.
SaveFails(w) ==
    /\ pc[w] \in {"snapped", "writing", "written"}
    /\ temp' = [temp EXCEPT ![w] = Absent]
    /\ pc' = [pc EXCEPT ![w] = "idle"]
    /\ failed' = TRUE
    /\ UNCHANGED <<up, records, diskVars, snap, histVars, callVars, snapSeq,
                   acked, overlapped>>

\* The process dies: every goroutine is gone, its temp file is left behind and
\* never renamed.
Crash ==
    /\ up
    /\ up' = FALSE
    /\ pc' = [w \in Writer |-> "idle"]
    /\ temp' = [w \in Writer |-> Absent]
    /\ UNCHANGED <<records, diskVars, snap, histVars, callVars, snapSeq, acked,
                   flagVars>>

\* LoadLedger at start: an absent file is an empty ledger, and a file that does
\* not parse stops the daemon.
LoadLedger ==
    /\ ~up
    /\ file # Torn
    /\ up' = TRUE
    /\ records' = Contents(file)
    /\ seq' = fileSeq
    /\ bootSeq' = fileSeq
    /\ acked' = fileSeq
    /\ overlapped' = FALSE
    /\ failed' = FALSE
    /\ UNCHANGED <<diskVars, pc, snap, temp, hist, callVars, snapSeq>>

Save(w) ==
    \/ SnapshotForSave(w)
    \/ CreateTemp(w)
    \/ WriteTemp(w)
    \/ Rename(w)
    \/ SaveFails(w)

Next ==
    \/ \E w \in Writer, c \in Container, d \in Digest : RecordManifest(w, c, d)
    \/ \E w \in Writer, c \in Container : Forget(w, c)
    \/ \E w \in Writer : Save(w)
    \/ Crash
    \/ LoadLedger

Spec == Init /\ [][Next]_vars

-----------------------------------------------------------------------------
\* Type invariant: every variable keeps its type; in particular the map is never
\* nil after a start (LoadLedger) and a temp file is a whole snapshot or torn.
TypeOK ==
    /\ up \in BOOLEAN
    /\ records \in Snapshot
    /\ file \in Snapshot \cup {Absent, Torn}
    /\ pc \in [Writer -> {"idle", "applied", "snapped", "writing", "written"}]
    /\ snap \in [Writer -> Snapshot]
    /\ temp \in [Writer -> Snapshot \cup {Absent, Torn}]
    /\ seq \in 0..MaxMutations
    /\ hist \in [0..MaxMutations -> Snapshot]
    /\ fileSeq \in 0..MaxMutations
    /\ bootSeq \in 0..MaxMutations
    /\ ownSeq \in [Writer -> 0..MaxMutations]
    /\ snapSeq \in [Writer -> 0..MaxMutations]
    /\ floor \in [Writer -> 0..MaxMutations]
    /\ acked \in 0..MaxMutations
    /\ overlapped \in BOOLEAN
    /\ failed \in BOOLEAN

\* The published file is never a partial write, whatever fails or crashes inside
\* save(): a restart never meets a ledger that LoadLedger refuses to parse.
NeverTorn == file # Torn

\* A rename publishes the caller's own mutation and everything any save that had
\* returned before this call began had published: an injection can be lost from
\* the file only to a save that overlapped its own, never to a later call.
PublishCoversPast ==
    [][\A w \in Writer : Rename(w) => /\ fileSeq' >= ownSeq[w]
                                      /\ fileSeq' >= floor[w]]_vars

\* While the calls have not overlapped and no save has failed since the start,
\* an idle ledger's file holds exactly the map: a restart then loses nothing.
SerialDurable ==
    up /\ AllIdle /\ ~overlapped /\ ~failed => Contents(file) = records

\* The states of the map since this process started.
Past == {hist[i] : i \in bootSeq..seq}

\* The ledger implements its abstract promise: the file only ever changes, in one
\* step, to a state the map passed through since the start, and a restart resumes
\* from the file.
Abstract == INSTANCE LedgerAbs WITH past <- Past
ImplementsAbstract == Abstract!AbsSpec

\* What the type's comment says of concurrent use ("persists ... so the stale
\* query survives a daemon restart. It is safe for concurrent use"): once every
\* call has returned nil, the file holds the map.
QuiescentDurable ==
    up /\ AllIdle /\ ~failed => Contents(file) = records
=============================================================================
