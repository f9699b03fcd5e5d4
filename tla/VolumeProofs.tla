---------------------------- MODULE VolumeProofs ----------------------------
(***************************************************************************)
(* Proofs about VolumeDelivery, for any plan, any assignment of containers *)
(* to volumes and any number of rotations, failures and crashes.           *)
(***************************************************************************)
EXTENDS VolumeDelivery, TLAPS

Late == {"hash", "manifest", "rehash", "record"}
PlanVolume(p) == VolumeOf[target[p]]

\* File f has been written by the push of goroutine p.
Written(p, f) == Pushing(p) /\ (f < next[p] \/ pc[p] \in Late)

\* A push holds its container's lock and starts from the first file; a dead daemon
\* pushes nothing.
LockInv ==
    /\ \A p \in Pusher : Pushing(p) => holder[target[p]] = p
    /\ \A p \in Pusher : ~Pushing(p) => next[p] = 1
    /\ ~up => \A p \in Pusher : pc[p] = "idle"

\* A source has a version at least 1, and never an older one than a push saw.
VersionInv ==
    /\ \A s \in Source : version[s] >= 1
    /\ \A p \in Pusher, s \in Source : Pushing(p) => version[s] >= began[p][s]
    /\ \A p \in Pusher : pc[p] = "publish" =>
          plain[p] >= 1 /\ plain[p] >= began[p][SourceOf[next[p]]]

\* What a push has written is in the volume.
WrittenInv ==
    \A p \in Pusher, f \in File : Written(p, f) => content[PlanVolume(p)][f] # 0

\* The same fact as PushDeliversFresh, per written file.
FreshInv ==
    \A p \in Pusher, f \in File :
        Written(p, f) /\ Sharers(target[p]) = {target[p]}
            => content[PlanVolume(p)][f] >= began[p][SourceOf[f]]

IInv ==
    TypeOK /\ LockInv /\ VersionInv /\ WrittenInv /\ FreshInv /\ ReadySignalSound

-----------------------------------------------------------------------------
\* Two pushes of one container never overlap, so pushes of different goroutines
\* into one volume are of two containers that share it.
LEMMA Exclusive ==
    ASSUME TypeOK, LockInv, NEW p \in Pusher, NEW q \in Pusher, p # q,
           Pushing(p), Pushing(q), Sharers(target[q]) = {target[q]}
    PROVE  PlanVolume(p) # PlanVolume(q)
<1>1. target[p] # target[q]
  BY DEF LockInv
<1>2. QED
  BY <1>1 DEF Sharers, PlanVolume, TypeOK

\* The choice that an idle goroutine's target stands for is a container.
LEMMA NobodyType == Nobody \in Container
BY VolumeAssumption DEF Nobody

\* The initial state satisfies the inductive invariant.
LEMMA InitInv == Init => IInv
<1> SUFFICES ASSUME Init PROVE IInv
  OBVIOUS
<1>1. TypeOK
  <2>1. 0 \in Nat /\ 1 \in Nat /\ 1 \in File
    BY VolumeAssumption DEF File
  <2>2. NoHashes \in Hashes /\ NoFiles \in [File -> Nat] /\ version \in Hashes
    BY <2>1, Zenon DEF NoHashes, NoFiles, Hashes, Init
  <2>3. QED
    BY <2>1, <2>2, NobodyType, Zenon DEF Init, TypeOK, Free
<1>2. \A p \in Pusher : ~Pushing(p) /\ pc[p] = "idle"
  BY DEF Init, Pushing
<1>3. LockInv /\ VersionInv /\ WrittenInv /\ FreshInv
  BY <1>2 DEF Init, LockInv, VersionInv, WrittenInv, FreshInv, Written
<1>4. ReadySignalSound
  BY DEF Init, ReadySignalSound
<1>5. QED
  BY <1>1, <1>3, <1>4 DEF IInv

\* Steps that touch neither the push state, the volumes nor the sources.
LEMMA QuietStep ==
    ASSUME IInv, TypeOK', ~up => up' \in BOOLEAN, up => up' = up,
           UNCHANGED <<version, content, manifest, holder, pc, target, next, plain, began>>
    PROVE  IInv'
<1>1. LockInv'
  BY DEF IInv, LockInv, Pushing
<1>2. VersionInv' /\ WrittenInv' /\ FreshInv' /\ ReadySignalSound'
  BY DEF IInv, VersionInv, WrittenInv, FreshInv, ReadySignalSound, Written, Pushing,
         PlanVolume, Sharers
<1>3. QED
  BY <1>1, <1>2 DEF IInv

\* A goroutine picks a container and waits for its lock.
LEMMA TargetStep ==
    ASSUME IInv, TypeOK', NEW p \in Pusher, NEW c \in Container, pc[p] = "idle",
           pc' = [pc EXCEPT ![p] = "lock"], target' = [target EXCEPT ![p] = c], up,
           UNCHANGED <<up, version, content, manifest, holder, next, plain, began>>
    PROVE  IInv'
<1>1. \A q \in Pusher : /\ Pushing(q)' <=> Pushing(q)
                        /\ Pushing(q) => target'[q] = target[q] /\ pc'[q] = pc[q]
  BY DEF IInv, TypeOK, Pushing
<1>2. \A q \in Pusher : pc'[q] = "publish" => pc[q] = "publish"
  BY DEF IInv, TypeOK
<1>3. LockInv'
  BY <1>1 DEF IInv, LockInv
<1>4. VersionInv'
  BY <1>1, <1>2 DEF IInv, VersionInv
<1>5. WrittenInv' /\ FreshInv'
  BY <1>1 DEF IInv, WrittenInv, FreshInv, Written, PlanVolume, Sharers
<1>6. ReadySignalSound'
  BY DEF IInv, ReadySignalSound
<1>7. QED
  BY <1>3, <1>4, <1>5, <1>6 DEF IInv

\* Taking the lock begins a push that has written nothing.
LEMMA LockStep ==
    ASSUME IInv, NEW p \in Pusher, TakeLock(p)
    PROVE  IInv'
<1> USE DEF TakeLock, EnterPush
<1>0. /\ pc[p] = "lock" /\ pc' = [pc EXCEPT ![p] = "open"]
      /\ holder[target[p]] = Free /\ holder' = [holder EXCEPT ![target[p]] = p]
      /\ began' = [began EXCEPT ![p] = version]
      /\ UNCHANGED <<up, version, content, manifest, ledgerVars, target, next, plain, hashes,
                     appVars, events, faultVars, since>>
  OBVIOUS
<1>1. TypeOK'
  <2>1. told' \in [Container -> BOOLEAN]
    BY Zenon
  <2>2. QED
    BY <2>1 DEF IInv, TypeOK, Pusher, ledgerVars, appVars, faultVars
<1> USE <1>0
<1>2. \A q \in Pusher \ {p} : (Pushing(q)' <=> Pushing(q)) /\ pc'[q] = pc[q]
                                /\ began'[q] = began[q]
  BY DEF IInv, TypeOK, Pushing
<1>3. ~Pushing(p) /\ Pushing(p)' /\ pc'[p] = "open" /\ began'[p] = version
  BY DEF IInv, TypeOK, Pushing
<1>4. LockInv'
  <2>1. \A q \in Pusher \ {p} : Pushing(q) => target[q] # target[p]
    BY DEF IInv, TypeOK, LockInv, Pusher, Free
  <2>2. QED
    BY <1>2, <1>3, <2>1 DEF IInv, TypeOK, LockInv
<1>5. VersionInv'
  BY <1>2, <1>3 DEF IInv, TypeOK, VersionInv, Hashes
<1>6. \A f \in File : ~Written(p, f)'
  <2>1. next'[p] = 1 /\ \A f \in File : ~(f < 1)
    BY <1>3 DEF IInv, LockInv, File
  <2>2. QED
    BY <1>3, <2>1 DEF Written, Late
<1>7. \A q \in Pusher \ {p}, f \in File : Written(q, f)' => Written(q, f)
  BY <1>2 DEF Written
<1>8. WrittenInv'
  BY <1>6, <1>7 DEF IInv, WrittenInv, PlanVolume
<1>9. FreshInv'
  BY <1>2, <1>6, <1>7 DEF IInv, FreshInv, PlanVolume, Sharers
<1>10. ReadySignalSound'
  BY DEF IInv, ReadySignalSound
<1>11. QED
  BY <1>1, <1>4, <1>5, <1>8, <1>9, <1>10 DEF IInv

\* A step inside a push that writes no file.
LEMMA InsideStep ==
    ASSUME IInv, TypeOK', NEW p \in Pusher, Pushing(p),
           NEW w \in {"publish", "hash", "manifest", "rehash", "record"},
           pc' = [pc EXCEPT ![p] = w], w \in Late => pc[p] \in Late,
           w = "publish" => /\ plain'[p] >= 1
                            /\ plain'[p] >= began[p][SourceOf[next[p]]],
           \A q \in Pusher \ {p} : plain'[q] = plain[q],
           UNCHANGED <<up, version, content, holder, target, next, began>>
    PROVE  LockInv' /\ VersionInv' /\ WrittenInv' /\ FreshInv'
<1>1. \A q \in Pusher : Pushing(q)' <=> Pushing(q)
  BY DEF IInv, TypeOK, Pushing
<1>2. pc'[p] = w /\ \A q \in Pusher \ {p} : pc'[q] = pc[q]
  BY DEF IInv, TypeOK
<1>3. LockInv'
  <2>1. up
    BY DEF IInv, LockInv, Pushing
  <2>2. QED
    BY <1>1, <2>1 DEF IInv, LockInv
<1>4. VersionInv'
  BY <1>1, <1>2 DEF IInv, VersionInv
<1>5. \A q \in Pusher, f \in File : Written(q, f)' => Written(q, f)
  BY <1>1, <1>2 DEF Written, Late
<1>6. WrittenInv' /\ FreshInv'
  BY <1>5 DEF IInv, WrittenInv, FreshInv, PlanVolume, Sharers
<1>7. QED
  BY <1>3, <1>4, <1>6

\* Decrypting reads the current version of the source.
LEMMA DecryptStep ==
    ASSUME IInv, NEW p \in Pusher, Decrypt(p)
    PROVE  IInv'
<1> USE DEF Decrypt, OpenSource
<1>1. next[p] \in File /\ SourceOf[next[p]] \in Source
  BY VolumeAssumption DEF IInv, TypeOK, File
<1>2. version[SourceOf[next[p]]] \in Nat
  BY <1>1 DEF IInv, TypeOK, Hashes
<1>3. TypeOK'
  BY <1>2 DEF IInv, TypeOK, ledgerVars, appVars, faultVars, histVars
<1>4. Pushing(p)
  BY DEF Pushing
<1>5. plain'[p] = version[SourceOf[next[p]]] /\ \A q \in Pusher \ {p} : plain'[q] = plain[q]
  BY DEF IInv, TypeOK
<1>6. plain'[p] >= 1 /\ plain'[p] >= began[p][SourceOf[next[p]]]
  BY <1>1, <1>4, <1>5 DEF IInv, VersionInv
<1>7. LockInv' /\ VersionInv' /\ WrittenInv' /\ FreshInv'
  <2>1. UNCHANGED <<up, version, content, holder, target, next, began>>
    BY DEF histVars
  <2>2. "publish" \notin Late
    BY DEF Late
  <2>3. QED
    BY <1>3, <1>4, <1>5, <1>6, <2>1, <2>2, InsideStep
<1>8. ReadySignalSound'
  BY DEF IInv, ReadySignalSound
<1>9. QED
  BY <1>3, <1>7, <1>8 DEF IInv

\* Reading a hash changes no file.
LEMMA HashStep ==
    ASSUME IInv, NEW p \in Pusher, NEW f \in File, HashSource(p, f)
    PROVE  IInv'
<1> USE DEF HashSource, SourceCipherHash
<1>1. SourceOf[f] \in Source /\ version[SourceOf[f]] \in Nat
  BY VolumeAssumption DEF IInv, TypeOK, File, Hashes
<1>2. PICK w \in {"hash", "manifest", "rehash", "record"} : pc' = [pc EXCEPT ![p] = w]
  OBVIOUS
<1>3. hashes' \in [Pusher -> Hashes]
  BY <1>1 DEF IInv, TypeOK, Hashes
<1>4. TypeOK'
  BY <1>2, <1>3 DEF IInv, TypeOK, ledgerVars, appVars, faultVars, histVars
<1>5. Pushing(p) /\ pc[p] \in Late
  BY DEF Pushing, Late
<1>6. LockInv' /\ VersionInv' /\ WrittenInv' /\ FreshInv'
  <2>1. UNCHANGED <<up, version, content, holder, target, next, plain, began>>
    BY DEF histVars
  <2>2. QED
    BY <1>2, <1>4, <1>5, <2>1, InsideStep
<1>7. ReadySignalSound'
  BY DEF IInv, ReadySignalSound
<1>8. QED
  BY <1>4, <1>6, <1>7 DEF IInv

\* The manifest is published by a push that has written every file.
LEMMA ManifestStep ==
    ASSUME IInv, NEW p \in Pusher, PublishManifest(p)
    PROVE  IInv'
<1> USE DEF PublishManifest
<1>1. target[p] \in Container /\ PlanVolume(p) \in Volume
  BY VolumeAssumption DEF IInv, TypeOK, PlanVolume
<1>2. TypeOK'
  <2>1. NoHashes \in Hashes
    BY DEF NoHashes, Hashes
  <2>2. QED
    BY <2>1 DEF IInv, TypeOK, ledgerVars, appVars, faultVars, histVars
<1>3. Pushing(p) /\ pc[p] \in Late /\ "rehash" \in Late
  BY DEF Pushing, Late
<1>4. LockInv' /\ VersionInv' /\ WrittenInv' /\ FreshInv'
  <2>1. UNCHANGED <<up, version, content, holder, target, next, plain, began>>
    BY DEF histVars
  <2>2. pc' = [pc EXCEPT ![p] = "rehash"]
    OBVIOUS
  <2>3. QED
    BY <1>2, <1>3, <2>1, <2>2, InsideStep
<1>5. \A f \in File : content[PlanVolume(p)][f] # 0
  BY <1>3 DEF IInv, WrittenInv, Written
<1>6. ReadySignalSound'
  <2>1. \A v \in Volume \ {PlanVolume(p)} : manifest'[v] = manifest[v]
    BY DEF IInv, TypeOK, PlanVolume
  <2>2. QED
    BY <1>5, <2>1 DEF IInv, ReadySignalSound
<1>7. QED
  BY <1>2, <1>4, <1>6 DEF IInv

\* A published file is at least as new as the sources were when the push began, and
\* a push that may be overwritten by this one shares its volume.
LEMMA PublishStep ==
    ASSUME IInv, NEW p \in Pusher, PublishFile(p)
    PROVE  IInv'
<1> DEFINE v == PlanVolume(p)
           n == next[p]
<1> USE DEF PublishFile
<1>0. v \in Volume /\ n \in File /\ plain[p] \in Nat /\ Pushing(p) /\ pc[p] = "publish"
  BY VolumeAssumption DEF IInv, TypeOK, PlanVolume, Pushing
<1>1. content' = [content EXCEPT ![v][n] = plain[p]]
  BY DEF PlanVolume
<1>2. /\ \A w \in Volume, f \in File :
           content'[w][f] = IF w = v /\ f = n THEN plain[p] ELSE content[w][f]
      /\ content' \in [Volume -> [File -> Nat]]
  <2>1. content \in [Volume -> [File -> Nat]]
    BY DEF IInv, TypeOK
  <2>2. content' = [content EXCEPT ![v] = [content[v] EXCEPT ![n] = plain[p]]]
    BY <1>1
  <2>3. [content[v] EXCEPT ![n] = plain[p]] \in [File -> Nat]
    BY <1>0, <2>1
  <2> HIDE DEF v, n, PublishFile
  <2>4. QED
    BY <1>0, <2>1, <2>2, <2>3
<1>3. \/ n < NFiles /\ next' = [next EXCEPT ![p] = n + 1] /\ pc' = [pc EXCEPT ![p] = "open"]
      \/ n = NFiles /\ next' = next /\ pc' = [pc EXCEPT ![p] = "hash"]
  BY <1>0, VolumeAssumption DEF File
<1>4. TypeOK'
  <2>1. n < NFiles => n + 1 \in File
    BY <1>0, VolumeAssumption DEF File
  <2>2. next' \in [Pusher -> File]
    BY <1>3, <2>1 DEF IInv, TypeOK
  <2>3. pc' \in [Pusher -> {"idle", "lock", "open", "publish", "hash", "manifest",
                           "rehash", "record"}]
    BY <1>3 DEF IInv, TypeOK
  <2>4. QED
    BY <1>2, <2>2, <2>3 DEF IInv, TypeOK, ledgerVars, appVars, faultVars, histVars
<1>5. UNCHANGED <<up, version, manifest, holder, target, plain, began>>
  BY DEF histVars
<1>6. \A q \in Pusher \ {p} : pc'[q] = pc[q] /\ next'[q] = next[q]
  BY <1>3 DEF IInv, TypeOK
<1>7. \A q \in Pusher : Pushing(q)' <=> Pushing(q)
  <2>1. pc'[p] \in {"open", "hash"}
    BY <1>3 DEF IInv, TypeOK
  <2>2. QED
    BY <1>0, <1>6, <2>1 DEF Pushing
<1>8. LockInv'
  <2>1. up
    BY <1>0 DEF IInv, LockInv
  <2>2. QED
    BY <1>0, <1>5, <1>6, <1>7, <2>1 DEF IInv, LockInv
<1>9. VersionInv'
  <2>1. pc'[p] # "publish"
    BY <1>3 DEF IInv, TypeOK
  <2>2. QED
    BY <1>5, <1>6, <1>7, <2>1 DEF IInv, VersionInv
<1>10. \A f \in File : Written(p, f)' => f = n \/ Written(p, f)
  <2>1. \A f \in File : Written(p, f)' => f < n + 1 \/ n = NFiles
    BY <1>3, <1>0 DEF IInv, TypeOK, Written, Late
  <2>2. \A f \in File : f < n + 1 => f = n \/ f < n
    BY <1>0 DEF File
  <2>3. n = NFiles => \A f \in File : f = n \/ f < n
    BY VolumeAssumption DEF File
  <2>4. QED
    BY <1>0, <2>1, <2>2, <2>3 DEF Written
<1>11. \A q \in Pusher \ {p}, f \in File : Written(q, f)' => Written(q, f)
  BY <1>6, <1>7 DEF Written
<1>12. \A q \in Pusher : PlanVolume(q) \in Volume /\ PlanVolume(q)' = PlanVolume(q)
  BY <1>5, VolumeAssumption DEF IInv, TypeOK, PlanVolume
<1>13. plain[p] >= 1 /\ plain[p] >= began[p][SourceOf[n]]
  BY <1>0 DEF IInv, VersionInv
<1>14. WrittenInv'
  BY <1>0, <1>2, <1>10, <1>11, <1>12, <1>13 DEF IInv, WrittenInv
<1>15. FreshInv'
  <2> SUFFICES ASSUME NEW q \in Pusher, NEW f \in File, Written(q, f)',
                      Sharers(target[q]) = {target[q]}
               PROVE  content'[PlanVolume(q)][f] >= began[q][SourceOf[f]]
    BY <1>5, <1>12 DEF FreshInv, Sharers
  <2>1. CASE q = p
    BY <1>0, <1>2, <1>10, <1>13, <2>1 DEF IInv, FreshInv
  <2>2. CASE q # p
    <3>1. Written(q, f) /\ Pushing(q)
      BY <1>11, <2>2 DEF Written
    <3>2. v # PlanVolume(q)
      BY <1>0, <2>2, <3>1, Exclusive DEF IInv
    <3>3. content'[PlanVolume(q)][f] = content[PlanVolume(q)][f]
      BY <1>2, <1>12, <3>2
    <3>4. QED
      BY <3>1, <3>3 DEF IInv, FreshInv
  <2>3. QED
    BY <2>1, <2>2
<1>16. ReadySignalSound'
  BY <1>0, <1>2, <1>5, <1>13 DEF IInv, ReadySignalSound
<1>17. QED
  BY <1>4, <1>8, <1>9, <1>14, <1>15, <1>16 DEF IInv

\* A push that returns, well or badly, leaves the volumes as they are.
LEMMA EndStep ==
    ASSUME IInv, NEW p \in Pusher, Pushing(p), EndPush(p),
           UNCHANGED <<up, version, content, manifest>>
    PROVE  LockInv' /\ VersionInv' /\ WrittenInv' /\ FreshInv' /\ ReadySignalSound'
<1> USE DEF EndPush
<1>1. \A q \in Pusher \ {p} :
         /\ pc'[q] = pc[q] /\ next'[q] = next[q] /\ plain'[q] = plain[q]
         /\ began'[q] = began[q] /\ target'[q] = target[q]
  BY DEF IInv, TypeOK
<1>2. pc'[p] = "idle" /\ next'[p] = 1
  BY DEF IInv, TypeOK
<1>3. ~Pushing(p)' /\ \A q \in Pusher \ {p} : Pushing(q)' <=> Pushing(q)
  BY <1>1, <1>2 DEF Pushing
<1>4. LockInv'
  <2>1. \A q \in Pusher \ {p} : Pushing(q) => target[q] # target[p]
    BY DEF IInv, LockInv
  <2>2. \A q \in Pusher \ {p} : Pushing(q) => holder'[target[q]] = holder[target[q]]
    BY <2>1 DEF IInv, TypeOK
  <2>3. up
    BY DEF IInv, LockInv, Pushing
  <2>4. QED
    BY <1>1, <1>2, <1>3, <2>2, <2>3 DEF IInv, LockInv
<1>5. VersionInv'
  BY <1>1, <1>2, <1>3 DEF IInv, VersionInv
<1>6. \A q \in Pusher, f \in File : Written(q, f)' => q # p /\ Written(q, f)
  BY <1>1, <1>2, <1>3 DEF Written
<1>7. WrittenInv' /\ FreshInv'
  BY <1>1, <1>6 DEF IInv, WrittenInv, FreshInv, PlanVolume, Sharers
<1>8. ReadySignalSound'
  BY DEF IInv, ReadySignalSound
<1>9. QED
  BY <1>4, <1>5, <1>7, <1>8

\* The types after a push has returned.
LEMMA EndType ==
    ASSUME TypeOK, NEW p \in Pusher, EndPush(p)
    PROVE  /\ holder' \in [Container -> Pusher \cup {Free}]
           /\ pc' \in [Pusher -> {"idle", "lock", "open", "publish", "hash", "manifest",
                                  "rehash", "record"}]
           /\ target' \in [Pusher -> Container]
           /\ next' \in [Pusher -> File]
           /\ plain' \in [Pusher -> Nat]
           /\ hashes' \in [Pusher -> Hashes]
           /\ began' \in [Pusher -> Hashes]
<1>1. NoHashes \in Hashes /\ 1 \in File
  BY VolumeAssumption DEF NoHashes, Hashes, File
<1>2. QED
  BY <1>1, NobodyType DEF EndPush, TypeOK

\* recordInjection and the failed push.
LEMMA ReturnStep ==
    ASSUME IInv, NEW p \in Pusher, Record(p) \/ PushFails(p)
    PROVE  IInv'
<1>1. /\ EndPush(p)
      /\ UNCHANGED <<up, version, content, manifest, app, starts, events>>
  BY DEF Record, RecordEnds, PushFails, appVars
<1>2. Pushing(p)
  BY DEF Record, PushFails, Pushing
<1>3. /\ ledger' \in [Container -> Hashes \cup {NoRecord}]
      /\ saved' \in [Container -> Hashes \cup {NoRecord}]
  BY DEF Record, RecordEnds, PushFails, IInv, TypeOK, ledgerVars
<1>4. failures' \in Nat /\ crashes' \in Nat
  BY DEF Record, RecordEnds, PushFails, IInv, TypeOK, faultVars
<1>5. told' \in [Container -> BOOLEAN]
  <2>1. told \in [Container -> BOOLEAN]
    BY DEF IInv, TypeOK
  <2>2. CASE Record(p)
    BY <2>1, <2>2, Zenon DEF Record, RecordEnds
  <2>3. CASE PushFails(p)
    BY <2>1, <2>3 DEF PushFails
  <2>4. QED
    BY <2>2, <2>3
<1>6. since' \in [Container -> Hashes]
  BY DEF Record, RecordEnds, PushFails, IInv, TypeOK
<1>7. TypeOK'
  BY <1>1, <1>3, <1>4, <1>5, <1>6, EndType DEF IInv, TypeOK
<1>8. QED
  BY <1>1, <1>2, <1>7, EndStep DEF IInv

\* A rotation only makes sources newer.
LEMMA RotateStep ==
    ASSUME IInv, NEW s \in Source, Rotate(s)
    PROVE  IInv'
<1> USE DEF Rotate
<1>1. version' \in Hashes /\ \A t \in Source : version'[t] >= version[t]
  BY DEF IInv, TypeOK, Hashes
<1>2. UNCHANGED <<up, content, manifest, holder, pc, target, next, plain, began>>
  BY DEF pushVars, histVars
<1>3. TypeOK'
  BY <1>1 DEF IInv, TypeOK, ledgerVars, pushVars, appVars, faultVars, histVars
<1>4. \A p \in Pusher : Pushing(p)' <=> Pushing(p)
  BY <1>2 DEF Pushing
<1>5. LockInv'
  BY <1>2, <1>4 DEF IInv, LockInv
<1>6. VersionInv'
  BY <1>1, <1>2, <1>4 DEF IInv, TypeOK, VersionInv, Hashes
<1>7. WrittenInv' /\ FreshInv' /\ ReadySignalSound'
  BY <1>2, <1>4 DEF IInv, WrittenInv, FreshInv, ReadySignalSound, Written, PlanVolume, Sharers
<1>8. QED
  BY <1>3, <1>5, <1>6, <1>7 DEF IInv

\* A crash drops every push and leaves the volumes as they are.
LEMMA CrashStep ==
    ASSUME IInv, CrashDaemon
    PROVE  IInv'
<1> USE DEF CrashDaemon
<1>1. TypeOK'
  <2>1. NoHashes \in Hashes /\ 1 \in File /\ 0 \in Nat
    BY VolumeAssumption DEF NoHashes, Hashes, File
  <2>2. up' \in BOOLEAN /\ told' \in [Container -> BOOLEAN]
    BY Zenon DEF IInv, TypeOK
  <2>3. /\ pc' \in [Pusher -> {"idle"}]
        /\ holder' \in [Container -> Pusher \cup {Free}]
        /\ target' \in [Pusher -> Container]
        /\ next' \in [Pusher -> File]
        /\ plain' \in [Pusher -> Nat]
        /\ hashes' \in [Pusher -> Hashes]
        /\ events' \in [Container -> Nat]
        /\ began' \in [Pusher -> Hashes]
    BY <2>1, NobodyType
  <2>4. /\ version' \in Hashes
        /\ content' \in [Volume -> [File -> Nat]]
        /\ manifest' \in [Volume -> Hashes \cup {NoManifest}]
        /\ ledger' \in [Container -> Hashes \cup {NoRecord}]
        /\ saved' \in [Container -> Hashes \cup {NoRecord}]
        /\ since' \in [Container -> Hashes]
        /\ app' \in [Container -> {"created", "running", "exited"}]
        /\ starts' \in [Container -> Nat]
        /\ failures' \in Nat
        /\ crashes' \in Nat
    BY DEF IInv, TypeOK, appVars
  <2>5. pc' \in [Pusher -> {"idle", "lock", "open", "publish", "hash", "manifest",
                           "rehash", "record"}]
    BY <2>3
  <2> HIDE DEF CrashDaemon
  <2>6. QED
    BY <2>2, <2>3, <2>4, <2>5 DEF TypeOK
<1>2. \A p \in Pusher : pc'[p] = "idle" /\ next'[p] = 1 /\ ~Pushing(p)'
  BY DEF Pushing
<1>3. LockInv' /\ VersionInv' /\ WrittenInv' /\ FreshInv'
  BY <1>2 DEF IInv, LockInv, VersionInv, WrittenInv, FreshInv, Written
<1>4. ReadySignalSound'
  BY DEF IInv, ReadySignalSound
<1>5. QED
  BY <1>1, <1>3, <1>4 DEF IInv

\* A volume is emptied only while the daemon is down: no push has written into it.
LEMMA GoneStep ==
    ASSUME IInv, NEW v \in Volume, TmpfsGone(v)
    PROVE  IInv'
<1> USE DEF TmpfsGone
<1>1. UNCHANGED <<up, version, holder, pc, target, next, plain, began>>
  BY DEF pushVars
<1>2. \A p \in Pusher : pc[p] = "idle" /\ ~Pushing(p) /\ ~Pushing(p)'
  BY <1>1 DEF IInv, LockInv, Pushing
<1>3. TypeOK'
  <2>1. told' \in [Container -> BOOLEAN]
    BY Zenon
  <2>2. NoFiles \in [File -> Nat]
    BY DEF NoFiles
  <2>3. QED
    BY <2>1, <2>2 DEF IInv, TypeOK, ledgerVars, pushVars, appVars, faultVars
<1>4. LockInv' /\ VersionInv' /\ WrittenInv' /\ FreshInv'
  BY <1>1, <1>2 DEF IInv, LockInv, VersionInv, WrittenInv, FreshInv, Written
<1>5. ReadySignalSound'
  BY DEF IInv, TypeOK, ReadySignalSound
<1>6. QED
  BY <1>3, <1>4, <1>5 DEF IInv

\* Containers start and exit, and the daemon comes back, beside the pushes.
LEMMA OutsideStep ==
    ASSUME IInv, NEW c \in Container,
           \/ HandleStartFails(c) \/ GatedStart(c) \/ Exit(c) \/ Restart(c) \/ StartDaemon
    PROVE  IInv'
<1>1. /\ UNCHANGED <<version, content, manifest, ledger, saved, holder, pc, target, next,
                     plain, hashes, began, since, told, crashes>>
      /\ up => up' = up
      /\ up' \in BOOLEAN
  BY DEF HandleStartFails, GatedStart, Exit, Restart, StartDaemon, ledgerVars, pushVars,
         faultVars, histVars, IInv, TypeOK
<1>2. /\ app' \in [Container -> {"created", "running", "exited"}]
      /\ starts' \in [Container -> Nat]
      /\ events' \in [Container -> Nat]
      /\ failures' \in Nat
  BY DEF HandleStartFails, GatedStart, Exit, Restart, StartDaemon, Start, appVars, faultVars,
         IInv, TypeOK
<1>3. TypeOK'
  BY <1>1, <1>2 DEF IInv, TypeOK
<1>4. QED
  BY <1>1, <1>3, QuietStep

\* The event loop or the reconcile pass takes a container.
LEMMA TakeStep ==
    ASSUME IInv, NEW c \in Container, ReconcileFinds(c) \/ HandleStart(c)
    PROVE  IInv'
<1>1. PICK p \in Pusher : /\ pc[p] = "idle" /\ pc' = [pc EXCEPT ![p] = "lock"]
                          /\ target' = [target EXCEPT ![p] = c]
  BY DEF ReconcileFinds, HandleStart, Pusher
<1>2. up /\ UNCHANGED <<up, version, content, manifest, ledger, saved, holder, next, plain,
                        hashes, app, starts, failures, crashes, began, since, told>>
  BY DEF ReconcileFinds, HandleStart, ledgerVars, appVars, faultVars, histVars
<1>3. events' \in [Container -> Nat]
  BY DEF ReconcileFinds, HandleStart, IInv, TypeOK
<1>4. TypeOK'
  BY <1>1, <1>2, <1>3 DEF IInv, TypeOK
<1>5. QED
  BY <1>1, <1>2, <1>4, TargetStep

\* Every step preserves the inductive invariant.
LEMMA NextInv == IInv /\ [Next]_vars => IInv'
<1> SUFFICES ASSUME IInv, [Next]_vars PROVE IInv'
  OBVIOUS
<1>1. ASSUME NEW c \in Container, ReconcileFinds(c) \/ HandleStart(c)
      PROVE  IInv'
  BY <1>1, TakeStep
<1>2. ASSUME NEW c \in Container,
             HandleStartFails(c) \/ GatedStart(c) \/ Exit(c) \/ Restart(c)
      PROVE  IInv'
  BY <1>2, OutsideStep
<1>3. ASSUME NEW p \in Pusher, PushStep(p)
      PROVE  IInv'
  BY <1>3, LockStep, DecryptStep, PublishStep, HashStep, ManifestStep, ReturnStep
     DEF PushStep
<1>4. ASSUME NEW p \in Pusher, PushFails(p)
      PROVE  IInv'
  BY <1>4, ReturnStep
<1>5. ASSUME NEW s \in Source, Rotate(s)
      PROVE  IInv'
  BY <1>5, RotateStep
<1>6. CASE CrashDaemon
  BY <1>6, CrashStep
<1>7. CASE StartDaemon
  BY <1>7, OutsideStep, VolumeAssumption
<1>8. ASSUME NEW v \in Volume, TmpfsGone(v)
      PROVE  IInv'
  BY <1>8, GoneStep
<1>9. CASE UNCHANGED vars
  <2>1. /\ UNCHANGED <<up, version, content, manifest, ledger, saved, holder, pc, target, next,
                       plain, hashes, app, starts, events, failures, crashes, began, since,
                       told>>
    BY <1>9 DEF vars
  <2>2. TypeOK'
    BY <2>1 DEF IInv, TypeOK
  <2>3. up' \in BOOLEAN
    BY <2>1 DEF IInv, TypeOK
  <2>4. QED
    BY <2>1, <2>2, <2>3, QuietStep
<1>10. QED
  BY <1>1, <1>2, <1>3, <1>4, <1>5, <1>6, <1>7, <1>8, <1>9 DEF Next

\* The inductive invariant holds in every reachable state.
THEOREM InvariantHolds == Spec => []IInv
BY InitInv, NextInv, PTL DEF Spec

\* Type correctness: every reachable state of a volume delivery is well formed, the
\* index of the file to write and the lock table of pushVolume included.
THEOREM TypeCorrect == Spec => []TypeOK
<1>1. IInv => TypeOK
  BY DEF IInv
<1>2. QED
  BY <1>1, InvariantHolds, PTL

\* A volume whose manifest ManifestReady sees holds every declared file: ApplyVolume
\* writes the manifest last, nothing removes a file, and a failed or crashed push
\* leaves no manifest over a partial delivery.
THEOREM ManifestOnlyOverCompleteDelivery == Spec => []ReadySignalSound
<1>1. IInv => ReadySignalSound
  BY DEF IInv
<1>2. QED
  BY <1>1, InvariantHolds, PTL

\* Under the keyed lock of pushVolume, a push of a volume of one container is never
\* overwritten with a secret older than the sources were when it took the lock.
THEOREM LockKeepsPushFresh == Spec => []PushDeliversFresh
<1>1. IInv => PushDeliversFresh
  <2> SUFFICES ASSUME IInv, NEW p \in Pusher, Pushing(p),
                      Sharers(target[p]) = {target[p]}, NEW f \in File,
                      f < next[p] \/ pc[p] \in {"hash", "manifest", "rehash", "record"}
               PROVE  content[VolumeOf[target[p]]][f] >= began[p][SourceOf[f]]
    BY DEF PushDeliversFresh
  <2>1. Written(p, f)
    BY DEF Written, Late
  <2>2. QED
    BY <2>1 DEF IInv, FreshInv, PlanVolume
<1>2. QED
  BY <1>1, InvariantHolds, PTL

-----------------------------------------------------------------------------
\* A push into a volume of its own, and what its record says of the volume.

Private(c) == Sharers(c) = {c}

\* A push reads hashes only once its files are written.
IdleInv == \A p \in Pusher : pc[p] \notin Late => hashes[p] = NoHashes

\* No file and no decrypted value is newer than its source.
SourceBound ==
    /\ \A v \in Volume, f \in File : content[v][f] <= version[SourceOf[f]]
    /\ \A p \in Pusher : pc[p] = "publish" => plain[p] <= version[SourceOf[next[p]]]

\* A hash that goroutine p has read, and the manifest it has published, are no older
\* than the file and no newer than the source; the second walk's hash is no older than
\* the manifest; a finished walk has met the source of every file.
FileBound(p, f) ==
    /\ hashes[p][SourceOf[f]] # 0 =>
          /\ content[PlanVolume(p)][f] <= hashes[p][SourceOf[f]]
          /\ hashes[p][SourceOf[f]] <= version[SourceOf[f]]
    /\ pc[p] \in {"rehash", "record"} =>
          /\ manifest[PlanVolume(p)][SourceOf[f]] \in Nat
          /\ content[PlanVolume(p)][f] <= manifest[PlanVolume(p)][SourceOf[f]]
          /\ manifest[PlanVolume(p)][SourceOf[f]] <= version[SourceOf[f]]
          /\ hashes[p][SourceOf[f]] # 0 =>
                manifest[PlanVolume(p)][SourceOf[f]] <= hashes[p][SourceOf[f]]
    /\ pc[p] \in {"manifest", "record"} => hashes[p][SourceOf[f]] # 0

PushBound ==
    \A p \in Pusher, f \in File :
        pc[p] \in Late /\ Private(target[p]) => FileBound(p, f)

\* A container whose record is of the last push is being pushed by nobody.
UntouchedInv ==
    \A c \in Container :
        told[c] => /\ ledger[c] \in Hashes
                   /\ \A p \in Pusher : Pushing(p) => target[p] # c

BInv ==
    IdleInv /\ SourceBound /\ PushBound /\ UntouchedInv /\ RecordBoundsContent

\* What RecordBoundsContent says of one file, without its local definitions.
LEMMA BoundsOf ==
    RecordBoundsContent <=>
        \A c \in Container : told[c] /\ Private(c) =>
            \A f \in File :
                /\ since[c][SourceOf[f]] <= content[VolumeOf[c]][f]
                /\ content[VolumeOf[c]][f] <= manifest[VolumeOf[c]][SourceOf[f]]
                /\ manifest[VolumeOf[c]][SourceOf[f]] <= ledger[c][SourceOf[f]]
                /\ ledger[c][SourceOf[f]] <= version[SourceOf[f]]
BY DEF RecordBoundsContent, Private

\* It holds at the start: nobody pushes and nothing is recorded.
LEMMA BoundInit == Init => BInv
<1> SUFFICES ASSUME Init PROVE BInv
  OBVIOUS
<1>1. \A p \in Pusher : pc[p] = "idle" /\ pc[p] \notin Late /\ hashes[p] = NoHashes
  BY DEF Init, Late
<1>2. \A c \in Container : ~told[c]
  BY DEF Init
<1>3. SourceBound
  <2>1. \A f \in File : SourceOf[f] \in Source
    BY VolumeAssumption DEF File
  <2>2. \A v \in Volume, f \in File : content[v][f] = 0 /\ version[SourceOf[f]] = 1
    BY <2>1 DEF Init, NoFiles
  <2>3. QED
    BY <1>1, <2>2 DEF SourceBound
<1>4. QED
  BY <1>1, <1>2, <1>3 DEF BInv, IdleInv, PushBound, UntouchedInv, RecordBoundsContent

\* Steps that touch neither the volumes, the sources nor the ledger, and of the pushes
\* only what goroutines outside a lock are up to.
LEMMA BoundQuiet ==
    ASSUME BInv,
           \A p \in Pusher : /\ (pc'[p] \in Late \/ pc'[p] = "publish" => pc'[p] = pc[p])
                             /\ Pushing(p)' => pc'[p] = pc[p] /\ target'[p] = target[p]
                             /\ pc[p] \in Late => pc'[p] = pc[p],
           UNCHANGED <<version, content, manifest, ledger, next, plain, hashes, since, told>>
    PROVE  BInv'
<1>1. IdleInv' /\ SourceBound'
  BY DEF BInv, IdleInv, SourceBound
<1>2. \A p \in Pusher : pc'[p] \in Late =>
         Pushing(p)' /\ pc'[p] = pc[p] /\ target'[p] = target[p] /\ PlanVolume(p)' = PlanVolume(p)
  BY DEF Pushing, Late, PlanVolume
<1>3. PushBound'
  BY <1>2 DEF BInv, PushBound, FileBound, Private, Sharers
<1>4. \A p \in Pusher : Pushing(p)' => Pushing(p) /\ target'[p] = target[p]
  BY DEF Pushing
<1>5. UntouchedInv'
  BY <1>4 DEF BInv, UntouchedInv
<1>6. RecordBoundsContent'
  BY DEF BInv, RecordBoundsContent, Sharers
<1>7. QED
  BY <1>1, <1>3, <1>5, <1>6 DEF BInv

\* A goroutine that only waits for a lock has touched nothing.
LEMMA BoundTake ==
    ASSUME IInv, BInv, NEW c \in Container, ReconcileFinds(c) \/ HandleStart(c)
    PROVE  BInv'
<1>1. PICK p \in Pusher : /\ pc[p] = "idle" /\ pc' = [pc EXCEPT ![p] = "lock"]
                          /\ target' = [target EXCEPT ![p] = c]
  BY DEF ReconcileFinds, HandleStart, Pusher
<1>2. UNCHANGED <<version, content, manifest, ledger, next, plain, hashes, since, told>>
  BY DEF ReconcileFinds, HandleStart, ledgerVars, histVars
<1>3. pc'[p] = "lock" /\ \A q \in Pusher \ {p} : pc'[q] = pc[q] /\ target'[q] = target[q]
  BY <1>1 DEF IInv, TypeOK
<1>4. \A q \in Pusher : /\ (pc'[q] \in Late \/ pc'[q] = "publish" => pc'[q] = pc[q])
                        /\ Pushing(q)' => pc'[q] = pc[q] /\ target'[q] = target[q]
                        /\ pc[q] \in Late => pc'[q] = pc[q]
  BY <1>1, <1>3 DEF Pushing, Late
<1>5. QED
  BY <1>2, <1>4, BoundQuiet

\* A step inside the push of goroutine p leaves the others, their volumes, the sources
\* and the ledger alone.
LEMMA BoundInside ==
    ASSUME IInv, BInv, NEW p \in Pusher, Pushing(p), Pushing(p)',
           \A q \in Pusher \ {p} : /\ pc'[q] = pc[q] /\ next'[q] = next[q]
                                   /\ plain'[q] = plain[q] /\ hashes'[q] = hashes[q],
           \A w \in Volume \ {PlanVolume(p)} :
               content'[w] = content[w] /\ manifest'[w] = manifest[w],
           \A f \in File : content'[PlanVolume(p)][f] <= version[SourceOf[f]],
           pc'[p] = "publish" => plain'[p] <= version[SourceOf[next'[p]]],
           pc'[p] \notin Late => hashes'[p] = NoHashes,
           pc'[p] \in Late /\ Private(target[p]) => \A f \in File : FileBound(p, f)',
           UNCHANGED <<version, ledger, target, since, told>>
    PROVE  BInv'
<1>1. \A q \in Pusher : Pushing(q)' <=> Pushing(q)
  BY DEF Pushing
<1>2. \A q \in Pusher : PlanVolume(q)' = PlanVolume(q) /\ PlanVolume(q) \in Volume
  BY VolumeAssumption DEF PlanVolume, IInv, TypeOK
<1>3. IdleInv'
  BY DEF BInv, IdleInv
<1>4. SourceBound'
  BY DEF BInv, SourceBound
<1>5. \A q \in Pusher \ {p} : pc[q] \in Late /\ Private(target[q]) =>
         /\ content'[PlanVolume(q)] = content[PlanVolume(q)]
         /\ manifest'[PlanVolume(q)] = manifest[PlanVolume(q)]
  <2> SUFFICES ASSUME NEW q \in Pusher \ {p}, pc[q] \in Late, Private(target[q])
               PROVE  PlanVolume(q) # PlanVolume(p)
    BY <1>2
  <2>1. Pushing(q)
    BY DEF Pushing, Late
  <2>2. QED
    BY <2>1, Exclusive DEF IInv, Private
<1>6. \A q \in Pusher \ {p}, f \in File :
         pc[q] \in Late /\ Private(target[q]) => FileBound(q, f)'
  BY <1>2, <1>5 DEF BInv, PushBound, FileBound
<1>7. PushBound'
  <2>1. \A c \in Container : Private(c)' <=> Private(c)
    BY DEF Private, Sharers
  <2>2. QED
    BY <1>6, <2>1 DEF PushBound, Private, Sharers
<1>8. UntouchedInv'
  BY <1>1 DEF BInv, UntouchedInv
<1>9. \A c \in Container : told[c] /\ Private(c) =>
         /\ content'[VolumeOf[c]] = content[VolumeOf[c]]
         /\ manifest'[VolumeOf[c]] = manifest[VolumeOf[c]]
  <2> SUFFICES ASSUME NEW c \in Container, told[c], Private(c)
               PROVE  VolumeOf[c] \in Volume /\ VolumeOf[c] # PlanVolume(p)
    OBVIOUS
  <2>1. target[p] # c /\ target[p] \in Container
    BY DEF BInv, UntouchedInv, IInv, TypeOK
  <2>2. QED
    BY <2>1, VolumeAssumption DEF Private, Sharers, PlanVolume
<1>10. RecordBoundsContent'
  BY <1>9 DEF BInv, RecordBoundsContent, Private, Sharers
<1>11. QED
  BY <1>3, <1>4, <1>7, <1>8, <1>10 DEF BInv

\* A push that takes its lock makes every record of its volume a past one.
LEMMA BoundLock ==
    ASSUME IInv, BInv, NEW p \in Pusher, TakeLock(p)
    PROVE  BInv'
<1>0. /\ pc[p] = "lock" /\ pc' = [pc EXCEPT ![p] = "open"]
      /\ UNCHANGED <<version, content, manifest, ledger, target, next, plain, hashes, since>>
  BY DEF TakeLock, EnterPush, ledgerVars
<1>1. \A c \in Container : told'[c] <=> told[c] /\ VolumeOf[c] # PlanVolume(p)
  BY DEF TakeLock, EnterPush, PlanVolume
<1>2. pc'[p] = "open" /\ \A q \in Pusher \ {p} : pc'[q] = pc[q]
  BY <1>0 DEF IInv, TypeOK
<1>3. \A q \in Pusher \ {p} : Pushing(q)' <=> Pushing(q)
  BY <1>2 DEF Pushing
<1>4. \A q \in Pusher : PlanVolume(q)' = PlanVolume(q)
  BY <1>0 DEF PlanVolume
<1>5. \A q \in Pusher : pc'[q] \in Late => q # p /\ pc[q] \in Late
  BY <1>2 DEF Late
<1>6. IdleInv'
  BY <1>0, <1>2 DEF BInv, IdleInv, Late
<1>7. SourceBound'
  BY <1>0, <1>2 DEF BInv, SourceBound
<1>8. PushBound'
  BY <1>0, <1>2, <1>4, <1>5 DEF BInv, PushBound, FileBound, Private, Sharers
<1>9. UntouchedInv'
  BY <1>0, <1>1, <1>3 DEF BInv, UntouchedInv, PlanVolume
<1>10. RecordBoundsContent'
  BY <1>0, <1>1 DEF BInv, RecordBoundsContent, Sharers
<1>11. QED
  BY <1>6, <1>7, <1>8, <1>9, <1>10 DEF BInv

\* The decrypted value is the source's current one.
LEMMA BoundDecrypt ==
    ASSUME IInv, BInv, NEW p \in Pusher, Decrypt(p)
    PROVE  BInv'
<1>1. /\ pc[p] = "open" /\ pc' = [pc EXCEPT ![p] = "publish"]
      /\ plain' = [plain EXCEPT ![p] = version[SourceOf[next[p]]]]
      /\ UNCHANGED <<version, content, manifest, ledger, target, next, hashes, since, told>>
  BY DEF Decrypt, OpenSource, ledgerVars, histVars
<1>2. pc'[p] = "publish" /\ plain'[p] = version[SourceOf[next[p]]]
  BY <1>1 DEF IInv, TypeOK
<1>3. \A q \in Pusher \ {p} : pc'[q] = pc[q] /\ plain'[q] = plain[q]
  BY <1>1 DEF IInv, TypeOK
<1>4. Pushing(p) /\ Pushing(p)' /\ pc'[p] \notin Late /\ pc[p] \notin Late
  BY <1>1, <1>2 DEF Pushing, Late
<1>5. version[SourceOf[next[p]]] \in Nat /\ PlanVolume(p) \in Volume
  BY VolumeAssumption DEF IInv, TypeOK, Hashes, File, PlanVolume
<1>6. plain'[p] <= version[SourceOf[next'[p]]]
  BY <1>1, <1>2, <1>5
<1>7. hashes'[p] = NoHashes /\ \A f \in File : content'[PlanVolume(p)][f] <= version[SourceOf[f]]
  BY <1>1, <1>4, <1>5 DEF BInv, IdleInv, SourceBound
<1>8. QED
  BY <1>1, <1>3, <1>4, <1>6, <1>7, BoundInside

\* A published file is no newer than its source, and no hash has been read yet.
LEMMA BoundPublish ==
    ASSUME IInv, BInv, NEW p \in Pusher, PublishFile(p)
    PROVE  BInv'
<1> DEFINE v == PlanVolume(p)
           n == next[p]
<1>0. v \in Volume /\ n \in File /\ pc[p] = "publish" /\ Pushing(p)
  BY VolumeAssumption DEF IInv, TypeOK, PlanVolume, PublishFile, Pushing
<1>1. content' = [content EXCEPT ![v][n] = plain[p]]
  BY DEF PublishFile, PlanVolume
<1>2. UNCHANGED <<version, manifest, ledger, target, plain, hashes, since, told>>
  BY DEF PublishFile, ledgerVars, histVars
<1>3. \/ n < NFiles /\ next' = [next EXCEPT ![p] = n + 1] /\ pc' = [pc EXCEPT ![p] = "open"]
      \/ n = NFiles /\ next' = next /\ pc' = [pc EXCEPT ![p] = "hash"]
  BY <1>0, VolumeAssumption DEF File, PublishFile
<1>4. \A q \in Pusher \ {p} : pc'[q] = pc[q] /\ next'[q] = next[q]
  BY <1>3 DEF IInv, TypeOK
<1>5. pc'[p] \in {"open", "hash"}
  BY <1>3 DEF IInv, TypeOK
<1>6. Pushing(p)' /\ pc[p] \notin Late
  BY <1>0, <1>5 DEF Pushing, Late
<1>7. /\ \A w \in Volume \ {v} : content'[w] = content[w]
      /\ \A f \in File : content'[v][f] = IF f = n THEN plain[p] ELSE content[v][f]
  <2>1. content \in [Volume -> [File -> Nat]]
    BY DEF IInv, TypeOK
  <2> HIDE DEF v, n
  <2>2. QED
    BY <1>0, <1>1, <2>1
<1>8. \A f \in File : content'[v][f] <= version[SourceOf[f]]
  BY <1>0, <1>7 DEF BInv, SourceBound
<1>9. hashes'[p] = NoHashes
  BY <1>2, <1>6 DEF BInv, IdleInv
<1>10. \A f \in File : hashes'[p][SourceOf[f]] = 0
  BY <1>9, VolumeAssumption DEF NoHashes, File
<1>11. \A f \in File : FileBound(p, f)'
  BY <1>5, <1>10 DEF FileBound
<1>12. \A w \in Volume \ {PlanVolume(p)} :
          content'[w] = content[w] /\ manifest'[w] = manifest[w]
  BY <1>2, <1>7
<1>13. QED
  BY <1>0, <1>2, <1>4, <1>5, <1>6, <1>8, <1>9, <1>11, <1>12, BoundInside

\* A hash is read after the files are written and, for the record, after the manifest.
LEMMA BoundHash ==
    ASSUME IInv, BInv, NEW p \in Pusher, NEW f \in File, HashSource(p, f)
    PROVE  BInv'
<1> DEFINE t == SourceOf[f]
           v == PlanVolume(p)
<1>1. t \in Source /\ v \in Volume /\ \A g \in File : SourceOf[g] \in Source
  BY VolumeAssumption DEF File, PlanVolume, IInv, TypeOK
<1>2. /\ pc[p] \in {"hash", "rehash"}
      /\ hashes' = [hashes EXCEPT ![p][t] = version[t]]
      /\ UNCHANGED <<version, content, manifest, ledger, target, next, plain, since, told>>
  BY DEF HashSource, SourceCipherHash, ledgerVars, histVars
<1>3. \/ pc' = pc
      \/ /\ \A g \in File : SourceOf[g] # t => hashes[p][SourceOf[g]] # 0
         /\ pc' = [pc EXCEPT ![p] = IF pc[p] = "hash" THEN "manifest" ELSE "record"]
  <2>1. pc \in [Pusher -> {"idle", "lock", "open", "publish", "hash", "manifest",
                           "rehash", "record"}]
    BY DEF IInv, TypeOK
  <2>2. QED
    BY <2>1 DEF HashSource
<1>4. \A s \in Source : hashes'[p][s] = IF s = t THEN version[s] ELSE hashes[p][s]
  <2>1. hashes \in [Pusher -> [Source -> Nat]]
    BY DEF IInv, TypeOK, Hashes
  <2> HIDE DEF t
  <2>2. QED
    BY <1>1, <1>2, <2>1
<1>5. \A q \in Pusher \ {p} : pc'[q] = pc[q] /\ hashes'[q] = hashes[q]
  BY <1>2, <1>3 DEF IInv, TypeOK
<1>6. \/ pc'[p] = pc[p]
      \/ /\ \A g \in File : SourceOf[g] # t => hashes[p][SourceOf[g]] # 0
         /\ pc'[p] = IF pc[p] = "hash" THEN "manifest" ELSE "record"
  BY <1>3 DEF IInv, TypeOK
<1>7. Pushing(p) /\ Pushing(p)' /\ pc[p] \in Late /\ pc'[p] \in Late /\ pc'[p] # "publish"
  BY <1>2, <1>6 DEF Pushing, Late
<1>8. \A g \in File : /\ content[v][g] <= version[SourceOf[g]]
                      /\ version[SourceOf[g]] \in Nat /\ version[SourceOf[g]] >= 1
                      /\ content[v][g] \in Nat
  BY <1>1 DEF BInv, SourceBound, IInv, TypeOK, Hashes, VersionInv
<1>9. /\ pc'[p] \in {"rehash", "record"} => pc[p] = "rehash"
      /\ pc'[p] \in {"manifest", "record"} =>
            \A g \in File : SourceOf[g] # t => hashes[p][SourceOf[g]] # 0
  BY <1>2, <1>6
<1>10. ASSUME Private(target[p]), NEW g \in File
       PROVE  FileBound(p, g)'
  <2>1. FileBound(p, g)
    BY <1>7, <1>10 DEF BInv, PushBound
  <2>2. hashes'[p][SourceOf[g]] = IF SourceOf[g] = t THEN version[SourceOf[g]]
                                                     ELSE hashes[p][SourceOf[g]]
    BY <1>1, <1>4
  <2>3. PlanVolume(p)' = v
    BY <1>2 DEF PlanVolume
  <2> HIDE DEF t, v
  <2>4. hashes'[p][SourceOf[g]] # 0 =>
           /\ content[v][g] <= hashes'[p][SourceOf[g]]
           /\ hashes'[p][SourceOf[g]] <= version[SourceOf[g]]
    BY <1>8, <2>1, <2>2 DEF FileBound, v
  <2>5. pc'[p] \in {"rehash", "record"} =>
           /\ manifest[v][SourceOf[g]] \in Nat
           /\ content[v][g] <= manifest[v][SourceOf[g]]
           /\ manifest[v][SourceOf[g]] <= version[SourceOf[g]]
           /\ hashes'[p][SourceOf[g]] # 0 =>
                 manifest[v][SourceOf[g]] <= hashes'[p][SourceOf[g]]
    BY <1>9, <2>1, <2>2 DEF FileBound, v
  <2>6. pc'[p] \in {"manifest", "record"} => hashes'[p][SourceOf[g]] # 0
    BY <1>8, <1>9, <2>2
  <2>7. QED
    BY <1>2, <2>3, <2>4, <2>5, <2>6 DEF FileBound
<1>11. \A g \in File : content'[PlanVolume(p)][g] <= version[SourceOf[g]]
  BY <1>2, <1>8
<1>12. QED
  BY <1>2, <1>5, <1>7, <1>10, <1>11, BoundInside

\* The manifest is the finished first walk.
LEMMA BoundManifest ==
    ASSUME IInv, BInv, NEW p \in Pusher, PublishManifest(p)
    PROVE  BInv'
<1> DEFINE v == PlanVolume(p)
<1>1. /\ pc[p] = "manifest" /\ pc' = [pc EXCEPT ![p] = "rehash"]
      /\ manifest' = [manifest EXCEPT ![v] = hashes[p]]
      /\ hashes' = [hashes EXCEPT ![p] = NoHashes]
      /\ UNCHANGED <<version, content, ledger, target, next, plain, since, told>>
  BY DEF PublishManifest, ledgerVars, histVars, PlanVolume
<1>2. v \in Volume /\ \A g \in File : SourceOf[g] \in Source
  BY VolumeAssumption DEF IInv, TypeOK, PlanVolume, File
<1>3. /\ pc'[p] = "rehash" /\ hashes'[p] = NoHashes
      /\ manifest'[v] = hashes[p]
      /\ \A w \in Volume \ {v} : manifest'[w] = manifest[w]
      /\ \A q \in Pusher \ {p} : pc'[q] = pc[q] /\ hashes'[q] = hashes[q]
  BY <1>1, <1>2 DEF IInv, TypeOK
<1>4. Pushing(p) /\ Pushing(p)' /\ pc[p] \in Late /\ pc'[p] \in Late
  BY <1>1, <1>3 DEF Pushing, Late
<1>5. ASSUME Private(target[p]), NEW g \in File
      PROVE  FileBound(p, g)'
  <2>1. FileBound(p, g)
    BY <1>4, <1>5 DEF BInv, PushBound
  <2>2. hashes'[p][SourceOf[g]] = 0
    BY <1>2, <1>3 DEF NoHashes
  <2>3. PlanVolume(p)' = v
    BY <1>1 DEF PlanVolume
  <2>4. hashes[p][SourceOf[g]] \in Nat
    BY <1>2 DEF IInv, TypeOK, Hashes
  <2>5. QED
    BY <1>1, <1>3, <2>1, <2>2, <2>3, <2>4 DEF FileBound
<1>6. \A g \in File : content'[PlanVolume(p)][g] <= version[SourceOf[g]]
  BY <1>1, <1>2 DEF BInv, SourceBound
<1>7. QED
  BY <1>1, <1>3, <1>4, <1>5, <1>6, BoundInside

\* A push that returns leaves the other pushes alone.
LEMMA BoundEnd ==
    ASSUME IInv, BInv, NEW p \in Pusher, Pushing(p), EndPush(p),
           UNCHANGED <<version, content, manifest>>
    PROVE  /\ IdleInv' /\ SourceBound' /\ PushBound' /\ ~Pushing(p)'
           /\ \A q \in Pusher \ {p} : (Pushing(q)' <=> Pushing(q)) /\ target'[q] = target[q]
<1>1. \A q \in Pusher \ {p} :
         /\ pc'[q] = pc[q] /\ next'[q] = next[q] /\ plain'[q] = plain[q]
         /\ hashes'[q] = hashes[q] /\ target'[q] = target[q]
  BY DEF IInv, TypeOK, EndPush
<1>2. pc'[p] = "idle" /\ hashes'[p] = NoHashes
  BY DEF IInv, TypeOK, EndPush
<1>3. /\ ~Pushing(p)' /\ pc'[p] \notin Late
      /\ \A q \in Pusher \ {p} : (Pushing(q)' <=> Pushing(q)) /\ PlanVolume(q)' = PlanVolume(q)
  BY <1>1, <1>2 DEF Pushing, PlanVolume, Late
<1>4. IdleInv'
  BY <1>1, <1>2 DEF BInv, IdleInv
<1>5. SourceBound'
  BY <1>1, <1>2 DEF BInv, SourceBound
<1>6. PushBound'
  BY <1>1, <1>3 DEF BInv, PushBound, FileBound, Private, Sharers
<1>7. QED
  BY <1>1, <1>3, <1>4, <1>5, <1>6

\* The record is the finished second walk, over files no other push has touched.
LEMMA BoundRecord ==
    ASSUME IInv, BInv, NEW p \in Pusher, Record(p)
    PROVE  BInv'
<1> DEFINE c == target[p]
<1>1. /\ pc[p] = "record" /\ EndPush(p)
      /\ UNCHANGED <<version, content, manifest>>
      /\ c \in Container /\ PlanVolume(p) = VolumeOf[c]
      /\ hashes[p] \in Hashes
  BY DEF Record, RecordEnds, PlanVolume, IInv, TypeOK
<1>2. ledger'[c] = hashes[p] /\ \A b \in Container \ {c} : ledger'[b] = ledger[b]
  BY DEF Record, IInv, TypeOK
<1>3. since'[c] = began[p] /\ \A b \in Container \ {c} : since'[b] = since[b]
  BY DEF Record, RecordEnds, IInv, TypeOK
<1>4. \A b \in Container \ {c} : told'[b] = told[b]
  BY DEF Record, RecordEnds, IInv, TypeOK
<1>5. Pushing(p) /\ pc[p] \in Late
  BY <1>1 DEF Pushing, Late
<1>6. /\ IdleInv' /\ SourceBound' /\ PushBound' /\ ~Pushing(p)'
      /\ \A q \in Pusher \ {p} : (Pushing(q)' <=> Pushing(q)) /\ target'[q] = target[q]
  BY <1>1, <1>5, BoundEnd
<1>7. \A q \in Pusher \ {p} : Pushing(q) => target[q] # c
  BY <1>5 DEF IInv, LockInv
<1>8. ASSUME Private(c), NEW f \in File
      PROVE  /\ began[p][SourceOf[f]] <= content[VolumeOf[c]][f]
             /\ content[VolumeOf[c]][f] <= manifest[VolumeOf[c]][SourceOf[f]]
             /\ manifest[VolumeOf[c]][SourceOf[f]] <= hashes[p][SourceOf[f]]
             /\ hashes[p][SourceOf[f]] <= version[SourceOf[f]]
  <2>1. FileBound(p, f)
    BY <1>5, <1>8 DEF BInv, PushBound
  <2>2. Written(p, f)
    BY <1>5 DEF Written
  <2>3. content[PlanVolume(p)][f] >= began[p][SourceOf[f]]
    BY <1>8, <2>2 DEF IInv, FreshInv, Private
  <2>4. SourceOf[f] \in Source
    BY VolumeAssumption DEF File
  <2>5. began[p][SourceOf[f]] \in Nat /\ content[VolumeOf[c]][f] \in Nat
    <3>1. began \in [Pusher -> [Source -> Nat]] /\ content \in [Volume -> [File -> Nat]]
      BY DEF IInv, TypeOK, Hashes
    <3>2. VolumeOf[c] \in Volume
      BY <1>1, VolumeAssumption
    <3>3. QED
      BY <2>4, <3>1, <3>2
  <2>6. QED
    BY <1>1, <2>1, <2>3, <2>5 DEF FileBound
<1> HIDE DEF c
<1>9. UntouchedInv'
  BY <1>1, <1>2, <1>4, <1>6, <1>7 DEF BInv, UntouchedInv
<1>10. RecordBoundsContent'
  <2> SUFFICES ASSUME NEW b \in Container, told'[b], Private(b), NEW f \in File
               PROVE  /\ since'[b][SourceOf[f]] <= content[VolumeOf[b]][f]
                      /\ content[VolumeOf[b]][f] <= manifest[VolumeOf[b]][SourceOf[f]]
                      /\ manifest[VolumeOf[b]][SourceOf[f]] <= ledger'[b][SourceOf[f]]
                      /\ ledger'[b][SourceOf[f]] <= version[SourceOf[f]]
    BY <1>1 DEF RecordBoundsContent, Private, Sharers
  <2>1. CASE b = c
    BY <1>2, <1>3, <1>8, <2>1
  <2>2. CASE b # c
    BY <1>2, <1>3, <1>4, <2>2, BoundsOf DEF BInv
  <2>3. QED
    BY <2>1, <2>2
<1>11. QED
  BY <1>6, <1>9, <1>10 DEF BInv

\* A push that fails records nothing.
LEMMA BoundFail ==
    ASSUME IInv, BInv, NEW p \in Pusher, PushFails(p)
    PROVE  BInv'
<1>1. /\ EndPush(p) /\ Pushing(p)
      /\ UNCHANGED <<version, content, manifest, ledger, since, told>>
  BY DEF PushFails, Pushing, ledgerVars
<1>2. /\ IdleInv' /\ SourceBound' /\ PushBound' /\ ~Pushing(p)'
      /\ \A q \in Pusher \ {p} : (Pushing(q)' <=> Pushing(q)) /\ target'[q] = target[q]
  BY <1>1, BoundEnd
<1>3. UntouchedInv'
  BY <1>1, <1>2 DEF BInv, UntouchedInv
<1>4. RecordBoundsContent'
  BY <1>1 DEF BInv, RecordBoundsContent, Sharers
<1>5. QED
  BY <1>2, <1>3, <1>4 DEF BInv

\* A rotation only moves the sources away from what has been read and written.
LEMMA BoundRotate ==
    ASSUME IInv, BInv, NEW s \in Source, Rotate(s)
    PROVE  BInv'
<1>1. UNCHANGED <<content, manifest, ledger, pc, target, next, plain, hashes, since, told>>
  BY DEF Rotate, pushVars, ledgerVars, histVars
<1>2. \A f \in File : /\ SourceOf[f] \in Source
                      /\ version[SourceOf[f]] \in Nat /\ version'[SourceOf[f]] \in Nat
                      /\ version[SourceOf[f]] <= version'[SourceOf[f]]
  <2>1. version \in [Source -> Nat] /\ version' = [version EXCEPT ![s] = version[s] + 1]
    BY DEF Rotate, IInv, TypeOK, Hashes
  <2>2. \A f \in File : SourceOf[f] \in Source
    BY VolumeAssumption DEF File
  <2>3. QED
    BY <2>1, <2>2
<1>3. \A p \in Pusher : /\ Pushing(p)' <=> Pushing(p)
                        /\ PlanVolume(p)' = PlanVolume(p) /\ PlanVolume(p) \in Volume
  BY <1>1, VolumeAssumption DEF Pushing, PlanVolume, IInv, TypeOK
<1>4. IdleInv' /\ UntouchedInv'
  BY <1>1, <1>3 DEF BInv, IdleInv, UntouchedInv
<1>5. SourceBound'
  <2>1. \A v \in Volume, f \in File : content[v][f] \in Nat
    BY DEF IInv, TypeOK
  <2>2. \A p \in Pusher : plain[p] \in Nat /\ next[p] \in File
    BY DEF IInv, TypeOK
  <2>3. QED
    BY <1>1, <1>2, <2>1, <2>2 DEF BInv, SourceBound
<1>6. PushBound'
  <2> SUFFICES ASSUME NEW p \in Pusher, NEW f \in File, FileBound(p, f)
               PROVE  FileBound(p, f)'
    BY <1>1 DEF BInv, PushBound, Private, Sharers
  <2>1. hashes[p][SourceOf[f]] \in Nat
    BY <1>2 DEF IInv, TypeOK, Hashes
  <2>2. QED
    BY <1>1, <1>2, <1>3, <2>1 DEF FileBound
<1>7. RecordBoundsContent'
  <2> SUFFICES ASSUME NEW c \in Container, told[c], Private(c), NEW f \in File
               PROVE  /\ since[c][SourceOf[f]] <= content[VolumeOf[c]][f]
                      /\ content[VolumeOf[c]][f] <= manifest[VolumeOf[c]][SourceOf[f]]
                      /\ manifest[VolumeOf[c]][SourceOf[f]] <= ledger[c][SourceOf[f]]
                      /\ ledger[c][SourceOf[f]] <= version'[SourceOf[f]]
    BY <1>1 DEF RecordBoundsContent, Private, Sharers
  <2>1. ledger[c][SourceOf[f]] \in Nat
    BY <1>2 DEF BInv, UntouchedInv, Hashes
  <2>2. ledger[c][SourceOf[f]] <= version[SourceOf[f]]
    BY BoundsOf DEF BInv
  <2>3. ledger[c][SourceOf[f]] <= version'[SourceOf[f]]
    BY <1>2, <2>1, <2>2
  <2>4. QED
    BY <2>3, BoundsOf DEF BInv
<1>8. QED
  BY <1>4, <1>5, <1>6, <1>7 DEF BInv

\* A crash drops every push; a record that the file still holds is still of the last
\* push of its volume.
LEMMA BoundCrash ==
    ASSUME IInv, BInv, CrashDaemon
    PROVE  BInv'
<1>1. /\ \A p \in Pusher : pc'[p] = "idle" /\ hashes'[p] = NoHashes
      /\ UNCHANGED <<version, content, manifest, since>>
      /\ \A c \in Container : told'[c] <=> told[c] /\ saved[c] = ledger[c]
      /\ ledger' = saved
  BY DEF CrashDaemon
<1>2. \A p \in Pusher : ~Pushing(p)' /\ pc'[p] \notin Late /\ pc'[p] # "publish"
  BY <1>1 DEF Pushing, Late
<1>3. \A c \in Container : told'[c] => told[c] /\ ledger'[c] = ledger[c]
  BY <1>1
<1>4. IdleInv' /\ PushBound'
  BY <1>1, <1>2 DEF IdleInv, PushBound
<1>5. SourceBound'
  BY <1>1, <1>2 DEF BInv, SourceBound
<1>6. UntouchedInv'
  BY <1>2, <1>3 DEF BInv, UntouchedInv
<1>7. RecordBoundsContent'
  BY <1>1, <1>3 DEF BInv, RecordBoundsContent, Sharers
<1>8. QED
  BY <1>4, <1>5, <1>6, <1>7 DEF BInv

\* Of a volume that is emptied no record speaks any more.
LEMMA BoundGone ==
    ASSUME IInv, BInv, NEW v \in Volume, TmpfsGone(v)
    PROVE  BInv'
<1>1. /\ UNCHANGED <<version, ledger, pc, target, next, plain, hashes, since>>
      /\ \A c \in Container : told'[c] <=> told[c] /\ VolumeOf[c] # v
      /\ content'[v] = NoFiles
      /\ \A w \in Volume \ {v} : content'[w] = content[w] /\ manifest'[w] = manifest[w]
  BY DEF TmpfsGone, pushVars, ledgerVars, IInv, TypeOK
<1>2. \A p \in Pusher : pc'[p] = "idle"
  BY <1>1 DEF TmpfsGone, IInv, LockInv
<1>3. \A p \in Pusher : ~Pushing(p)' /\ pc'[p] \notin Late /\ pc'[p] # "publish"
  BY <1>2 DEF Pushing, Late
<1>4. IdleInv' /\ PushBound' /\ UntouchedInv'
  BY <1>1, <1>2, <1>3 DEF BInv, IdleInv, PushBound, UntouchedInv, Late
<1>5. SourceBound'
  <2>1. \A f \in File : content'[v][f] = 0 /\ version[SourceOf[f]] \in Nat
    BY <1>1, VolumeAssumption DEF NoFiles, IInv, TypeOK, Hashes, File
  <2>2. QED
    BY <1>1, <1>3, <2>1 DEF BInv, SourceBound
<1>6. RecordBoundsContent'
  BY <1>1, VolumeAssumption DEF BInv, RecordBoundsContent, Sharers
<1>7. QED
  BY <1>4, <1>5, <1>6 DEF BInv

\* Every step preserves the bounds.
LEMMA BoundNext == IInv /\ BInv /\ [Next]_vars => BInv'
<1> SUFFICES ASSUME IInv, BInv, [Next]_vars PROVE BInv'
  OBVIOUS
<1>1. ASSUME NEW c \in Container, ReconcileFinds(c) \/ HandleStart(c)
      PROVE  BInv'
  BY <1>1, BoundTake
<1>2. ASSUME UNCHANGED <<version, content, manifest, ledger, pc, target, next, plain,
                         hashes, since, told>>
      PROVE  BInv'
  BY <1>2, BoundQuiet
<1>3. ASSUME NEW c \in Container,
             HandleStartFails(c) \/ GatedStart(c) \/ Exit(c) \/ Restart(c)
      PROVE  BInv'
  BY <1>2, <1>3 DEF HandleStartFails, GatedStart, Exit, Restart, pushVars, ledgerVars, histVars
<1>4. ASSUME NEW p \in Pusher, PushStep(p)
      PROVE  BInv'
  BY <1>4, BoundLock, BoundDecrypt, BoundPublish, BoundHash, BoundManifest, BoundRecord
     DEF PushStep
<1>5. ASSUME NEW p \in Pusher, PushFails(p)
      PROVE  BInv'
  BY <1>5, BoundFail
<1>6. ASSUME NEW s \in Source, Rotate(s)
      PROVE  BInv'
  BY <1>6, BoundRotate
<1>7. CASE CrashDaemon
  BY <1>7, BoundCrash
<1>8. CASE StartDaemon
  BY <1>2, <1>8 DEF StartDaemon, pushVars, ledgerVars, histVars
<1>9. ASSUME NEW v \in Volume, TmpfsGone(v)
      PROVE  BInv'
  BY <1>9, BoundGone
<1>10. CASE UNCHANGED vars
  BY <1>2, <1>10 DEF vars
<1>11. QED
  BY <1>1, <1>3, <1>4, <1>5, <1>6, <1>7, <1>8, <1>9, <1>10 DEF Next

\* The record of the last push into a container's own volume brackets what the volume
\* holds, with rotations between any two steps of the push, pushes of other containers
\* beside it, failures, and crashes that lose the ledger's unsaved memory: a file is no
\* older than the push and no newer than the manifest, the manifest no newer than the
\* record, the record no newer than the source, so `berm stale` raises no false alarm.
THEOREM RecordBoundsVolume == Spec => []RecordBoundsContent
<1>1. Spec => []BInv
  BY InvariantHolds, BoundInit, BoundNext, PTL DEF Spec
<1>2. BInv => RecordBoundsContent
  BY DEF BInv
<1>3. QED
  BY <1>1, <1>2, PTL
=============================================================================
