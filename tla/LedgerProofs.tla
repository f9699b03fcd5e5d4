---------------------------- MODULE LedgerProofs ----------------------------
(***************************************************************************)
(* Proofs about Ledger, for every set of containers, digests and           *)
(* goroutines and every bound.                                             *)
(***************************************************************************)
EXTENDS Ledger, TLAPS

Saving(w) == pc[w] \in {"snapped", "writing", "written"}

\* The mutation counts and the states they stand for: the map is the newest
\* state, the file an older one of this process.
HistoryInv ==
    /\ records = hist[seq]
    /\ file # Torn
    /\ Contents(file) = hist[fileSeq]
    /\ bootSeq <= fileSeq
    /\ fileSeq <= seq
    /\ acked <= seq
    /\ ~up => \A w \in Writer : pc[w] = "idle"

\* What each in-flight call holds.
CallInv ==
    \A w \in Writer :
        /\ pc[w] # "idle" => /\ bootSeq <= ownSeq[w]
                             /\ ownSeq[w] <= seq
                             /\ floor[w] <= seq
        /\ Saving(w) => /\ snap[w] = hist[snapSeq[w]]
                        /\ ownSeq[w] <= snapSeq[w]
                        /\ floor[w] <= snapSeq[w]
                        /\ snapSeq[w] <= seq
        /\ pc[w] = "written" => temp[w] = snap[w]

\* While calls have not overlapped and none has failed, the one call in flight
\* saves the newest state, and with none in flight the file is the newest.
SerialInv ==
    up /\ ~overlapped /\ ~failed =>
        /\ AllIdle => fileSeq = seq
        /\ \A v, w \in Writer : pc[v] # "idle" /\ pc[w] # "idle" => v = w
        /\ \A w \in Writer : Saving(w) => snapSeq[w] = seq

IInv == TypeOK /\ HistoryInv /\ CallInv /\ SerialInv

-----------------------------------------------------------------------------
\* An empty map is a snapshot, and reading a whole or absent file gives one.
LEMMA ContentsType ==
    /\ Nothing \in Snapshot
    /\ \A f \in Snapshot \cup {Absent} : Contents(f) \in Snapshot
BY DEF Nothing, Snapshot, Contents

\* RecordManifest and Forget are Apply of a map that differs in one container.
LEMMA MutationIsApply ==
    ASSUME TypeOK,
           \/ \E w \in Writer, c \in Container, d \in Digest : RecordManifest(w, c, d)
           \/ \E w \in Writer, c \in Container : Forget(w, c)
    PROVE  \E w \in Writer, c \in Container, r \in Digest \cup {NoRecord} :
              /\ [records EXCEPT ![c] = r] \in Snapshot
              /\ Apply(w, [records EXCEPT ![c] = r])
BY DEF TypeOK, Snapshot, RecordManifest, Forget

\* The initial state satisfies the inductive invariant.
LEMMA InitIInv == Init => IInv
<1> SUFFICES ASSUME Init PROVE IInv
  OBVIOUS
<1> USE LedgerAssumption DEF Init
<1>1. TypeOK
  <2>1. Nothing \in Snapshot /\ 0 \in 0..MaxMutations
    BY ContentsType
  <2>2. QED
    BY <2>1, Zenon DEF TypeOK
<1>2. HistoryInv
  BY DEF HistoryInv, Contents
<1>3. CallInv
  BY DEF CallInv, Saving
<1>4. SerialInv
  BY DEF SerialInv, Saving
<1>5. QED
  BY <1>1, <1>2, <1>3, <1>4 DEF IInv

\* A mutation of the map preserves the inductive invariant.
LEMMA ApplyIInv ==
    ASSUME IInv, NEW w \in Writer, NEW new \in Snapshot, Apply(w, new)
    PROVE  IInv'
<1> USE LedgerAssumption DEF Apply, IInv, diskVars
<1>1. TypeOK'
  BY DEF TypeOK
<1>2. HistoryInv'
  BY DEF TypeOK, HistoryInv, Contents
<1>3. CallInv'
  BY DEF TypeOK, HistoryInv, CallInv, Saving
<1>4. SerialInv'
  BY DEF TypeOK, HistoryInv, SerialInv, Saving, AllIdle, InFlight
<1>5. QED
  BY <1>1, <1>2, <1>3, <1>4

\* Every step of save() preserves the inductive invariant.
LEMMA SaveIInv ==
    ASSUME IInv, NEW w \in Writer, Save(w)
    PROVE  IInv'
<1> USE LedgerAssumption DEF IInv, diskVars, histVars, callVars, flagVars
<1>1. CASE SnapshotForSave(w)
  <2>1. TypeOK'
    BY <1>1 DEF SnapshotForSave, TypeOK
  <2>2. HistoryInv'
    BY <1>1 DEF SnapshotForSave, TypeOK, HistoryInv, Contents
  <2>3. CallInv'
    BY <1>1 DEF SnapshotForSave, TypeOK, HistoryInv, CallInv, Saving
  <2>4. SerialInv'
    BY <1>1 DEF SnapshotForSave, TypeOK, HistoryInv, SerialInv, Saving, AllIdle, InFlight
  <2>5. QED
    BY <2>1, <2>2, <2>3, <2>4
<1>2. CASE CreateTemp(w)
  <2>1. TypeOK'
    BY <1>2 DEF CreateTemp, TypeOK
  <2>2. HistoryInv'
    BY <1>2 DEF CreateTemp, TypeOK, HistoryInv, Contents
  <2>3. CallInv'
    BY <1>2 DEF CreateTemp, TypeOK, HistoryInv, CallInv, Saving
  <2>4. SerialInv'
    BY <1>2 DEF CreateTemp, TypeOK, HistoryInv, SerialInv, Saving, AllIdle, InFlight
  <2>5. QED
    BY <2>1, <2>2, <2>3, <2>4
<1>3. CASE WriteTemp(w)
  <2>1. TypeOK'
    BY <1>3 DEF WriteTemp, TypeOK
  <2>2. HistoryInv'
    BY <1>3 DEF WriteTemp, TypeOK, HistoryInv, Contents
  <2>3. CallInv'
    BY <1>3 DEF WriteTemp, TypeOK, HistoryInv, CallInv, Saving
  <2>4. SerialInv'
    BY <1>3 DEF WriteTemp, TypeOK, HistoryInv, SerialInv, Saving, AllIdle, InFlight
  <2>5. QED
    BY <2>1, <2>2, <2>3, <2>4
<1>4. CASE Rename(w)
  <2>0. /\ Saving(w) /\ temp[w] = snap[w] /\ snap[w] \in Snapshot
        /\ snap[w] # Torn /\ snap[w] # Absent
    BY <1>4 DEF Rename, TypeOK, CallInv, Saving, Snapshot
  <2>1. TypeOK'
    BY <1>4 DEF Rename, TypeOK
  <2>2. HistoryInv'
    BY <1>4, <2>0 DEF Rename, TypeOK, HistoryInv, CallInv, Contents
  <2>3. CallInv'
    BY <1>4 DEF Rename, TypeOK, HistoryInv, CallInv, Saving
  <2>4. SerialInv'
    BY <1>4, <2>0 DEF Rename, TypeOK, HistoryInv, SerialInv, Saving, AllIdle, InFlight
  <2>5. QED
    BY <2>1, <2>2, <2>3, <2>4
<1>5. CASE SaveFails(w)
  <2>1. TypeOK'
    BY <1>5 DEF SaveFails, TypeOK
  <2>2. HistoryInv'
    BY <1>5 DEF SaveFails, TypeOK, HistoryInv, Contents
  <2>3. CallInv'
    BY <1>5 DEF SaveFails, TypeOK, HistoryInv, CallInv, Saving
  <2>4. SerialInv'
    BY <1>5 DEF SaveFails, SerialInv
  <2>5. QED
    BY <2>1, <2>2, <2>3, <2>4
<1>6. QED
  BY <1>1, <1>2, <1>3, <1>4, <1>5 DEF Save

\* The process dying and the next one loading the file preserve the inductive
\* invariant.
LEMMA RestartIInv ==
    ASSUME IInv, Crash \/ LoadLedger
    PROVE  IInv'
<1> USE LedgerAssumption DEF IInv, diskVars, histVars, callVars, flagVars
<1>1. CASE Crash
  BY <1>1 DEF Crash, TypeOK, HistoryInv, CallInv, SerialInv, Saving, Contents
<1>2. CASE LoadLedger
  <2>1. TypeOK'
    BY <1>2, ContentsType DEF LoadLedger, TypeOK
  <2>2. HistoryInv'
    BY <1>2 DEF LoadLedger, TypeOK, HistoryInv, Contents
  <2>3. CallInv'
    BY <1>2 DEF LoadLedger, TypeOK, HistoryInv, CallInv, Saving
  <2>4. SerialInv'
    BY <1>2 DEF LoadLedger, TypeOK, HistoryInv, SerialInv, Saving
  <2>5. QED
    BY <2>1, <2>2, <2>3, <2>4
<1>3. QED
  BY <1>1, <1>2

\* Every step preserves the inductive invariant.
LEMMA NextIInv == IInv /\ [Next]_vars => IInv'
<1> SUFFICES ASSUME IInv, [Next]_vars PROVE IInv'
  OBVIOUS
<1>1. CASE \/ \E w \in Writer, c \in Container, d \in Digest : RecordManifest(w, c, d)
           \/ \E w \in Writer, c \in Container : Forget(w, c)
  BY <1>1, MutationIsApply, ApplyIInv DEF IInv
<1>2. CASE \E w \in Writer : Save(w)
  BY <1>2, SaveIInv
<1>3. CASE Crash \/ LoadLedger
  BY <1>3, RestartIInv
<1>4. CASE UNCHANGED vars
  BY <1>4 DEF vars, IInv, TypeOK, HistoryInv, CallInv, SerialInv, Saving,
              AllIdle, InFlight, Contents
<1>5. QED
  BY <1>1, <1>2, <1>3, <1>4 DEF Next

\* The inductive invariant holds throughout.
LEMMA InvariantHolds == Spec => []IInv
BY InitIInv, NextIInv, PTL DEF Spec

-----------------------------------------------------------------------------
\* Every variable of the ledger keeps its type: after any sequence of injections,
\* failures and restarts the map and the file hold records.
THEOREM TypeCorrect == Spec => []TypeOK
<1>1. IInv => TypeOK
  BY DEF IInv
<1>2. QED
  BY <1>1, InvariantHolds, PTL

\* No failure inside save() and no crash publishes a partial ledger file, so
\* LoadLedger never refuses the file the daemon wrote.
THEOREM FileNeverTorn == Spec => []NeverTorn
<1>1. IInv => NeverTorn
  BY DEF IInv, HistoryInv, NeverTorn
<1>2. QED
  BY <1>1, InvariantHolds, PTL

\* With serial, successful saves an idle ledger's file is exactly its map.
THEOREM SerialSavesDurable == Spec => []SerialDurable
<1>1. IInv => SerialDurable
  BY DEF IInv, HistoryInv, SerialInv, SerialDurable
<1>2. QED
  BY <1>1, InvariantHolds, PTL

\* A rename never takes the file back behind its own call's mutation or behind a
\* save that had returned before the call began.
THEOREM PublishNeverLosesEarlierCalls == Spec => PublishCoversPast
<1>1. IInv /\ [Next]_vars =>
        [\A w \in Writer : Rename(w) => /\ fileSeq' >= ownSeq[w]
                                        /\ fileSeq' >= floor[w]]_vars
  BY DEF IInv, CallInv, Saving, Rename, TypeOK
<1>2. QED
  BY <1>1, InvariantHolds, PTL DEF Spec, PublishCoversPast

-----------------------------------------------------------------------------
\* The initial state is an initial state of the abstract ledger.
LEMMA RefineInit == Init => Abstract!AbsInit
BY LedgerAssumption DEF Init, Past, Nothing, Abstract!AbsInit, Abstract!Nothing

\* Every step of the ledger is a step of the abstract one, or leaves it alone.
LEMMA RefineNext == IInv /\ [Next]_vars => [Abstract!AbsNext]_(Abstract!absVars)
<1> SUFFICES ASSUME IInv, [Next]_vars
             PROVE  Abstract!AbsNext \/ UNCHANGED Abstract!absVars
  BY DEF Abstract!absVars
<1>1. ASSUME NEW w \in Writer, NEW c \in Container, NEW r \in Digest \cup {NoRecord},
             Apply(w, [records EXCEPT ![c] = r])
      PROVE  Abstract!Mutate
  <2>1. Past' = Past \cup {records'}
    <3>1. /\ bootSeq' = bootSeq /\ seq' = seq + 1 /\ bootSeq \in Nat /\ seq \in Nat
          /\ bootSeq <= seq /\ seq + 1 \in 0..MaxMutations
          /\ hist' = [hist EXCEPT ![seq + 1] = records']
          /\ DOMAIN hist = 0..MaxMutations
      BY <1>1, LedgerAssumption DEF Apply, IInv, TypeOK, HistoryInv
    <3>2. \A i \in bootSeq..seq : hist'[i] = hist[i]
      BY <3>1
    <3>3. hist'[seq + 1] = records'
      BY <3>1
    <3>4. bootSeq..(seq + 1) = (bootSeq..seq) \cup {seq + 1}
      BY <3>1
    <3>5. QED
      BY <3>1, <3>2, <3>3, <3>4 DEF Past
  <2>2. QED
    BY <1>1, <2>1 DEF Apply, diskVars, Abstract!Mutate
<1>2. ASSUME NEW w \in Writer, Save(w)
      PROVE  Abstract!AbsNext \/ UNCHANGED Abstract!absVars
  <2>1. UNCHANGED <<up, records, Past>>
    BY <1>2 DEF Save, SnapshotForSave, CreateTemp, WriteTemp, Rename, SaveFails,
                histVars, Past
  <2>2. CASE Rename(w)
    <3>1. file' = hist[snapSeq[w]] /\ snapSeq[w] \in bootSeq..seq /\ up
      BY <2>2 DEF Rename, IInv, TypeOK, CallInv, HistoryInv, Saving
    <3>2. QED
      BY <2>1, <3>1 DEF Past, Abstract!AbsNext, Abstract!Publish
  <2>3. CASE ~Rename(w)
    BY <1>2, <2>1, <2>3 DEF Save, SnapshotForSave, CreateTemp, WriteTemp, SaveFails,
                            diskVars, Abstract!absVars
  <2>4. QED
    BY <2>2, <2>3
<1>3. CASE Crash
  BY <1>3 DEF Crash, diskVars, histVars, Past, Abstract!AbsNext, Abstract!Crash
<1>4. CASE LoadLedger
  <2>1. Past' = {records'}
    <3>1. /\ bootSeq' = fileSeq /\ seq' = fileSeq /\ fileSeq \in Nat
          /\ hist' = hist /\ records' = hist[fileSeq]
      BY <1>4 DEF LoadLedger, IInv, TypeOK, HistoryInv
    <3>2. fileSeq..fileSeq = {fileSeq}
      BY <3>1
    <3>3. QED
      BY <3>1, <3>2 DEF Past
  <2>2. QED
    BY <1>4, <2>1 DEF LoadLedger, diskVars, Contents, Nothing, Abstract!AbsNext,
                      Abstract!Boot, Abstract!Contents, Abstract!Nothing
<1>5. CASE UNCHANGED vars
  BY <1>5 DEF vars, Past, Abstract!absVars
<1>6. CASE \/ \E w \in Writer, c \in Container, d \in Digest : RecordManifest(w, c, d)
           \/ \E w \in Writer, c \in Container : Forget(w, c)
  BY <1>6, <1>1, MutationIsApply DEF IInv, Abstract!AbsNext
<1>7. QED
  BY <1>2, <1>3, <1>4, <1>5, <1>6 DEF Next

\* The ledger, with its overlapping saves, failures and crashes, implements the
\* abstract ledger.
THEOREM LedgerImplementsAbstract == Spec => ImplementsAbstract
BY RefineInit, RefineNext, InvariantHolds, PTL
   DEF Spec, ImplementsAbstract, Abstract!AbsSpec
=============================================================================
