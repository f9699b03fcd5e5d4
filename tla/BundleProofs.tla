---------------------------- MODULE BundleProofs ----------------------------
(***************************************************************************)
(* Proofs about Bundle, for any sources, plans, rotations, sizes and       *)
(* failures: no program strands plaintext, types are kept, a bundle the    *)
(* receiver cannot take is never recorded, and the ready signal is only    *)
(* given for a complete and intact delivery.                               *)
(***************************************************************************)
EXTENDS Bundle, SequenceTheorems, TLAPS

(***************************************************************************)
(* NothingStranded speaks of the ends only. On the way every live buffer   *)
(* has an owner that will wipe it: the call that holds the decrypt, the    *)
(* handle or the bundle; at the receiver, readU32Locked or the bundle. An  *)
(* owner that has had its turn owns nothing, so at the ends nothing lives. *)
(***************************************************************************)
HandlerOwns ==
    /\ alloc \in Nat
    /\ dpc \in {"open", "capture", "use", "encode", "error", "done"}
    /\ live \subseteq Buffers(plain) \cup retained \cup locked
    /\ dpc # "use" => plain = 0
    /\ dpc \in {"open", "encode", "error", "done"} => retained = {}
    /\ dpc \in {"error", "done"} => locked = {}

ReceiverOwns ==
    /\ cAlloc \in Nat
    /\ cLive \subseteq cLocked \cup Buffers(cBuf)
    /\ cpc # "bytes" => cBuf = 0
    /\ cpc \in {"execve", "ok", "failed", "app"} => cLocked = {}

OwnerInv == HandlerOwns /\ ReceiverOwns

\* A buffer that is there is owned by whoever holds its number.
LEMMA BufferFacts ==
    ASSUME NEW n \in Nat, NEW size
    PROVE  /\ Buffers(0) = {} /\ Buffers(n + 1) = {n + 1}
           /\ Fresh(n + 1, size) \in {0, n + 1}
BY DEF Buffers, Fresh

\* AddSecret hands the bundle what it makes.
LEMMA AddSecretOwns ==
    ASSUME NEW name, NEW size, NEW base, NEW n \in Nat, AddSecret(name, size, base, n),
           NEW owned, base \subseteq owned \cup locked
    PROVE  alloc' \in Nat /\ live' \subseteq owned \cup locked'
BY BufferFacts DEF AddSecret

\* Nothing is live before the first decrypt.
LEMMA OwnerInit == Init => OwnerInv
BY DEF Init, OwnerInv, HandlerOwns, ReceiverOwns

\* What the handler does leaves every buffer of its own with an owner.
LEMMA BuildKeepsOwners == HandlerOwns /\ Build => HandlerOwns'
<1> SUFFICES ASSUME HandlerOwns, Build PROVE HandlerOwns'
  OBVIOUS
<1>1. CASE OpenSource
  BY <1>1 DEF OpenSource, HandlerOwns, bundleVars, memVars
<1>2. CASE captureDecrypt
  BY <1>2, BufferFacts DEF captureDecrypt, HandlerOwns, bundleVars
<1>3. CASE Keys
  BY <1>3, BufferFacts DEF Keys, HandlerOwns, bundleVars
<1>4. CASE Value
  <2> DEFINE size == dotenvFind(decrypted, Head(want))
             out == Fresh(alloc + 1, size)
             n == IF out = 0 THEN alloc ELSE alloc + 1
             base == (live \cup Buffers(out)) \ Buffers(plain)
  <2>1. /\ retained' = retained \cup Buffers(out) /\ plain' = 0 /\ dpc' = "capture"
        /\ \/ alloc' = n /\ live' = base /\ UNCHANGED bundleVars
           \/ AddSecret(FieldName(Head(want)), size, base, n)
    BY <1>4 DEF Value
  <2>2. n \in Nat
    BY DEF HandlerOwns
  <2>3. base \subseteq retained' \cup locked
    BY <2>1 DEF HandlerOwns
  <2>4. alloc' \in Nat /\ live' \subseteq retained' \cup locked'
    <3>1. CASE alloc' = n /\ live' = base /\ UNCHANGED bundleVars
      BY <3>1, <2>2, <2>3 DEF bundleVars
    <3>2. CASE AddSecret(FieldName(Head(want)), size, base, n)
      <4> HIDE DEF size, base, n
      <4> QED
        BY <3>2, <2>2, <2>3, AddSecretOwns
    <3> QED
      BY <2>1, <3>1, <3>2
  <2> QED
    BY <2>1, <2>4, BufferFacts DEF HandlerOwns
<1>5. CASE Payload
  <2>1. /\ AddSecret(FieldName(NoKey), Binary[decrypted], live, alloc)
        /\ retained' = retained \cup Buffers(plain) /\ plain' = 0 /\ dpc' = "capture"
    BY <1>5 DEF Payload
  <2>2. alloc' \in Nat /\ live' \subseteq retained' \cup locked'
    BY <2>1, AddSecretOwns DEF HandlerOwns
  <2> QED
    BY <2>1, <2>2 DEF HandlerOwns
<1>6. CASE CloseHandle
  <2>1. plain = 0 /\ plain' = 0 /\ retained' = {} /\ dpc' = "open"
    BY <1>6 DEF CloseHandle, HandlerOwns
  <2>2. live \ retained \subseteq {} \cup locked
    BY <2>1, BufferFacts DEF HandlerOwns
  <2>3. alloc' \in Nat /\ live' \subseteq {} \cup locked'
    <3>1. CASE live' = live \ retained /\ UNCHANGED <<bundleVars, alloc>>
      BY <3>1, <2>2 DEF bundleVars, HandlerOwns
    <3> DEFINE n == IF render = "empty" THEN alloc ELSE alloc + 1
    <3>2. n \in Nat
      BY DEF HandlerOwns
    <3>3. CASE AddSecret(FieldName(NoKey), render, live \ retained, n)
      <4> HIDE DEF n
      <4> QED
        BY <3>2, <3>3, <2>2, AddSecretOwns
    <3> QED
      BY <1>6, <3>1, <3>3 DEF CloseHandle
  <2> QED
    BY <2>1, <2>3 DEF HandlerOwns
<1>7. CASE BuildFails
  BY <1>7, BufferFacts DEF BuildFails, HandlerOwns
<1>8. CASE BuildManifest
  BY <1>8 DEF BuildManifest, HandlerOwns, handleVars, bundleVars, memVars
<1> QED
  BY <1>1, <1>2, <1>3, <1>4, <1>5, <1>6, <1>7, <1>8 DEF Build

\* So does the answer: a frame that is cut and one that is complete end alike.
LEMMA RespondKeepsOwners == HandlerOwns /\ Respond => HandlerOwns'
<1> SUFFICES ASSUME HandlerOwns, Respond PROVE HandlerOwns'
  OBVIOUS
<1>1. CASE EncodeBundle
  BY <1>1 DEF EncodeBundle, HandlerOwns, handleVars, bundleVars, memVars
<1>2. CASE EncodeFails \/ RecordAndDestroy
  <2>1. dpc = "encode" /\ DestroyAndClose /\ UNCHANGED <<handleVars, alloc>>
    BY <1>2 DEF EncodeFails, RecordAndDestroy
  <2> QED
    BY <2>1, BufferFacts DEF DestroyAndClose, HandlerOwns, handleVars
<1>3. CASE WriteError
  BY <1>3 DEF WriteError, HandlerOwns, handleVars, bundleVars, memVars
<1> QED
  BY <1>1, <1>2, <1>3 DEF Respond

\* Advance goes to a reading state, or to the application of the bundle.
LEMMA AdvanceGoes ==
    ASSUME NEW s, NEW l, Advance(s, l)
    PROVE  cpc' \in {"field", "count", "apply"}
BY DEF Advance

\* The receiver gives a buffer to the bundle once it is full, and wipes one it
\* cannot fill.
LEMMA DecodeKeepsOwners == ReceiverOwns /\ Decode => ReceiverOwns'
<1> SUFFICES ASSUME ReceiverOwns, Decode PROVE ReceiverOwns'
  OBVIOUS
<1>1. CASE ReadHeader
  BY <1>1 DEF ReadHeader, ReceiverOwns
<1>2. CASE ReadCount
  BY <1>2, AdvanceGoes DEF ReadCount, ReceiverOwns
<1>3. CASE ReadField
  <2>1. CASE Head(pipe).size = "empty"
    BY <1>3, <2>1, AdvanceGoes DEF ReadField, ReceiverOwns
  <2>2. CASE Head(pipe).size # "empty"
    BY <1>3, <2>2, BufferFacts DEF ReadField, ReceiverOwns
  <2> QED
    BY <2>1, <2>2
<1>4. CASE ReadBytes
  BY <1>4, AdvanceGoes, BufferFacts DEF ReadBytes, ReceiverOwns
<1>5. CASE ReadFails
  BY <1>5, BufferFacts DEF ReadFails, ReceiverOwns
<1> QED
  BY <1>1, <1>2, <1>3, <1>4, <1>5 DEF Decode

\* Destroy leaves nothing, the first time and the second.
LEMMA ApplyKeepsOwners == ReceiverOwns /\ ApplyBundle => ReceiverOwns'
<1> SUFFICES ASSUME ReceiverOwns, ApplyBundle PROVE ReceiverOwns'
  OBVIOUS
<1>1. CASE ApplyFile
  BY <1>1 DEF ApplyFile, ReceiverOwns, decodeVars
<1>2. CASE ApplyManifest
  BY <1>2 DEF ApplyManifest, ReceiverOwns, decodeVars
<1>3. CASE EnvFor
  BY <1>3 DEF EnvFor, ReceiverOwns, decodeVars
<1>4. CASE ExecDestroys \/ Exit \/ ApplyFails
  <2>1. cpc # "bytes" /\ cpc' # "bytes" /\ DestroyClient
    BY <1>4 DEF ExecDestroys, Exit, ApplyFails
  <2> QED
    BY <2>1, BufferFacts DEF DestroyClient, ReceiverOwns
<1>5. CASE Execve
  BY <1>5 DEF Execve, ReceiverOwns, decodeVars
<1> QED
  BY <1>1, <1>2, <1>3, <1>4, <1>5 DEF ApplyBundle

\* The two programs share the connection and nothing else.
LEMMA Apart ==
    /\ Build \/ Respond \/ Rotate => UNCHANGED <<cpc, decodeVars>>
    /\ Decode \/ ApplyBundle \/ Rotate => UNCHANGED <<dpc, handleVars, bundleVars, memVars>>
<1>1. Build => UNCHANGED clientVars
  BY DEF Build, OpenSource, captureDecrypt, Keys, Value, Payload, CloseHandle,
         BuildFails, BuildManifest
<1>2. Respond => UNCHANGED clientVars
  BY DEF Respond, EncodeBundle, EncodeFails, RecordAndDestroy, WriteError
<1>3. Rotate => UNCHANGED <<clientVars, daemonVars>>
  BY DEF Rotate
<1>4. Decode => UNCHANGED daemonVars
  BY DEF Decode, ReadHeader, ReadCount, ReadField, ReadBytes, ReadFails, Receive
<1>5. ApplyBundle => UNCHANGED daemonVars
  BY DEF ApplyBundle, ApplyFile, ApplyManifest, EnvFor, ExecDestroys, Execve, Exit,
         ApplyFails, DestroyClient
<1> QED
  BY <1>1, <1>2, <1>3, <1>4, <1>5 DEF clientVars, daemonVars

\* Every step keeps every live buffer owned.
LEMMA OwnerStep == OwnerInv /\ [Next]_vars => OwnerInv'
<1> SUFFICES ASSUME OwnerInv, [Next]_vars PROVE OwnerInv'
  OBVIOUS
<1>1. HandlerOwns'
  <2>1. CASE UNCHANGED <<dpc, handleVars, bundleVars, memVars>>
    BY <2>1 DEF OwnerInv, HandlerOwns, handleVars, bundleVars, memVars
  <2>2. CASE UNCHANGED vars
    BY <2>2, <2>1 DEF vars, daemonVars
  <2> QED
    BY <2>1, <2>2, BuildKeepsOwners, RespondKeepsOwners, Apart DEF Next, OwnerInv
<1>2. ReceiverOwns'
  <2>1. CASE UNCHANGED <<cpc, decodeVars>>
    BY <2>1 DEF OwnerInv, ReceiverOwns, decodeVars
  <2>2. CASE UNCHANGED vars
    BY <2>2, <2>1 DEF vars, clientVars
  <2> QED
    BY <2>1, <2>2, DecodeKeepsOwners, ApplyKeepsOwners, Apart DEF Next, OwnerInv
<1> QED
  BY <1>1, <1>2 DEF OwnerInv

\* However a build, a transfer or a delivery ends, each program has wiped every
\* buffer of plaintext it made: for any sources and plans, with a rotation between
\* any two decrypts and a failure at any step of either side.
THEOREM EveryBufferIsWiped == Spec => []NothingStranded
<1>1. OwnerInv => NothingStranded
  BY DEF OwnerInv, HandlerOwns, ReceiverOwns, NothingStranded, Buffers
<1> QED
  BY <1>1, OwnerInit, OwnerStep, PTL DEF Spec

-----------------------------------------------------------------------------
(***************************************************************************)
(* Types. They need to know where the encoder can be: at a place of the    *)
(* frame that the bundle has, and at its very beginning, with nothing      *)
(* written, as long as the bundle is not complete. And a handle in use has *)
(* a target, a key looked up was asked for, and a field awaited is one of  *)
(* those left.                                                             *)
(***************************************************************************)
Building == {"open", "capture", "use"}

Framed(b, p) ==
    /\ p \in Place
    /\ \/ p.section \in Sections \cup {0, 5} /\ p = Start(p.section)
       \/ /\ p.section \in 1..4 /\ p.field \in 1..Len(Fields(b, p.section))
          /\ p.part \in 0..Parts(FieldAt(b, p).size)

FrameInv ==
    /\ Framed(items, at)
    /\ dpc \in Building \cup {"error"} => pipe = <<>> /\ at = Start(0) /\ ~recorded

TargetInv ==
    /\ dpc \in {"capture", "use"} =>
          /\ ti <= Len(plan)
          /\ ~listed => Target.kind \in Listing
    /\ dpc = "use" /\ listed => want # <<>>

LeftInv == cpc \in {"field", "bytes"} => left > 0

TInv == TypeOK /\ FrameInv /\ TargetInv /\ LeftInv

\* What the sources hold.
LEMMA SourceTypes ==
    ASSUME NEW v \in Version
    PROVE  /\ Lines[v] \in Seq([key : KeyNames \cup {Malformed}, size : Size]) /\ Binary[v] \in Size
           /\ dotenvKeys(v) \in Seq(AnyKey)
           /\ \A k : Found(v, k) => dotenvFind(v, k) \in Size
<1>1. Lines[v] \in Seq([key : KeyNames \cup {Malformed}, size : Size]) /\ Binary[v] \in Size
  BY SourceAssumption, ElementOfSeq DEF Version
<1>2. /\ DOMAIN Lines[v] = 1..Len(Lines[v]) /\ Len(Lines[v]) \in Nat
      /\ \A i \in DOMAIN Lines[v] : Lines[v][i] \in [key : KeyNames \cup {Malformed}, size : Size]
  BY <1>1, LenProperties, ElementOfSeq
<1>3. dotenvKeys(v) \in Seq(AnyKey)
  BY <1>2 DEF dotenvKeys, AnyKey
<1>4. ASSUME NEW k, Found(v, k) PROVE dotenvFind(v, k) \in Size
  <2>1. (CHOOSE i \in First(v, k) : TRUE) \in First(v, k)
    BY <1>4 DEF Found
  <2>2. First(v, k) \subseteq DOMAIN Lines[v]
    BY DEF First, Matches
  <2> QED
    BY <2>1, <2>2, <1>2 DEF dotenvFind
<1> QED
  BY <1>1, <1>3, <1>4

\* The target in hand, while a handle is open.
LEMMA TargetType ==
    ASSUME DaemonType, TargetInv, dpc \in {"capture", "use"}
    PROVE  Target \in [kind : Kinds, key : KeyNames \cup {NoKey}, pointer : BOOLEAN]
<1>1. plan \in Seq([kind : Kinds, key : KeyNames \cup {NoKey}, pointer : BOOLEAN])
  BY PlanAssumption DEF DaemonType
<1>2. Len(plan) \in Nat /\ ti \in 1..Len(plan)
  BY <1>1, LenProperties DEF DaemonType, TargetInv
<1> QED
  BY <1>1, <1>2, ElementOfSeq DEF Target

\* One more field keeps the bundle a bundle.
LEMMA WithItemType ==
    ASSUME items \in BundleOf(Size),
           NEW name \in Name, NEW size \in Size, NEW b \in Nat
    PROVE  WithItem(name, size, b) \in BundleOf(Size)
<1>1. Item(name, size, b) \in Field(Size) /\ Item(name, "empty", 0) \in Field(Size)
  BY DEF Item, Field, Size
<1>2. \A s \in Sections : /\ Append(items[s], Item(name, size, b)) \in Seq(Field(Size))
                          /\ Append(items[s], Item(name, "empty", 0)) \in Seq(Field(Size))
  BY <1>1, AppendProperties DEF BundleOf
<1> QED
  BY <1>2 DEF WithItem, BundleOf

\* Destroy keeps the fields, their names and sizes.
LEMMA ClearedFields ==
    ASSUME NEW kinds, NEW its \in BundleOf(kinds)
    PROVE  /\ Cleared(its) \in BundleOf(kinds)
           /\ \A s \in Sections :
                 /\ Len(Cleared(its)[s]) = Len(its[s])
                 /\ DOMAIN Cleared(its)[s] = DOMAIN its[s]
                 /\ \A i \in DOMAIN its[s] : Cleared(its)[s][i].name = its[s][i].name
                                             /\ Cleared(its)[s][i].size = its[s][i].size
                                             /\ Cleared(its)[s][i].data = 0
<1> SUFFICES ASSUME NEW s \in Sections
             PROVE  /\ Cleared(its)[s] \in Seq(Field(kinds))
                    /\ Len(Cleared(its)[s]) = Len(its[s])
                    /\ DOMAIN Cleared(its)[s] = DOMAIN its[s]
                    /\ \A i \in DOMAIN its[s] : Cleared(its)[s][i].name = its[s][i].name
                                                /\ Cleared(its)[s][i].size = its[s][i].size
                                                /\ Cleared(its)[s][i].data = 0
  BY DEF Cleared, BundleOf
<1>1. its[s] \in Seq(Field(kinds)) /\ Len(its[s]) \in Nat /\ DOMAIN its[s] = 1..Len(its[s])
  BY LenProperties DEF BundleOf
<1>2. Cleared(its)[s] = [i \in 1..Len(its[s]) |-> Item(its[s][i].name, its[s][i].size, 0)]
  BY <1>1 DEF Cleared
<1>3. \A i \in 1..Len(its[s]) : Item(its[s][i].name, its[s][i].size, 0) \in Field(kinds)
  BY <1>1, ElementOfSeq DEF Item, Field
<1>4. Cleared(its)[s] \in Seq(Field(kinds)) /\ Len(Cleared(its)[s]) = Len(its[s])
  BY <1>1, <1>2, <1>3
<1> QED
  BY <1>1, <1>2, <1>4 DEF Item

\* What a section has to write.
LEMMA FieldsType ==
    ASSUME NEW b \in BundleOf(Size), NEW s
    PROVE  /\ Fields(b, s) \in Seq(Field(Size)) /\ Len(Fields(b, s)) \in Nat
           /\ \A i \in 1..Len(Fields(b, s)) : Fields(b, s)[i] \in Field(Size)
           /\ s \in Sections => Fields(b, s) = b[s]
           /\ s = 4 => Len(Fields(b, s)) = 1 /\ Fields(b, s)[1] = Manifest
           /\ s \in {0, 5} => Fields(b, s) = <<>>
<1>1. Manifest \in Field(Size)
  <2>1. NoKey \in AnyKey
    BY DEF AnyKey
  <2>2. <<0, NoKey>> \in Name
    BY <2>1 DEF Name
  <2> QED
    BY <2>2 DEF Manifest, Item, Field, Size
<1>2. Fields(b, s) \in Seq(Field(Size))
  <2>1. CASE s \in Sections
    BY <2>1 DEF Fields, Sections, BundleOf
  <2>2. CASE s = 4
    BY <2>2, <1>1 DEF Fields, Sections
  <2>3. CASE s \notin Sections /\ s # 4
    BY <2>3 DEF Fields
  <2> QED
    BY <2>1, <2>2, <2>3
<1>3. s \in Sections => Fields(b, s) = b[s]
  BY DEF Fields, Sections
<1>4. s = 4 => Len(Fields(b, s)) = 1 /\ Fields(b, s)[1] = Manifest
  BY DEF Fields, Sections
<1>5. s \in {0, 5} => Fields(b, s) = <<>>
  BY DEF Fields, Sections
<1> QED
  BY <1>2, <1>3, <1>4, <1>5, LenProperties, ElementOfSeq

\* The writes of a field are a number.
LEMMA PartsType == \A size \in Size : Parts(size) \in Nat
BY SizeAssumption DEF Parts, Size

\* Where the encoder can be, case by case.
LEMMA FramedCases ==
    ASSUME NEW b \in BundleOf(Size), NEW p, Framed(b, p), p # End
    PROVE  /\ p = At(p.section, p.field, p.part) /\ p.section \in 0..4
           /\ p.field \in Nat /\ p.part \in Nat
           /\ p.field = 0 => p = Start(p.section) /\ p.section \in 0..3 /\ p.part = 0
           /\ p.field # 0 => /\ p.section \in 1..4 /\ p.field \in 1..Len(Fields(b, p.section))
                             /\ FieldAt(b, p) \in Field(Size) /\ Parts(FieldAt(b, p).size) \in Nat
                             /\ p.part \in 0..Parts(FieldAt(b, p).size)
<1>1. p \in Place /\ p = At(p.section, p.field, p.part)
  BY DEF Framed, Place, At
<1>2. CASE p.section \in Sections \cup {0, 5} /\ p = Start(p.section)
  <2>1. p.section # 5
    BY <1>2 DEF End
  <2>2. p.field = 0 /\ p.part = 0
    BY <1>2 DEF Start, At, Sections
  <2> QED
    BY <1>1, <1>2, <2>1, <2>2 DEF Place, Sections
<1>3. CASE /\ p.section \in 1..4 /\ p.field \in 1..Len(Fields(b, p.section))
           /\ p.part \in 0..Parts(FieldAt(b, p).size)
  <2>1. FieldAt(b, p) \in Field(Size) /\ Len(Fields(b, p.section)) \in Nat
    BY <1>3, FieldsType DEF FieldAt
  <2>2. Parts(FieldAt(b, p).size) \in Nat
    BY <2>1, PartsType DEF Field
  <2> QED
    BY <1>1, <1>3, <2>1, <2>2 DEF Place
<1> QED
  BY <1>2, <1>3 DEF Framed

\* Where it goes from there.
LEMMA AfterCases ==
    ASSUME NEW b \in BundleOf(Size), NEW p, Framed(b, p), p # End
    PROVE  /\ p.field = 0 => After(b, p) = IF 0 < Len(Fields(b, p.section))
                                        THEN At(p.section, 1, 0) ELSE Start(p.section + 1)
           /\ p.field # 0 /\ p.part < Parts(FieldAt(b, p).size)
                 => After(b, p) = At(p.section, p.field, p.part + 1)
           /\ p.field # 0 /\ p.part = Parts(FieldAt(b, p).size)
                 => After(b, p) = IF p.field < Len(Fields(b, p.section))
                               THEN At(p.section, p.field + 1, 0) ELSE Start(p.section + 1)
<1> DEFINE len == Len(Fields(b, p.section))
           done == FieldDone(b, p)
<1>1. p = At(p.section, p.field, p.part) /\ p.field \in Nat /\ p.part \in Nat /\ len \in Nat
  BY FramedCases, FieldsType
<1>3. /\ ~done => After(b, p) = At(p.section, p.field, p.part + 1)
      /\ done /\ p.field < len => After(b, p) = At(p.section, p.field + 1, 0)
      /\ done /\ ~(p.field < len) => After(b, p) = Start(p.section + 1)
  BY DEF After
<1>4. /\ p.field = 0 => done
      /\ p.field # 0 => (done <=> p.part = Parts(FieldAt(b, p).size))
  BY DEF FieldDone
<1>5. p.field # 0 => Parts(FieldAt(b, p).size) \in Nat
  BY FramedCases
<1> QED
  <2> HIDE DEF len, done
  <2>1. CASE p.field = 0
    BY <2>1, <1>1, <1>3, <1>4 DEF len
  <2>2. CASE p.field # 0 /\ p.part = Parts(FieldAt(b, p).size)
    BY <2>2, <1>1, <1>3, <1>4, <1>5 DEF len
  <2>3. CASE p.field # 0 /\ p.part < Parts(FieldAt(b, p).size)
    BY <2>3, <1>1, <1>3, <1>4, <1>5 DEF len
  <2> QED
    BY <2>1, <2>2, <2>3, <1>1, <1>5

\* It stays in the frame, and never comes back to its beginning.
LEMMA AfterFramed ==
    ASSUME NEW b \in BundleOf(Size), NEW p, Framed(b, p), p # End
    PROVE  Framed(b, After(b, p)) /\ After(b, p) # Start(0)
<1> DEFINE fs == Fields(b, p.section)
<1>1. /\ p.section \in 0..4 /\ Len(fs) \in Nat /\ p.field \in Nat /\ p.part \in Nat
      /\ \A i \in 1..Len(fs) : Parts(fs[i].size) \in Nat
  <2>1. \A i \in 1..Len(fs) : fs[i].size \in Size
    BY FieldsType DEF Field
  <2> QED
    BY <2>1, FramedCases, FieldsType, PartsType
<1>2. ASSUME NEW s \in 1..5 PROVE Framed(b, Start(s)) /\ Start(s) # Start(0)
  <2>1. Start(s) \in Place /\ Start(s).section = s /\ Start(s).part = 0
        /\ Start(s).field = IF s = 4 THEN 1 ELSE 0
    BY DEF Start, At, Place
  <2>2. Start(0).section = 0
    BY DEF Start, At
  <2>3. CASE s # 4
    BY <2>1, <2>2, <2>3 DEF Framed, Sections
  <2>4. CASE s = 4
    <3>1. FieldAt(b, Start(s)) = Manifest /\ Len(Fields(b, 4)) = 1
      BY <2>1, <2>4, FieldsType DEF FieldAt
    <3>2. Parts(Manifest.size) \in Nat
      <4>1. Manifest.size = "some" /\ "some" \in Size
        BY DEF Manifest, Item, Size
      <4> QED
        BY <4>1, PartsType
    <3>3. 1 \in 1..Len(Fields(b, 4))
      <4>1. 1 \in 1..1
        OBVIOUS
      <4> QED
        BY <3>1, <4>1, Zenon
    <3>4. ASSUME NEW k \in Nat PROVE 0 \in 0..k
      OBVIOUS
    <3>5. 0 \in 0..Parts(FieldAt(b, Start(s)).size)
      BY <3>1, <3>2, <3>4, Zenon
    <3> QED
      BY <2>1, <2>2, <2>4, <3>3, <3>5 DEF Framed
  <2> QED
    BY <2>3, <2>4
<1>3. ASSUME p.section \in 1..4, NEW i \in 1..Len(fs), NEW c \in 0..Parts(fs[i].size)
      PROVE  Framed(b, At(p.section, i, c)) /\ At(p.section, i, c) # Start(0)
  <2>1. /\ At(p.section, i, c) \in Place /\ At(p.section, i, c).section = p.section
        /\ At(p.section, i, c).field = i /\ At(p.section, i, c).part = c
    BY <1>1, <1>3 DEF At, Place
  <2>2. Start(0).section = 0
    BY DEF Start, At
  <2> QED
    BY <1>3, <2>1, <2>2 DEF Framed, FieldAt
<1>4. p.section = 0 => Len(fs) = 0 /\ p.field = 0
  BY FieldsType, FramedCases
<1> HIDE DEF fs
<1>5. CASE p.field = 0
  <2>1. After(b, p) = IF 0 < Len(fs) THEN At(p.section, 1, 0) ELSE Start(p.section + 1)
    BY <1>5, AfterCases DEF fs
  <2> QED
    BY <2>1, <1>1, <1>2, <1>3, <1>4
<1>6. CASE p.field # 0
  <2>1. p.field \in 1..Len(fs) /\ p.section \in 1..4 /\ p.part \in 0..Parts(fs[p.field].size)
    BY <1>6, FramedCases DEF fs, FieldAt
  <2>2. \/ /\ p.part < Parts(fs[p.field].size) /\ After(b, p) = At(p.section, p.field, p.part + 1)
        \/ After(b, p) = IF p.field < Len(fs) THEN At(p.section, p.field + 1, 0)
                                           ELSE Start(p.section + 1)
    BY <1>6, <2>1, <1>1, AfterCases DEF fs, FieldAt
  <2>3. CASE /\ p.part < Parts(fs[p.field].size)
             /\ After(b, p) = At(p.section, p.field, p.part + 1)
    <3>1. p.part + 1 \in 0..Parts(fs[p.field].size)
      BY <2>1, <2>3, <1>1
    <3> QED
      BY <2>1, <2>3, <3>1, <1>3
  <2>4. CASE After(b, p) = At(p.section, p.field + 1, 0) /\ p.field < Len(fs)
    <3>1. p.field + 1 \in 1..Len(fs)
      BY <2>1, <2>4, <1>1
    <3>2. 0 \in 0..Parts(fs[p.field + 1].size)
      BY <3>1, <1>1
    <3> QED
      BY <2>1, <2>4, <3>1, <3>2, <1>3
  <2>5. CASE After(b, p) = Start(p.section + 1)
    <3>1. p.section + 1 \in 1..5
      BY <2>1
    <3> QED
      BY <2>5, <3>1, <1>2
  <2> QED
    BY <2>2, <2>3, <2>4, <2>5
<1> QED
  BY <1>5, <1>6

\* What it writes.
LEMMA WriteCases ==
    ASSUME NEW b \in BundleOf(Size), NEW p, Framed(b, p), p # End
    PROVE  /\ WriteAt(b, p) \in Unit
           /\ p.section = 0 => WriteAt(b, p) = [unit |-> "bundle"]
           /\ p.section # 0 /\ p.field = 0 => WriteAt(b, p) = CountUnit(Len(b[p.section]))
           /\ p.field # 0 /\ p.part = 0
                 => WriteAt(b, p) = FieldUnit(FieldAt(b, p).name, FieldAt(b, p).size)
           /\ p.field # 0 /\ p.part # 0
                 => WriteAt(b, p) = BytesUnit(IF p.section = 4 THEN "intact"
                                                            ELSE View(FieldAt(b, p).data, live))
<1>1. /\ p.section \in 0..4 /\ p.field \in Nat /\ p.part \in Nat
      /\ p.field = 0 => p.section \in 0..3
      /\ p.field # 0 => p.section # 0 /\ FieldAt(b, p) \in Field(Size)
  BY FramedCases
<1>2. CASE p.section = 0
  BY <1>1, <1>2 DEF WriteAt, Unit
<1>3. CASE p.section # 0 /\ p.field = 0
  <2>1. Len(b[p.section]) \in Nat
    BY <1>1, <1>3, LenProperties DEF Sections, BundleOf
  <2>2. WriteAt(b, p) = CountUnit(Len(b[p.section]))
    BY <1>1, <1>3 DEF WriteAt
  <2> QED
    BY <1>3, <2>1, <2>2 DEF CountUnit, Unit
<1>4. CASE p.field # 0 /\ p.part = 0
  <2>1. WriteAt(b, p) = FieldUnit(FieldAt(b, p).name, FieldAt(b, p).size)
    BY <1>1, <1>4 DEF WriteAt
  <2> QED
    BY <1>1, <1>4, <2>1 DEF FieldUnit, Unit, Field
<1>5. CASE p.field # 0 /\ p.part # 0
  <2> DEFINE data == IF p.section = 4 THEN "intact" ELSE View(FieldAt(b, p).data, live)
  <2>1. WriteAt(b, p) = BytesUnit(data)
    BY <1>1, <1>5 DEF WriteAt
  <2>2. data \in Slice
    BY DEF View, Slice
  <2> HIDE DEF data
  <2>3. BytesUnit(data) \in Unit
    BY <2>2 DEF BytesUnit, Unit
  <2> QED
    BY <1>1, <1>5, <2>1, <2>3 DEF data
<1> QED
  BY <1>2, <1>3, <1>4, <1>5

\* The header is a place of any frame.
LEMMA FramedStart == \A b : Framed(b, Start(0))
BY DEF Framed, Start, At, Place, Sections

LEMMA TypeInit == Init => TInv
<1> SUFFICES ASSUME Init PROVE TInv
  OBVIOUS
<1>1. plan \in Plans /\ Len(plan) \in Nat
  BY PlanAssumption, LenProperties DEF Init
<1>2. 1 \in Version
  BY SourceAssumption, EmptySeq DEF Version
<1>3. NoField \in [name : Name, size : Size]
  <2>1. <<0, NoKey>> \in Name
    BY DEF Name, AnyKey
  <2> QED
    BY <2>1 DEF NoField, Size
<1>4. \A kinds : NoItems \in BundleOf(kinds)
  BY EmptySeq DEF NoItems, BundleOf
<1>5. DaemonType
  <2>1. ti \in 1..(Len(plan) + 1)
    BY <1>1 DEF Init
  <2>2. want \in Seq(AnyKey)
    BY EmptySeq DEF Init
  <2> QED
    BY <1>1, <1>2, <1>4, <2>1, <2>2 DEF Init, DaemonType, Size
<1>9. MemoryType /\ ClientMemoryType
  BY DEF Init, MemoryType, ClientMemoryType
<1>6. ConnType
  <2>1. pipe \in Seq(Unit) /\ Len(pipe) = 0
    BY EmptySeq DEF Init
  <2> QED
    BY <2>1, FramedStart, SizeAssumption DEF Init, ConnType, Framed
<1>7. ClientType
  <2>1. cItems \in BundleOf(Slice) /\ field \in [name : Name, size : Size]
    BY <1>3, <1>4 DEF Init
  <2> QED
    <3>1. /\ cpc = "header" /\ cOpen = TRUE /\ section = 0 /\ left = 0 /\ ai = 1
          /\ manifest = FALSE
      BY DEF Init
    <3>2. cpc \in Reading /\ cOpen \in BOOLEAN /\ manifest \in BOOLEAN
      BY <3>1 DEF Reading
    <3>3. section \in 0..4 /\ left \in Nat /\ ai \in Nat \ {0}
      BY <3>1
    <3> QED
      BY <2>1, <3>2, <3>3 DEF ClientType
<1>8. FrameInv
  BY FramedStart DEF Init, FrameInv, Building
<1> QED
  BY <1>5, <1>6, <1>7, <1>8, <1>9 DEF TInv, TypeOK, TargetInv, LeftInv, Init

\* The numbers of buffers only grow.
LEMMA Ranges ==
    ASSUME NEW m \in Nat, NEW n \in Nat, m <= n
    PROVE  1..m \subseteq 1..n /\ 1..m \subseteq 1..(n + 1) /\ n + 1 \in 1..(n + 1)
OBVIOUS

\* AddSecret keeps the bundle's types.
LEMMA AddSecretTypes ==
    ASSUME items \in BundleOf(Size), alloc \in Nat, locked \subseteq 1..alloc,
           NEW name \in Name, NEW size \in Size, NEW n \in Nat, alloc <= n,
           NEW base \in SUBSET (1..n), AddSecret(name, size, base, n)
    PROVE  /\ items' \in BundleOf(Size)
           /\ alloc' \in Nat /\ n <= alloc' /\ alloc <= alloc'
           /\ locked' \subseteq 1..alloc' /\ live' \subseteq 1..alloc'
<1> DEFINE copy == Fresh(n + 1, size)
<1>1. /\ items' = WithItem(name, size, copy) /\ locked' = locked \cup Buffers(copy)
      /\ alloc' = IF copy = 0 THEN n ELSE n + 1
      /\ live' = base \cup Buffers(copy)
  BY DEF AddSecret
<1>2. copy \in {0, n + 1} /\ Buffers(0) = {} /\ Buffers(n + 1) = {n + 1}
  BY BufferFacts
<1> HIDE DEF copy
<1>3. items' \in BundleOf(Size)
  BY <1>1, <1>2, WithItemType
<1>4. CASE copy = 0
  <2>1. locked' = locked /\ alloc' = n /\ live' = base
    BY <1>1, <1>2, <1>4
  <2> QED
    BY <1>3, <2>1, Ranges
<1>5. CASE copy = n + 1
  <2>1. locked' = locked \cup {n + 1} /\ alloc' = n + 1 /\ live' = base \cup {n + 1}
    BY <1>1, <1>2, <1>5
  <2>2. 1..alloc \subseteq 1..(n + 1) /\ 1..n \subseteq 1..(n + 1) /\ n + 1 \in 1..(n + 1)
    BY Ranges
  <2> QED
    BY <1>3, <2>1, <2>2
<1> QED
  BY <1>2, <1>4, <1>5

\* The name of a field is one.
LEMMA FieldNameType ==
    ASSUME DaemonType, NEW k \in AnyKey
    PROVE  FieldName(k) \in Name
<1>1. ti \in Nat
  <2>1. Len(plan) \in Nat
    BY PlanAssumption, LenProperties DEF DaemonType
  <2> QED
    BY <2>1 DEF DaemonType
<1>2. (IF Target.kind \in {"envdir", "envall"} THEN k ELSE NoKey) \in AnyKey
  BY DEF AnyKey
<1> QED
  BY <1>1, <1>2 DEF FieldName, Name

\* What building the bundle leaves alone.
LEMMA BuildFrame ==
    Build => UNCHANGED <<plan, form, version, at, recorded, pipe, dOpen, cOpen, clientVars>>
BY DEF Build, OpenSource, captureDecrypt, Keys, Value, Payload, CloseHandle,
       BuildFails, BuildManifest, sourceVars, connVars

LEMMA BuildTypes == TInv /\ Build => TInv'
<1> SUFFICES ASSUME TInv, Build PROVE TInv'
  OBVIOUS
<1>1. UNCHANGED <<plan, form, version, at, recorded, pipe, dOpen, cOpen, clientVars>>
  BY BuildFrame
<1>2. ConnType' /\ ClientType' /\ ClientMemoryType' /\ LeftInv'
  BY <1>1 DEF TInv, TypeOK, ConnType, ClientType, ClientMemoryType, LeftInv, clientVars,
              decodeVars, containerVars
<1>3. dpc \in Building
  BY DEF Build, OpenSource, captureDecrypt, Keys, Value, Payload, CloseHandle,
         BuildFails, BuildManifest, Building
<1>4. FrameInv'
  <2>1. at' = Start(0) /\ pipe' = <<>> /\ ~recorded'
    BY <1>1, <1>3 DEF FrameInv, TInv
  <2> QED
    BY <2>1, FramedStart DEF FrameInv
<1>5. DaemonType /\ MemoryType /\ TargetInv
  BY DEF TInv, TypeOK
<1>6. /\ Len(plan) \in Nat /\ version \in Version /\ decrypted \in Version /\ ti \in Nat
      /\ alloc \in Nat /\ items \in BundleOf(Size) /\ locked \subseteq 1..alloc
  <2>1. Len(plan) \in Nat
    BY <1>5, PlanAssumption, LenProperties DEF DaemonType
  <2> QED
    BY <1>5, <2>1 DEF DaemonType, MemoryType
<1>7. DaemonType' /\ MemoryType' /\ TargetInv'
  <2>1. CASE OpenSource
    <3>1. ti \in 1..Len(plan)
      BY <2>1, <1>5, <1>6 DEF OpenSource, DaemonType
    <3>2. Target.key \in AnyKey
      <4>1. Target \in [kind : Kinds, key : KeyNames \cup {NoKey}, pointer : BOOLEAN]
        BY <3>1, <1>5, PlanAssumption, ElementOfSeq DEF Target, DaemonType
      <4> QED
        BY <4>1 DEF AnyKey
    <3>3. want' \in Seq(AnyKey)
      <4>1. want' = <<>> \/ want' = <<Target.key>>
        BY <2>1 DEF OpenSource
      <4>2. CASE want' = <<>>
        BY <4>2, EmptySeq
      <4>3. CASE want' = <<Target.key>>
        <5> DEFINE k == Target.key
        <5>1. k \in AnyKey /\ want' = <<k>>
          BY <3>2, <4>3
        <5> HIDE DEF k
        <5> QED
          BY <5>1
      <4> QED
        BY <4>1, <4>2, <4>3
    <3>4. Target' = Target
      BY <2>1 DEF OpenSource, Target, sourceVars
    <3>5. /\ dpc' = "capture" /\ listed' = (Target.kind \notin Listing) /\ render' = "empty"
          /\ UNCHANGED <<plan, form, version, ti, decrypted, plain, retained, items, locked,
                         live, alloc, recorded>>
      BY <2>1 DEF OpenSource, sourceVars, bundleVars, memVars
    <3>6. DaemonType' /\ MemoryType'
      BY <1>5, <3>3, <3>5 DEF DaemonType, MemoryType, Size
    <3>7. ti' <= Len(plan')
      BY <3>1, <3>5, <1>6
    <3>8. ~listed' => Target'.kind \in Listing
      BY <3>4, <3>5
    <3> QED
      BY <3>5, <3>6, <3>7, <3>8 DEF TargetInv
  <2>2. CASE captureDecrypt
    <3>1. /\ dpc = "capture" /\ dpc' = "use" /\ decrypted' = version
          /\ ~listed \/ want # <<>>
          /\ UNCHANGED <<plan, form, version, ti, listed, want, retained, render, items,
                         locked, recorded>>
          /\ \/ plain' = 0 /\ alloc' = alloc /\ live' = live
             \/ plain' = alloc + 1 /\ alloc' = alloc + 1 /\ live' = live \cup {alloc + 1}
      BY <2>2 DEF captureDecrypt, sourceVars, bundleVars
    <3>2. DaemonType'
      BY <3>1, <1>5 DEF DaemonType
    <3>3. MemoryType'
      <4>1. 1..alloc \subseteq 1..(alloc + 1) /\ alloc + 1 \in 1..(alloc + 1)
        BY <1>6, Ranges
      <4>2. CASE plain' = 0 /\ alloc' = alloc /\ live' = live
        BY <3>1, <4>2, <1>5, <1>6 DEF MemoryType
      <4>3. CASE plain' = alloc + 1 /\ alloc' = alloc + 1 /\ live' = live \cup {alloc + 1}
        <5>1. retained' = retained /\ locked' = locked
          BY <3>1
        <5> QED
          BY <5>1, <4>1, <4>3, <1>5, <1>6 DEF MemoryType
      <4> QED
        BY <3>1, <4>2, <4>3
    <3> QED
      BY <3>1, <3>2, <3>3, <1>5 DEF TargetInv, Target
  <2>3. CASE Keys
    <3>1. /\ dpc = "use" /\ dpc' = "capture" /\ listed' = TRUE
          /\ want' = dotenvKeys(decrypted)
          /\ live' = live \ Buffers(plain) /\ plain' = 0
          /\ UNCHANGED <<plan, form, version, ti, decrypted, retained, render, items,
                         locked, alloc, recorded>>
      BY <2>3 DEF Keys, sourceVars, bundleVars
    <3>2. want' \in Seq(AnyKey)
      BY <3>1, <1>6, SourceTypes
    <3>3. DaemonType' /\ MemoryType'
      <4>1. DaemonType'
        BY <3>1, <3>2, <1>5 DEF DaemonType
      <4>2. live' \subseteq live /\ plain' = 0 /\ UNCHANGED <<retained, locked, alloc>>
        BY <3>1
      <4>3. MemoryType'
        BY <4>2, <1>5 DEF MemoryType
      <4> QED
        BY <4>1, <4>3
    <3> QED
      BY <3>1, <3>3, <1>5 DEF TargetInv
  <2>4. CASE Value
    <3> DEFINE size == dotenvFind(decrypted, Head(want))
               out == Fresh(alloc + 1, size)
               n == IF out = 0 THEN alloc ELSE alloc + 1
               base == (live \cup Buffers(out)) \ Buffers(plain)
    <3>1. /\ dpc = "use" /\ listed /\ Found(decrypted, Head(want))
          /\ retained' = retained \cup Buffers(out) /\ plain' = 0 /\ dpc' = "capture"
          /\ want' = Tail(want)
          /\ UNCHANGED <<plan, form, version, ti, decrypted, listed, recorded>>
          /\ \/ /\ render' = Joined(render, size) /\ alloc' = n /\ live' = base
                /\ UNCHANGED <<items, locked>>
             \/ AddSecret(FieldName(Head(want)), size, base, n) /\ UNCHANGED render
      BY <2>4 DEF Value, sourceVars, bundleVars
    <3>2. size \in Size
      BY <3>1, <1>6, SourceTypes
    <3>3. want # <<>> /\ Head(want) \in AnyKey /\ Tail(want) \in Seq(AnyKey)
      BY <3>1, <1>5, HeadTailProperties DEF DaemonType, TargetInv
    <3>4. n \in Nat /\ alloc <= n /\ base \in SUBSET (1..n) /\ retained' \subseteq 1..n
      <4>1. out \in {0, alloc + 1} /\ Buffers(0) = {} /\ Buffers(alloc + 1) = {alloc + 1}
        BY <1>6, BufferFacts
      <4>2. /\ retained \subseteq 1..alloc /\ live \subseteq 1..alloc
            /\ 1..alloc \subseteq 1..(alloc + 1) /\ alloc + 1 \in 1..(alloc + 1)
        BY <1>5, <1>6, Ranges DEF MemoryType
      <4>3. retained' = retained \cup Buffers(out) /\ base \subseteq live \cup Buffers(out)
        BY <3>1
      <4> HIDE DEF base
      <4>4. CASE out = 0
        <5>1. n = alloc /\ Buffers(out) = {}
          BY <4>1, <4>4
        <5> HIDE DEF n, out
        <5>2. n \in Nat /\ alloc <= n
          BY <5>1, <1>6
        <5>3. base \subseteq 1..n /\ retained' \subseteq 1..n
          BY <5>1, <4>2, <4>3
        <5> QED
          BY <5>2, <5>3
      <4>5. CASE out = alloc + 1
        <5>1. n = alloc + 1 /\ Buffers(out) = {alloc + 1}
          BY <4>1, <4>5, <1>6
        <5> HIDE DEF n
        <5>2. n \in Nat /\ alloc <= n
          BY <5>1, <1>6
        <5>3. 1..n = 1..(alloc + 1) /\ Buffers(out) \subseteq 1..(alloc + 1)
          BY <5>1, <4>2
        <5>4. base \subseteq 1..n /\ retained' \subseteq 1..n
          <6> HIDE DEF out
          <6> QED
            BY <5>3, <4>2, <4>3, Zenon
        <5> QED
          BY <5>2, <5>4
      <4> QED
        BY <4>1, <4>4, <4>5
    <3> HIDE DEF size, base, n
    <3>5. /\ items' \in BundleOf(Size) /\ alloc' \in Nat /\ n <= alloc'
          /\ locked' \subseteq 1..alloc' /\ live' \subseteq 1..alloc' /\ render' \in Size
      <4>1. CASE /\ render' = Joined(render, size) /\ alloc' = n /\ live' = base
                 /\ UNCHANGED <<items, locked>>
        <5>1. locked' \subseteq 1..n
          BY <4>1, <3>4, <1>6, Ranges
        <5>2. Joined(render, size) \in Size
          BY DEF Joined, Size
        <5> QED
          BY <4>1, <5>1, <5>2, <3>4, <1>6
      <4>2. CASE AddSecret(FieldName(Head(want)), size, base, n) /\ UNCHANGED render
        <5>1. FieldName(Head(want)) \in Name
          BY <3>3, <1>5, FieldNameType
        <5>2. render' \in Size
          BY <4>2, <1>5 DEF DaemonType
        <5> QED
          BY <4>2, <5>1, <5>2, <3>2, <3>4, <1>6, AddSecretTypes
      <4> QED
        BY <3>1, <4>1, <4>2
    <3>6. DaemonType'
      BY <3>1, <3>3, <3>5, <1>5 DEF DaemonType
    <3>7. MemoryType'
      BY <3>1, <3>4, <3>5, Ranges DEF MemoryType
    <3> QED
      BY <3>1, <3>6, <3>7, <1>5 DEF TargetInv, Target
  <2>5. CASE Payload
    <3>1. /\ dpc = "use" /\ dpc' = "capture" /\ want' = <<>>
          /\ retained' = retained \cup Buffers(plain) /\ plain' = 0
          /\ AddSecret(FieldName(NoKey), Binary[decrypted], live, alloc)
          /\ UNCHANGED <<plan, form, version, ti, decrypted, listed, render, recorded>>
      BY <2>5 DEF Payload, sourceVars
    <3>2. FieldName(NoKey) \in Name /\ Binary[decrypted] \in Size
      BY <1>5, <1>6, SourceTypes, FieldNameType DEF AnyKey
    <3>3. /\ items' \in BundleOf(Size) /\ alloc' \in Nat /\ alloc <= alloc'
          /\ locked' \subseteq 1..alloc' /\ live' \subseteq 1..alloc'
      <4>1. live \in SUBSET (1..alloc) /\ alloc <= alloc
        BY <1>5, <1>6 DEF MemoryType
      <4> QED
        BY <3>1, <3>2, <4>1, <1>6, AddSecretTypes
    <3>4. retained' \subseteq 1..alloc'
      <4>1. retained' \subseteq 1..alloc
        BY <3>1, <1>5 DEF MemoryType, Buffers
      <4> QED
        BY <4>1, <3>3, <1>6, Ranges
    <3>5. want' \in Seq(AnyKey)
      BY <3>1, EmptySeq
    <3>6. DaemonType'
      BY <3>1, <3>3, <3>5, <1>5 DEF DaemonType
    <3>7. MemoryType'
      BY <3>1, <3>3, <3>4 DEF MemoryType
    <3> QED
      BY <3>1, <3>6, <3>7, <1>5 DEF TargetInv, Target
  <2>6. CASE CloseHandle
    <3> DEFINE n == IF render = "empty" THEN alloc ELSE alloc + 1
    <3>1. /\ dpc = "capture" /\ dpc' = "open" /\ retained' = {} /\ ti' = ti + 1
          /\ UNCHANGED <<plan, form, version, decrypted, plain, listed, want, render, recorded>>
          /\ \/ AddSecret(FieldName(NoKey), render, live \ retained, n)
             \/ live' = live \ retained /\ UNCHANGED <<items, locked, alloc>>
      BY <2>6 DEF CloseHandle, sourceVars, bundleVars
    <3>2. n \in Nat /\ alloc <= n /\ live \ retained \in SUBSET (1..n)
      <4>1. n \in Nat /\ alloc <= n
        BY <1>6
      <4> HIDE DEF n
      <4> QED
        BY <4>1, <1>5, <1>6, Ranges DEF MemoryType
    <3> HIDE DEF n
    <3>3. /\ items' \in BundleOf(Size) /\ alloc' \in Nat /\ alloc <= alloc'
          /\ locked' \subseteq 1..alloc' /\ live' \subseteq 1..alloc'
      <4>1. CASE AddSecret(FieldName(NoKey), render, live \ retained, n)
        <5>1. FieldName(NoKey) \in Name /\ render \in Size
          BY <1>5, FieldNameType DEF AnyKey, DaemonType
        <5> QED
          BY <4>1, <5>1, <3>2, <1>6, AddSecretTypes
      <4>2. CASE live' = live \ retained /\ UNCHANGED <<items, locked, alloc>>
        BY <4>2, <1>5, <1>6 DEF MemoryType
      <4> QED
        BY <3>1, <4>1, <4>2
    <3>4. ti' \in 1..(Len(plan) + 1)
      BY <3>1, <1>5, <1>6 DEF TargetInv
    <3>5. DaemonType'
      BY <3>1, <3>3, <3>4, <1>5 DEF DaemonType
    <3>6. MemoryType'
      <4>1. plain' \in 0..alloc'
        BY <3>1, <3>3, <1>5, <1>6 DEF MemoryType
      <4> QED
        BY <3>1, <3>3, <4>1 DEF MemoryType
    <3> QED
      BY <3>1, <3>5, <3>6 DEF TargetInv
  <2>7. CASE BuildFails
    <3>1. NoItems \in BundleOf(Size)
      BY EmptySeq DEF NoItems, BundleOf
    <3>2. /\ dpc' = "error" /\ plain' = 0 /\ retained' = {} /\ locked' = {}
          /\ live' \subseteq live /\ items' = NoItems
          /\ UNCHANGED <<plan, form, version, ti, decrypted, listed, want, render, alloc,
                         recorded>>
      BY <2>7 DEF BuildFails, sourceVars
    <3>3. DaemonType'
      BY <3>1, <3>2, <1>5 DEF DaemonType
    <3>4. MemoryType'
      BY <3>2, <1>5 DEF MemoryType
    <3> QED
      BY <3>2, <3>3, <3>4 DEF TargetInv
  <2>8. CASE BuildManifest
    BY <2>8, <1>5 DEF BuildManifest, DaemonType, MemoryType, TargetInv, sourceVars,
                      handleVars, bundleVars, memVars
  <2> QED
    BY <2>1, <2>2, <2>3, <2>4, <2>5, <2>6, <2>7, <2>8 DEF Build
<1> QED
  BY <1>2, <1>4, <1>7 DEF TInv, TypeOK

\* Two bundles with the same names and sizes have the same frame.
SameShape(b, c) ==
    \A s \in Sections :
        /\ Len(c[s]) = Len(b[s])
        /\ \A i \in 1..Len(b[s]) : c[s][i].name = b[s][i].name /\ c[s][i].size = b[s][i].size

LEMMA SameFields ==
    ASSUME NEW b \in BundleOf(Size), NEW c \in BundleOf(Size), SameShape(b, c), NEW s
    PROVE  /\ Len(Fields(c, s)) = Len(Fields(b, s))
           /\ \A i \in 1..Len(Fields(b, s)) : /\ Fields(c, s)[i].name = Fields(b, s)[i].name
                                              /\ Fields(c, s)[i].size = Fields(b, s)[i].size
<1>1. CASE s \in Sections
  BY <1>1, FieldsType DEF SameShape
<1>2. CASE s \notin Sections
  BY <1>2 DEF Fields
<1> QED
  BY <1>1, <1>2

LEMMA SameFrame ==
    ASSUME NEW b \in BundleOf(Size), NEW c \in BundleOf(Size), SameShape(b, c),
           NEW p, Framed(b, p)
    PROVE  /\ Framed(c, p)
           /\ p # End => After(c, p) = After(b, p)
           /\ p # End /\ p.field # 0 => /\ FieldAt(c, p).name = FieldAt(b, p).name
                                        /\ FieldAt(c, p).size = FieldAt(b, p).size
<1>1. CASE p = End
  BY <1>1 DEF End, Framed, Start, At, Place
<1>2. CASE p # End
  <2>1. /\ p \in Place
        /\ p.field = 0 => p = Start(p.section) /\ p.section \in Sections \cup {0, 5}
        /\ p.field # 0 => /\ p.section \in 1..4 /\ p.field \in 1..Len(Fields(b, p.section))
                          /\ p.part \in 0..Parts(FieldAt(b, p).size)
    BY <1>2, FramedCases DEF Framed, Sections
  <2>2. p.field # 0 => /\ FieldAt(c, p).name = FieldAt(b, p).name
                       /\ FieldAt(c, p).size = FieldAt(b, p).size
    BY <2>1, SameFields DEF FieldAt
  <2>3. Len(Fields(c, p.section)) = Len(Fields(b, p.section))
    BY SameFields
  <2>4. FieldDone(c, p) <=> FieldDone(b, p)
    BY <2>2 DEF FieldDone
  <2>5. After(c, p) = After(b, p)
    BY <2>3, <2>4 DEF After
  <2>6. Framed(c, p)
    BY <2>1, <2>2, <2>3 DEF Framed
  <2> QED
    BY <2>2, <2>5, <2>6
<1> QED
  BY <1>1, <1>2

LEMMA ClearedShape ==
    ASSUME NEW b \in BundleOf(Size)
    PROVE  Cleared(b) \in BundleOf(Size) /\ SameShape(b, Cleared(b))
<1>1. \A s \in Sections : DOMAIN b[s] = 1..Len(b[s])
  BY LenProperties DEF BundleOf
<1> QED
  BY <1>1, ClearedFields DEF SameShape

\* What a write leaves alone, and what comes of the bundle at the end.
LEMMA RespondFrame ==
    /\ Respond => UNCHANGED <<plan, form, version, handleVars, alloc, cOpen, clientVars>>
    /\ EncodeBundle => UNCHANGED <<dpc, items, locked, live, recorded, dOpen>>
    /\ EncodeFails \/ RecordAndDestroy => UNCHANGED <<at, pipe>> /\ DestroyAndClose
    /\ WriteError => UNCHANGED <<items, locked, live, recorded, at>>
BY DEF Respond, EncodeBundle, EncodeFails, RecordAndDestroy, WriteError, sourceVars, bundleVars,
       memVars

LEMMA RespondTypes == TInv /\ Respond => TInv'
<1> SUFFICES ASSUME TInv, Respond PROVE TInv'
  OBVIOUS
<1>1. UNCHANGED <<plan, form, version, ti, decrypted, plain, listed, want, retained, render,
                  alloc, cOpen, clientVars>>
  BY RespondFrame DEF handleVars
<1>2. ClientType' /\ ClientMemoryType' /\ LeftInv'
  BY <1>1 DEF TInv, TypeOK, ClientType, ClientMemoryType, LeftInv, clientVars, decodeVars,
              containerVars
<1>3. /\ DaemonType /\ MemoryType /\ ConnType /\ FrameInv /\ items \in BundleOf(Size)
      /\ pipe \in Seq(Unit) /\ Len(pipe) \in Nat
  BY LenProperties DEF TInv, TypeOK, DaemonType, ConnType
<1>4. CASE EncodeBundle
  <2>1. /\ dpc = "encode" /\ at # End /\ Len(pipe) < PipeCap
        /\ pipe' = Append(pipe, WriteAt(items, at)) /\ at' = After(items, at)
        /\ UNCHANGED <<dpc, items, locked, live, recorded, dOpen>>
    BY <1>4, RespondFrame DEF EncodeBundle
  <2>2. Framed(items, at) /\ WriteAt(items, at) \in Unit /\ Framed(items, After(items, at))
    BY <1>3, <2>1, AfterFramed, WriteCases DEF FrameInv
  <2>3. pipe' \in Seq(Unit) /\ Len(pipe') <= PipeCap
    BY <1>3, <2>1, <2>2, AppendProperties, SizeAssumption
  <2>4. DaemonType' /\ MemoryType'
    BY <1>1, <1>3, <2>1 DEF DaemonType, MemoryType
  <2>5. ConnType'
    BY <1>3, <2>1, <2>2, <2>3 DEF ConnType, Framed
  <2>6. FrameInv' /\ TargetInv'
    BY <2>1, <2>2 DEF FrameInv, TargetInv, Building
  <2> QED
    BY <1>2, <2>4, <2>5, <2>6 DEF TInv, TypeOK
<1>5. CASE EncodeFails \/ RecordAndDestroy
  <2>1. /\ dpc = "encode" /\ dpc' = "done" /\ UNCHANGED <<at, pipe>> /\ recorded' \in BOOLEAN
        /\ live' \subseteq live /\ locked' = {} /\ items' = Cleared(items) /\ dOpen' = FALSE
    <3>1. recorded' = TRUE \/ recorded' = recorded
      BY <1>5 DEF EncodeFails, RecordAndDestroy
    <3>2. recorded' \in BOOLEAN
      BY <3>1, <1>3 DEF DaemonType
    <3> QED
      BY <1>5, <3>2, RespondFrame DEF EncodeFails, RecordAndDestroy, DestroyAndClose
  <2>2. items' \in BundleOf(Size) /\ Framed(items', at')
    BY <1>3, <2>1, ClearedShape, SameFrame DEF FrameInv
  <2>3. DaemonType' /\ MemoryType'
    BY <1>1, <1>3, <2>1, <2>2 DEF DaemonType, MemoryType
  <2>4. ConnType'
    BY <1>3, <2>1 DEF ConnType
  <2>5. FrameInv' /\ TargetInv'
    BY <2>1, <2>2 DEF FrameInv, TargetInv, Building
  <2> QED
    BY <1>2, <2>3, <2>4, <2>5 DEF TInv, TypeOK
<1>6. CASE WriteError
  <2>1. /\ dpc = "error" /\ dpc' = "done" /\ dOpen' = FALSE
        /\ pipe' = Append(pipe, [unit |-> "error"]) \/ pipe' = pipe
        /\ UNCHANGED <<items, locked, live, recorded, at>>
    BY <1>6, RespondFrame DEF WriteError
  <2>2. pipe = <<>>
    BY <1>3, <2>1 DEF FrameInv
  <2>3. [unit |-> "error"] \in Unit
    BY DEF Unit
  <2>4. pipe' \in Seq(Unit) /\ Len(pipe') <= PipeCap
    <3>1. CASE pipe' = pipe
      BY <1>3, <3>1 DEF ConnType
    <3>2. CASE pipe' = Append(pipe, [unit |-> "error"])
      <4>1. pipe' \in Seq(Unit) /\ Len(pipe') = Len(pipe) + 1 /\ Len(pipe) = 0
        BY <1>3, <2>2, <2>3, <3>2, AppendProperties, EmptySeq
      <4> QED
        BY <4>1, SizeAssumption
    <3> QED
      BY <2>1, <3>1, <3>2
  <2>5. DaemonType' /\ MemoryType'
    BY <1>1, <1>3, <2>1 DEF DaemonType, MemoryType
  <2>6. ConnType'
    BY <1>3, <2>1, <2>4 DEF ConnType
  <2>7. FrameInv' /\ TargetInv'
    BY <1>3, <2>1 DEF FrameInv, TargetInv, Building
  <2> QED
    BY <1>2, <2>5, <2>6, <2>7 DEF TInv, TypeOK
<1> QED
  BY <1>4, <1>5, <1>6 DEF Respond

\* What a unit carries.
LEMMA UnitFacts ==
    ASSUME NEW u \in Unit
    PROVE  /\ u.unit = "count" => u.n \in Nat
           /\ u.unit = "field" => u.name \in Name /\ u.size \in Size
           /\ u.unit = "bytes" => u.data \in Slice
BY DEF Unit

\* A read takes the first write off the socket and leaves the handler alone.
LEMMA ReceiveFacts ==
    ASSUME pipe \in Seq(Unit), NEW unit, Receive(unit)
    PROVE  /\ pipe # <<>> /\ Head(pipe) = pipe[1] /\ Head(pipe) \in Unit
           /\ Head(pipe).unit = unit
           /\ pipe' \in Seq(Unit) /\ Len(pipe) \in Nat \ {0} /\ Len(pipe') = Len(pipe) - 1
           /\ \A j \in 1..Len(pipe') : pipe'[j] = pipe[j + 1]
           /\ UNCHANGED <<sourceVars, daemonVars, dOpen, containerVars>>
BY HeadTailProperties, EmptySeq DEF Receive

LEMMA AdvanceTypes ==
    ASSUME section \in 0..4, NEW l \in Nat, Advance(section, l)
    PROVE  /\ section' \in 0..4 /\ left' \in Nat /\ cOpen' \in BOOLEAN
           /\ cpc' \in {"field", "count", "apply"}
           /\ cpc' = "field" => left' > 0
<1>1. section' \in 0..4 /\ left' \in Nat
  BY DEF Advance
<1>2. cOpen' \in BOOLEAN
  BY DEF Advance
<1>3. cpc' = "field" => left' > 0
  <2>1. CASE l = 0
    BY <2>1 DEF Advance
  <2>2. CASE l > 0
    BY <2>2 DEF Advance
  <2> QED
    BY <2>1, <2>2
<1> QED
  BY <1>1, <1>2, <1>3, AdvanceGoes

\* One more field received.
LEMMA MoreItems ==
    ASSUME cItems \in BundleOf(Slice), NEW s \in Sections, NEW name \in Name,
           NEW slice \in Slice, NEW b \in Nat
    PROVE  /\ [cItems EXCEPT ![s] = Append(@, Item(name, slice, b))] \in BundleOf(Slice)
           /\ Item(name, slice, b) \in Field(Slice)
<1>1. Item(name, slice, b) \in Field(Slice)
  BY DEF Item, Field
<1>2. Append(cItems[s], Item(name, slice, b)) \in Seq(Field(Slice))
  BY <1>1, AppendProperties DEF BundleOf
<1> QED
  BY <1>1, <1>2 DEF BundleOf

\* What the receiver does is no business of the handler's.
LEMMA ReceiverFrame ==
    Decode \/ ApplyBundle => UNCHANGED <<sourceVars, daemonVars, dOpen>>
BY DEF Decode, ReadHeader, ReadCount, ReadField, ReadBytes, ReadFails, Receive, ApplyBundle,
       ApplyFile, ApplyManifest, EnvFor, ExecDestroys, Execve, Exit, ApplyFails, DestroyClient,
       connVars

LEMMA HandlerStable ==
    ASSUME TInv, UNCHANGED <<sourceVars, daemonVars, dOpen>>,
           \/ UNCHANGED pipe
           \/ /\ pipe' \in Seq(Unit) /\ Len(pipe) \in Nat \ {0} /\ Len(pipe') = Len(pipe) - 1
    PROVE  DaemonType' /\ MemoryType' /\ ConnType' /\ FrameInv' /\ TargetInv'
<1>1. UNCHANGED <<plan, form, version, dpc, ti, decrypted, plain, listed, want, retained,
                  render, items, locked, live, alloc, at, recorded, dOpen>>
  BY DEF sourceVars, daemonVars, handleVars, bundleVars, memVars
<1>2. DaemonType' /\ MemoryType' /\ TargetInv'
  BY <1>1 DEF TInv, TypeOK, DaemonType, MemoryType, TargetInv, Target
<1>3. ConnType'
  BY <1>1, SizeAssumption DEF TInv, TypeOK, ConnType
<1>4. pipe = <<>> => pipe' = <<>>
  BY EmptySeq
<1>5. FrameInv'
  BY <1>1, <1>4 DEF TInv, FrameInv
<1> QED
  BY <1>2, <1>3, <1>5

LEMMA DecodeTypes == TInv /\ Decode => TInv'
<1> SUFFICES ASSUME TInv, Decode PROVE TInv'
  OBVIOUS
<1>1. /\ ClientType /\ ClientMemoryType /\ pipe \in Seq(Unit) /\ cItems \in BundleOf(Slice)
      /\ section \in 0..4 /\ left \in Nat /\ cAlloc \in Nat /\ LeftInv
  BY DEF TInv, TypeOK, ClientType, ClientMemoryType, ConnType
<1>2. DaemonType' /\ MemoryType' /\ ConnType' /\ FrameInv' /\ TargetInv'
  <2>1. \/ UNCHANGED pipe
        \/ /\ pipe' \in Seq(Unit) /\ Len(pipe) \in Nat \ {0} /\ Len(pipe') = Len(pipe) - 1
    <3>1. CASE ReadFails
      BY <3>1 DEF ReadFails
    <3>2. CASE ~ReadFails
      BY <1>1, <3>2, ReceiveFacts DEF Decode, ReadHeader, ReadCount, ReadField, ReadBytes
    <3> QED
      BY <3>1, <3>2
  <2> QED
    BY <2>1, ReceiverFrame, HandlerStable
<1>3. ai' \in Nat \ {0} /\ manifest' \in BOOLEAN
  <2>1. UNCHANGED containerVars
    BY DEF Decode, ReadHeader, ReadCount, ReadField, ReadBytes, ReadFails, Receive
  <2> QED
    BY <2>1, <1>1 DEF containerVars, ClientType
<1>4. ClientType' /\ ClientMemoryType' /\ LeftInv'
  <2>1. CASE ReadHeader
    <3>1. /\ cpc' = "count" /\ section' = 1
          /\ UNCHANGED <<cOpen, left, field, cBuf, cItems, cLocked, cLive, cAlloc>>
      BY <2>1 DEF ReadHeader
    <3>2. ClientType'
      BY <3>1, <1>1, <1>3 DEF ClientType, Reading
    <3> QED
      BY <3>1, <3>2, <1>1 DEF ClientMemoryType, LeftInv
  <2>2. CASE ReadCount
    <3>1. /\ Advance(section, Head(pipe).n) /\ Head(pipe).n \in Nat
          /\ UNCHANGED <<field, cBuf, cItems, cLocked, cLive, cAlloc>>
      BY <2>2, <1>1, ReceiveFacts, UnitFacts DEF ReadCount
    <3>2. /\ section' \in 0..4 /\ left' \in Nat /\ cOpen' \in BOOLEAN
          /\ cpc' \in {"field", "count", "apply"} /\ (cpc' = "field" => left' > 0)
      BY <3>1, <1>1, AdvanceTypes
    <3>3. ClientType'
      BY <3>1, <3>2, <1>1, <1>3 DEF ClientType, Reading
    <3> QED
      BY <3>1, <3>2, <3>3, <1>1 DEF ClientMemoryType, LeftInv
  <2>3. CASE ReadField /\ Head(pipe).size = "empty"
    <3>1. /\ cpc = "field" /\ Advance(section, left - 1) /\ left > 0
          /\ cItems' = [cItems EXCEPT ![section] = Append(@, Item(Head(pipe).name, "empty", 0))]
          /\ UNCHANGED <<field, cBuf, cLocked, cLive, cAlloc>>
      BY <2>3, <1>1 DEF ReadField, LeftInv
    <3>2. Head(pipe).name \in Name
      BY <2>3, <1>1, ReceiveFacts, UnitFacts DEF ReadField
    <3>3. cItems' \in BundleOf(Slice)
      <4>1. CASE section \in Sections
        BY <3>1, <3>2, <4>1, <1>1, MoreItems DEF Slice
      <4>2. CASE section \notin Sections
        BY <3>1, <4>2, <1>1 DEF BundleOf
      <4> QED
        BY <4>1, <4>2
    <3>4. left - 1 \in Nat
      BY <3>1, <1>1
    <3>5. /\ section' \in 0..4 /\ left' \in Nat /\ cOpen' \in BOOLEAN
          /\ cpc' \in {"field", "count", "apply"} /\ (cpc' = "field" => left' > 0)
      BY <3>1, <3>4, <1>1, AdvanceTypes
    <3>6. ClientType'
      BY <3>1, <3>3, <3>5, <1>1, <1>3 DEF ClientType, Reading
    <3> QED
      BY <3>1, <3>5, <3>6, <1>1 DEF ClientMemoryType, LeftInv
  <2>4. CASE ReadField /\ Head(pipe).size # "empty"
    <3>1. /\ cpc = "field" /\ cpc' = "bytes"
          /\ field' = [name |-> Head(pipe).name, size |-> Head(pipe).size]
          /\ cBuf' = IF section = 4 THEN 0 ELSE cAlloc + 1
          /\ cAlloc' = IF section = 4 THEN cAlloc ELSE cAlloc + 1
          /\ cLive' = cLive \cup Buffers(cBuf')
          /\ UNCHANGED <<section, left, cOpen, cItems, cLocked>>
      BY <2>4 DEF ReadField
    <3>2. Head(pipe).name \in Name /\ Head(pipe).size \in Size
      BY <2>4, <1>1, ReceiveFacts, UnitFacts DEF ReadField
    <3>3. ClientType'
      BY <3>1, <3>2, <1>1, <1>3 DEF ClientType, Reading
    <3>4. ClientMemoryType'
      <4>1. CASE section = 4
        <5>1. cBuf' = 0 /\ cAlloc' = cAlloc /\ cLive' = cLive /\ cLocked' = cLocked
          BY <3>1, <4>1, BufferFacts
        <5> QED
          BY <5>1, <1>1 DEF ClientMemoryType
      <4>2. CASE section # 4
        <5>1. /\ cBuf' = cAlloc + 1 /\ cAlloc' = cAlloc + 1 /\ cLocked' = cLocked
              /\ cLive' = cLive \cup {cAlloc + 1}
          BY <3>1, <4>2, <1>1, BufferFacts
        <5>2. 1..cAlloc \subseteq 1..(cAlloc + 1) /\ cAlloc + 1 \in 1..(cAlloc + 1)
          BY <1>1, Ranges
        <5> QED
          BY <5>1, <5>2, <1>1 DEF ClientMemoryType
      <4> QED
        BY <4>1, <4>2
    <3> QED
      BY <3>1, <3>3, <3>4, <1>1 DEF LeftInv
  <2>5. CASE ReadBytes
    <3>1. /\ cpc = "bytes" /\ Advance(section, left - 1) /\ left > 0
          /\ cItems' = IF section = 4 THEN cItems
                       ELSE [cItems EXCEPT ![section] =
                                 Append(@, Item(field.name, Head(pipe).data, cBuf))]
          /\ cLocked' = cLocked \cup Buffers(cBuf) /\ cBuf' = 0
          /\ UNCHANGED <<field, cLive, cAlloc>>
      BY <2>5, <1>1 DEF ReadBytes, LeftInv
    <3>2. Head(pipe).data \in Slice /\ field.name \in Name /\ cBuf \in Nat
      BY <2>5, <1>1, ReceiveFacts, UnitFacts DEF ReadBytes, ClientType, ClientMemoryType
    <3>3. cItems' \in BundleOf(Slice)
      <4>1. CASE section \in Sections
        BY <3>1, <3>2, <4>1, <1>1, MoreItems DEF Sections
      <4>2. CASE section \notin Sections
        BY <3>1, <4>2, <1>1 DEF BundleOf
      <4> QED
        BY <4>1, <4>2
    <3>4. left - 1 \in Nat
      BY <3>1, <1>1
    <3>5. /\ section' \in 0..4 /\ left' \in Nat /\ cOpen' \in BOOLEAN
          /\ cpc' \in {"field", "count", "apply"} /\ (cpc' = "field" => left' > 0)
      BY <3>1, <3>4, <1>1, AdvanceTypes
    <3>6. ClientType'
      BY <3>1, <3>3, <3>5, <1>1, <1>3 DEF ClientType, Reading
    <3>7. ClientMemoryType'
      <4>1. Buffers(cBuf) \subseteq 1..cAlloc
        BY <1>1 DEF ClientMemoryType, Buffers
      <4>2. cLocked' \subseteq 1..cAlloc
        BY <3>1, <4>1, <1>1 DEF ClientMemoryType
      <4> QED
        BY <3>1, <4>2, <1>1 DEF ClientMemoryType
    <3> QED
      BY <3>1, <3>5, <3>6, <3>7 DEF LeftInv
  <2>6. CASE ReadFails
    <3>1. /\ cpc' = "failed" /\ cLive' \subseteq cLive /\ cLocked' = {} /\ cItems' = NoItems
          /\ cBuf' = 0 /\ cOpen' = FALSE
          /\ UNCHANGED <<section, left, field, cAlloc>>
      BY <2>6 DEF ReadFails
    <3>2. NoItems \in BundleOf(Slice)
      BY EmptySeq DEF NoItems, BundleOf
    <3>3. ClientType'
      BY <3>1, <3>2, <1>1, <1>3 DEF ClientType
    <3>4. ClientMemoryType'
      BY <3>1, <1>1 DEF ClientMemoryType
    <3> QED
      BY <3>1, <3>3, <3>4 DEF LeftInv
  <2> QED
    BY <2>1, <2>2, <2>3, <2>4, <2>5, <2>6 DEF Decode
<1> QED
  BY <1>2, <1>4 DEF TInv, TypeOK

LEMMA ApplyTypes == TInv /\ ApplyBundle => TInv'
<1> SUFFICES ASSUME TInv, ApplyBundle PROVE TInv'
  OBVIOUS
<1>1. ClientType /\ ClientMemoryType /\ cItems \in BundleOf(Slice) /\ ai \in Nat \ {0}
  BY DEF TInv, TypeOK, ClientType
<1>2. /\ UNCHANGED <<pipe, cOpen, section, left, field, cBuf, cAlloc>>
      /\ cpc' \in {"apply", "env", "exit", "look", "execve", "app", "ok", "failed"}
  BY DEF ApplyBundle, ApplyFile, ApplyManifest, EnvFor, ExecDestroys, Execve, Exit, ApplyFails,
         DestroyClient, connVars, decodeVars
<1>3. DaemonType' /\ MemoryType' /\ ConnType' /\ FrameInv' /\ TargetInv'
  BY <1>2, ReceiverFrame, HandlerStable
<1>4. ai' \in Nat \ {0} /\ manifest' \in BOOLEAN
  <2>1. ai' = ai \/ ai' = ai + 1
    BY DEF ApplyBundle, ApplyFile, ApplyManifest, EnvFor, ExecDestroys, Execve, Exit,
           ApplyFails, DestroyClient, containerVars
  <2>2. manifest' = manifest \/ manifest' = TRUE
    BY DEF ApplyBundle, ApplyFile, ApplyManifest, EnvFor, ExecDestroys, Execve, Exit,
           ApplyFails, DestroyClient, containerVars
  <2>3. manifest' \in BOOLEAN
    BY <2>2, <1>1 DEF ClientType
  <2> QED
    BY <2>1, <2>3, <1>1
<1>5. /\ cLive' \subseteq cLive /\ cLocked' \subseteq cLocked
      /\ cItems' = cItems \/ cItems' = Cleared(cItems)
  BY DEF ApplyBundle, ApplyFile, ApplyManifest, EnvFor, ExecDestroys, Execve, Exit,
         ApplyFails, DestroyClient, decodeVars
<1>6. cItems' \in BundleOf(Slice)
  BY <1>1, <1>5, ClearedFields
<1>7. ClientType'
  BY <1>1, <1>2, <1>4, <1>6 DEF ClientType
<1>8. ClientMemoryType' /\ LeftInv'
  BY <1>1, <1>2, <1>5 DEF ClientMemoryType, LeftInv
<1> QED
  BY <1>3, <1>7, <1>8 DEF TInv, TypeOK

LEMMA TypeNext == TInv /\ [Next]_vars => TInv'
<1> SUFFICES ASSUME TInv, [Next]_vars PROVE TInv'
  OBVIOUS
<1>1. CASE Rotate
  <2>1. /\ version' \in Version
        /\ UNCHANGED <<plan, form, dpc, ti, decrypted, plain, listed, want, retained, render,
                       items, locked, live, alloc, at, recorded, pipe, dOpen, cOpen, cpc,
                       section, left, field, cBuf, cItems, cLocked, cLive, cAlloc, ai,
                       manifest>>
    BY <1>1 DEF Rotate, daemonVars, handleVars, bundleVars, memVars, connVars, clientVars,
                decodeVars, containerVars
  <2>2. DaemonType' /\ MemoryType' /\ ConnType' /\ ClientType' /\ ClientMemoryType'
    BY <2>1 DEF TInv, TypeOK, DaemonType, MemoryType, ConnType, ClientType, ClientMemoryType
  <2> QED
    BY <2>1, <2>2 DEF TInv, TypeOK, FrameInv, TargetInv, Target, LeftInv
<1>2. CASE UNCHANGED vars
  <2>1. UNCHANGED <<plan, form, version, dpc, ti, decrypted, plain, listed, want, retained,
                    render, items, locked, live, alloc, at, recorded, pipe, dOpen, cOpen, cpc,
                    section, left, field, cBuf, cItems, cLocked, cLive, cAlloc, ai, manifest>>
    BY <1>2 DEF vars, sourceVars, daemonVars, handleVars, bundleVars, memVars, connVars,
                clientVars, decodeVars, containerVars
  <2>2. DaemonType' /\ MemoryType' /\ ConnType' /\ ClientType' /\ ClientMemoryType'
    BY <2>1 DEF TInv, TypeOK, DaemonType, MemoryType, ConnType, ClientType, ClientMemoryType
  <2> QED
    BY <2>1, <2>2 DEF TInv, TypeOK, FrameInv, TargetInv, Target, LeftInv
<1> QED
  BY <1>1, <1>2, BuildTypes, RespondTypes, DecodeTypes, ApplyTypes DEF Next

\* For any sources, plans and sizes: the handler never runs past its last target,
\* no program knows a buffer it did not make, the socket never holds more than it
\* can, and the count of fields still to read never runs below zero.
THEOREM TypeCorrect == Spec => []TypeOK
<1>1. TInv => TypeOK
  BY DEF TInv
<1> QED
  BY <1>1, TypeInit, TypeNext, PTL DEF Spec

-----------------------------------------------------------------------------
(***************************************************************************)
(* A refused bundle. Whatever the encoder is past can be taken. A big      *)
(* field cannot be passed: the receiver does not take its length off the   *)
(* socket, so all its writes since are still there, and there are more of  *)
(* them than the socket holds.                                             *)
(***************************************************************************)
Takeable(it) == it.size # "big" /\ it.name[2] \notin LongKeys

PassedInv ==
    \A s \in Sections : \A i \in 1..Len(items[s]) :
        s < at.section \/ (s = at.section /\ i < at.field) => Takeable(items[s][i])

StuckInv ==
    at.section \in Sections /\ at.field # 0 /\ at.part # 0
        => /\ FieldAt(items, at).name[2] \notin LongKeys
           /\ FieldAt(items, at).size = "big"
                 => /\ at.part <= Len(pipe)
                    /\ pipe[Len(pipe) - at.part + 1].unit = "field"
                    /\ pipe[Len(pipe) - at.part + 1].size = "big"

RecordInv == recorded => at = End

RefusalInv == PassedInv /\ StuckInv /\ RecordInv

\* Nothing is refused before anything is written.
LEMMA RefusalEarly ==
    ASSUME at = Start(0), ~recorded
    PROVE  RefusalInv
<1>1. at.section = 0 /\ at.field = 0
  BY DEF Start, At
<1> QED
  BY <1>1 DEF RefusalInv, PassedInv, StuckInv, RecordInv, Sections

\* A field that is written to its end can be taken.
LEMMA FinishedIsTakeable ==
    ASSUME TInv, RefusalInv, at # End, at.section \in Sections, at.field # 0,
           at.part = Parts(FieldAt(items, at).size), ~TooLong(items, at)
    PROVE  Takeable(FieldAt(items, at))
<1>1. Framed(items, at) /\ items \in BundleOf(Size) /\ Len(pipe) \in Nat /\ Len(pipe) <= PipeCap
  BY LenProperties DEF TInv, TypeOK, FrameInv, DaemonType, ConnType
<1>2. FieldAt(items, at).name[2] \notin LongKeys
  BY DEF RefusalInv, StuckInv, TooLong
<1>3. FieldAt(items, at).size # "big"
  <2> SUFFICES ASSUME FieldAt(items, at).size = "big" PROVE FALSE
    OBVIOUS
  <2>1. at.part = BigChunks
    BY DEF Parts
  <2>2. at.part # 0
    BY <2>1, SizeAssumption
  <2>3. at.part <= Len(pipe)
    BY <2>2 DEF RefusalInv, StuckInv
  <2> QED
    BY <1>1, <2>1, <2>3, SizeAssumption
<1> QED
  BY <1>2, <1>3 DEF Takeable

LEMMA EncodeKeepsRefusal == TInv /\ RefusalInv /\ EncodeBundle => RefusalInv'
<1> SUFFICES ASSUME TInv, RefusalInv, EncodeBundle PROVE RefusalInv'
  OBVIOUS
<1>1. /\ dpc = "encode" /\ at # End /\ ~TooLong(items, at)
      /\ pipe' = Append(pipe, WriteAt(items, at)) /\ at' = After(items, at)
      /\ items' = items /\ recorded' = recorded
  BY RespondFrame DEF EncodeBundle
<1>2. /\ items \in BundleOf(Size) /\ Framed(items, at) /\ pipe \in Seq(Unit)
      /\ Len(pipe) \in Nat
  BY LenProperties DEF TInv, TypeOK, FrameInv, DaemonType, ConnType
<1>3. /\ WriteAt(items, at) \in Unit
      /\ Len(pipe') = Len(pipe) + 1 /\ pipe'[Len(pipe) + 1] = WriteAt(items, at)
      /\ \A j \in 1..Len(pipe) : pipe'[j] = pipe[j]
  <2>1. WriteAt(items, at) \in Unit
    BY <1>1, <1>2, WriteCases
  <2> QED
    BY <1>1, <1>2, <2>1, AppendProperties
<1>4. RecordInv'
  BY <1>1 DEF RefusalInv, RecordInv
<1> DEFINE p == at
           fs == Fields(items, p.section)
<1>5. /\ p = At(p.section, p.field, p.part) /\ p.section \in 0..4
      /\ p.field \in Nat /\ p.part \in Nat /\ Len(fs) \in Nat
      /\ p.field = 0 => p.part = 0 /\ p.section \in 0..3
      /\ p.field # 0 => /\ p.section \in 1..4 /\ p.field \in 1..Len(fs)
                        /\ Parts(FieldAt(items, p).size) \in Nat
                        /\ p.part \in 0..Parts(FieldAt(items, p).size)
      /\ p.section \in Sections => fs = items[p.section]
  BY <1>1, <1>2, FramedCases, FieldsType
<1>6. ASSUME NEW q, at' = q,
             q.section = p.section /\ q.field = p.field /\ q.part = p.part + 1,
             p.field # 0
      PROVE  RefusalInv'
  <2>1. PassedInv'
    BY <1>1, <1>6 DEF RefusalInv, PassedInv
  <2>2. FieldAt(items', at') = FieldAt(items, at)
    BY <1>1, <1>6 DEF FieldAt
  <2>3. ASSUME p.section \in Sections PROVE StuckInv'
    <3>1. FieldAt(items, at).name[2] \notin LongKeys
      BY <1>1, <1>6, <2>3 DEF RefusalInv, StuckInv, TooLong
    <3>2. ASSUME FieldAt(items, at).size = "big"
          PROVE  /\ p.part + 1 <= Len(pipe')
                 /\ pipe'[Len(pipe') - (p.part + 1) + 1].unit = "field"
                 /\ pipe'[Len(pipe') - (p.part + 1) + 1].size = "big"
      <4>1. CASE p.part = 0
        <5>1. WriteAt(items, at) = FieldUnit(FieldAt(items, at).name, FieldAt(items, at).size)
          BY <1>1, <1>2, <1>6, <4>1, WriteCases
        <5>2. WriteAt(items, at).unit = "field" /\ WriteAt(items, at).size = "big"
          BY <5>1, <3>2 DEF FieldUnit
        <5>3. Len(pipe') - (p.part + 1) + 1 = Len(pipe) + 1 /\ p.part + 1 <= Len(pipe')
          BY <4>1, <1>2, <1>3
        <5> QED
          BY <5>2, <5>3, <1>3
      <4>2. CASE p.part # 0
        <5>1. /\ p.part <= Len(pipe) /\ pipe[Len(pipe) - p.part + 1].unit = "field"
              /\ pipe[Len(pipe) - p.part + 1].size = "big"
          BY <1>6, <2>3, <3>2, <4>2 DEF RefusalInv, StuckInv
        <5>2. Len(pipe') - (p.part + 1) + 1 = Len(pipe) - p.part + 1
          <6>1. \A m \in Nat, c \in Nat : (m + 1) - (c + 1) + 1 = m - c + 1
            OBVIOUS
          <6>2. p.part \in Nat
            BY <1>5
          <6> QED
            BY <6>1, <6>2, <1>2, <1>3
        <5>3. Len(pipe) - p.part + 1 \in 1..Len(pipe) /\ p.part + 1 <= Len(pipe')
          BY <1>2, <1>3, <1>5, <4>2, <5>1
        <5> QED
          BY <5>1, <5>2, <5>3, <1>3
      <4> QED
        BY <4>1, <4>2
    <3> QED
      BY <1>6, <2>2, <3>1, <3>2 DEF StuckInv
  <2>4. p.section \notin Sections => StuckInv'
    BY <1>6 DEF StuckInv
  <2> QED
    BY <1>4, <2>1, <2>3, <2>4 DEF RefusalInv
<1>7. ASSUME NEW q, at' = q, q.part = 0,
             \/ q.section = p.section /\ q.field = p.field + 1
             \/ q.section = p.section + 1 /\ ~(p.field < Len(fs))
                /\ q.field = IF q.section = 4 THEN 1 ELSE 0,
             p.field # 0 => p.part = Parts(FieldAt(items, p).size)
      PROVE  RefusalInv'
  <2>1. StuckInv'
    BY <1>7 DEF StuckInv
  <2>2. ASSUME NEW s \in Sections, NEW i \in 1..Len(items[s]),
               s < q.section \/ (s = q.section /\ i < q.field)
        PROVE  Takeable(items[s][i])
    <3>1. CASE s < p.section \/ (s = p.section /\ i < p.field)
      BY <3>1 DEF RefusalInv, PassedInv
    <3>2. CASE ~(s < p.section \/ (s = p.section /\ i < p.field))
      <4>1. Len(items[s]) \in Nat
        BY <1>2, LenProperties DEF BundleOf
      <4>2. s = p.section /\ i = p.field
        <5>1. CASE q.section = p.section /\ q.field = p.field + 1
          <6>1. s = p.section /\ i < p.field + 1
            BY <2>2, <3>2, <5>1
          <6> QED
            BY <6>1, <3>2, <1>5, <4>1
        <5>2. CASE q.section = p.section + 1 /\ ~(p.field < Len(fs))
                   /\ q.field = IF q.section = 4 THEN 1 ELSE 0
          <6>1. s = p.section
            BY <1>5, <2>2, <3>2, <5>2 DEF Sections
          <6>2. i <= p.field
            BY <6>1, <1>5, <5>2, <4>1
          <6> QED
            BY <6>1, <6>2, <1>5, <3>2, <4>1
        <5> QED
          BY <1>7, <5>1, <5>2
      <4>3. p.field # 0 /\ p.section \in Sections
        BY <4>1, <4>2
      <4>4. Takeable(FieldAt(items, p))
        BY <1>1, <1>7, <4>3, FinishedIsTakeable
      <4> QED
        BY <4>2, <4>3, <4>4, <1>5 DEF FieldAt
    <3> QED
      BY <3>1, <3>2
  <2>3. PassedInv'
    BY <1>1, <1>7, <2>2 DEF PassedInv
  <2> QED
    BY <1>4, <2>1, <2>3 DEF RefusalInv
<1>8. ASSUME NEW t \in 0..4
      PROVE  /\ Start(t + 1).section = t + 1 /\ Start(t + 1).part = 0
             /\ Start(t + 1).field = IF Start(t + 1).section = 4 THEN 1 ELSE 0
  BY DEF Start, At
<1>9. \A i, c : /\ At(p.section, i, c).section = p.section
                /\ At(p.section, i, c).field = i /\ At(p.section, i, c).part = c
  BY DEF At
<1>10. CASE p.field # 0 /\ p.part < Parts(FieldAt(items, p).size)
  <2>1. at' = At(p.section, p.field, p.part + 1)
    BY <1>1, <1>2, <1>10, AfterCases
  <2> QED
    BY <2>1, <1>6, <1>9, <1>10
<1>11. CASE p.field # 0 => p.part = Parts(FieldAt(items, p).size)
  <2>1. at' = IF p.field < Len(fs) THEN At(p.section, p.field + 1, 0) ELSE Start(p.section + 1)
    <3>1. CASE p.field = 0
      BY <1>1, <1>2, <1>5, <3>1, AfterCases
    <3>2. CASE p.field # 0
      BY <1>1, <1>2, <1>11, <3>2, AfterCases
    <3> QED
      BY <3>1, <3>2
  <2>2. CASE p.field < Len(fs)
    BY <2>1, <2>2, <1>7, <1>9, <1>11
  <2>3. CASE ~(p.field < Len(fs))
    <3>1. at' = Start(p.section + 1)
      BY <2>1, <2>3
    <3> QED
      BY <3>1, <2>3, <1>5, <1>7, <1>8, <1>11
  <2> QED
    BY <2>2, <2>3
<1> QED
  BY <1>5, <1>10, <1>11

\* The receiver takes no big length off the socket.
LEMMA TakenIsSmall ==
    Decode => \/ UNCHANGED pipe
              \/ \E unit : Receive(unit) /\ (unit = "field" => Head(pipe).size # "big")
BY DEF Decode, ReadHeader, ReadCount, ReadField, ReadBytes, ReadFails

LEMMA ReadKeepsRefusal ==
    ASSUME TInv, RefusalInv, UNCHANGED <<items, at, recorded>>,
           NEW unit, Receive(unit), unit = "field" => Head(pipe).size # "big"
    PROVE  RefusalInv'
<1>1. /\ pipe \in Seq(Unit) /\ Head(pipe) = pipe[1] /\ Head(pipe).unit = unit
      /\ Len(pipe) \in Nat \ {0} /\ Len(pipe') = Len(pipe) - 1
      /\ \A j \in 1..Len(pipe') : pipe'[j] = pipe[j + 1]
  BY ReceiveFacts DEF TInv, TypeOK, ConnType
<1>2. at.part \in Nat
  BY DEF TInv, TypeOK, ConnType, Place
<1>3. ASSUME at.section \in Sections, at.field # 0, at.part # 0,
             FieldAt(items, at).size = "big"
      PROVE  /\ at.part <= Len(pipe')
             /\ pipe'[Len(pipe') - at.part + 1].unit = "field"
             /\ pipe'[Len(pipe') - at.part + 1].size = "big"
  <2>1. /\ at.part <= Len(pipe) /\ pipe[Len(pipe) - at.part + 1].unit = "field"
        /\ pipe[Len(pipe) - at.part + 1].size = "big"
    BY <1>3 DEF RefusalInv, StuckInv
  <2>2. Len(pipe) - at.part + 1 # 1
    BY <1>1, <2>1
  <2>3. /\ Len(pipe') - at.part + 1 \in 1..Len(pipe')
        /\ (Len(pipe') - at.part + 1) + 1 = Len(pipe) - at.part + 1
        /\ at.part <= Len(pipe')
    <3> DEFINE m == Len(pipe)
               c == at.part
    <3>1. m \in Nat \ {0} /\ c \in Nat /\ c # 0 /\ c <= m /\ m - c + 1 # 1 /\ Len(pipe') = m - 1
      BY <1>1, <1>2, <1>3, <2>1, <2>2
    <3> HIDE DEF m, c
    <3>2. /\ (m - 1) - c + 1 \in 1..(m - 1)
          /\ ((m - 1) - c + 1) + 1 = m - c + 1 /\ c <= m - 1
      BY <3>1
    <3> QED
      BY <3>1, <3>2 DEF m, c
  <2> QED
    BY <1>1, <2>1, <2>3
<1>4. StuckInv'
  BY <1>3 DEF RefusalInv, StuckInv, FieldAt
<1>5. PassedInv' /\ RecordInv'
  BY DEF RefusalInv, PassedInv, RecordInv
<1> QED
  BY <1>4, <1>5 DEF RefusalInv

\* Destroy leaves the names and sizes.
LEMMA DestroyKeepsRefusal ==
    ASSUME TInv, RefusalInv, items' = Cleared(items), UNCHANGED <<at, pipe>>,
           recorded' => at = End
    PROVE  RefusalInv'
<1>1. items \in BundleOf(Size) /\ items' \in BundleOf(Size) /\ SameShape(items, items')
      /\ Framed(items, at)
  BY ClearedShape DEF TInv, TypeOK, DaemonType, FrameInv
<1>2. PassedInv'
  <2> SUFFICES ASSUME NEW s \in Sections, NEW i \in 1..Len(items'[s]),
                      s < at.section \/ (s = at.section /\ i < at.field)
               PROVE  Takeable(items'[s][i])
    BY DEF PassedInv
  <2>1. /\ i \in 1..Len(items[s]) /\ items'[s][i].name = items[s][i].name
        /\ items'[s][i].size = items[s][i].size
    BY <1>1 DEF SameShape
  <2> QED
    BY <2>1 DEF RefusalInv, PassedInv, Takeable
<1>3. StuckInv'
  <2>1. at.section \in Sections => at # End
    BY DEF End, Start, At, Sections
  <2>2. ASSUME at.section \in Sections, at.field # 0
        PROVE  /\ FieldAt(items', at').name = FieldAt(items, at).name
               /\ FieldAt(items', at').size = FieldAt(items, at).size
    BY <1>1, <2>1, <2>2, SameFrame
  <2> QED
    BY <2>2 DEF RefusalInv, StuckInv
<1> QED
  BY <1>2, <1>3 DEF RefusalInv, RecordInv

LEMMA RefusalNext == TInv /\ RefusalInv /\ [Next]_vars => RefusalInv'
<1> SUFFICES ASSUME TInv, RefusalInv, [Next]_vars PROVE RefusalInv'
  OBVIOUS
<1>1. ASSUME UNCHANGED <<items, at, recorded, pipe>> PROVE RefusalInv'
  BY <1>1 DEF RefusalInv, PassedInv, StuckInv, RecordInv, FieldAt
<1>2. CASE Build
  <2>1. UNCHANGED <<at, recorded>> /\ dpc \in Building
    BY <1>2, BuildFrame DEF Build, OpenSource, captureDecrypt, Keys, Value, Payload,
                            CloseHandle, BuildFails, BuildManifest, Building
  <2>2. at' = Start(0) /\ ~recorded'
    BY <2>1 DEF TInv, FrameInv
  <2>3. at'.section = 0 /\ at'.field = 0
    BY <2>2 DEF Start, At
  <2> QED
    BY <2>2, <2>3 DEF RefusalInv, PassedInv, StuckInv, RecordInv, Sections
<1>3. CASE EncodeFails \/ RecordAndDestroy
  <2>1. items' = Cleared(items) /\ UNCHANGED <<at, pipe>>
    BY <1>3, RespondFrame DEF DestroyAndClose
  <2>2. recorded' => at = End
    BY <1>3 DEF EncodeFails, RecordAndDestroy, RefusalInv, RecordInv
  <2> QED
    BY <2>1, <2>2, DestroyKeepsRefusal
<1>4. CASE WriteError
  <2>1. dpc = "error" /\ UNCHANGED <<at, recorded>>
    BY <1>4, RespondFrame DEF WriteError
  <2>2. at' = Start(0) /\ ~recorded'
    BY <2>1 DEF TInv, FrameInv
  <2>3. at'.section = 0 /\ at'.field = 0
    BY <2>2 DEF Start, At
  <2> QED
    BY <2>2, <2>3 DEF RefusalInv, PassedInv, StuckInv, RecordInv, Sections
<1>5. CASE Decode
  <2>1. UNCHANGED <<items, at, recorded>>
    BY <1>5, ReceiverFrame DEF daemonVars, bundleVars
  <2> QED
    BY <1>1, <1>5, <2>1, TakenIsSmall, ReadKeepsRefusal
<1>6. CASE ApplyBundle
  <2>1. UNCHANGED <<items, at, recorded>>
    BY <1>6, ReceiverFrame DEF daemonVars, bundleVars
  <2>2. UNCHANGED pipe
    BY <1>6 DEF ApplyBundle, ApplyFile, ApplyManifest, EnvFor, ExecDestroys, Execve, Exit,
                ApplyFails, DestroyClient, connVars
  <2> QED
    BY <1>1, <2>1, <2>2
<1>7. CASE Rotate \/ UNCHANGED vars
  BY <1>1, <1>7 DEF Rotate, vars, daemonVars, bundleVars, connVars
<1> QED
  BY <1>2, <1>3, <1>4, <1>5, <1>6, <1>7, EncodeKeepsRefusal DEF Next, Respond

\* A bundle the receiver cannot take never counts as delivered, for any sizes of
\* values, sockets and writes with a socket that buffers less than maxField.
THEOREM RefusedNeverRecorded == Spec => []RefusedIsNeverRecorded
<1>1. Init => RefusalInv
  BY RefusalEarly DEF Init
<1>2. TInv /\ RefusalInv => RefusedIsNeverRecorded
  <2> SUFFICES ASSUME TInv, RefusalInv, recorded, NEW s \in Sections, NEW i \in DOMAIN items[s]
               PROVE  items[s][i].size # "big" /\ items[s][i].name[2] \notin LongKeys
    BY DEF RefusedIsNeverRecorded
  <2>1. at.section = 5
    BY DEF RefusalInv, RecordInv, End, Start, At
  <2>2. i \in 1..Len(items[s])
    BY LenProperties DEF TInv, TypeOK, DaemonType, BundleOf
  <2> QED
    BY <2>1, <2>2 DEF RefusalInv, PassedInv, Takeable, Sections
<1> QED
  BY <1>1, <1>2, TypeInit, TypeNext, RefusalNext, PTL DEF Spec

-----------------------------------------------------------------------------
(***************************************************************************)
(* Intact values. A field of the bundle views a buffer that the bundle     *)
(* owns and nobody else, so nothing that the handler wipes before Destroy  *)
(* is sent; the same at the receiver. What is written and what is applied  *)
(* is therefore never the content of a wiped buffer.                       *)
(***************************************************************************)
HandlerKeeps ==
    /\ plain = 0 \/ plain \notin retained \cup locked
    /\ retained \cap locked = {}
    /\ locked \subseteq live
    /\ \A s \in Sections : \A i \in 1..Len(items[s]) : items[s][i].data \in locked \cup {0}

WireKeeps == \A j \in 1..Len(pipe) : pipe[j].unit = "bytes" => pipe[j].data # "wiped"

ReceiverKeeps ==
    /\ cLocked \cup Buffers(cBuf) \subseteq cLive
    /\ \A s \in Sections : \A i \in 1..Len(cItems[s]) :
          cItems[s][i].size # "wiped" /\ cItems[s][i].data \in cLocked \cup {0}
    /\ \A f \in files \cup env : f.data # "wiped"

KeepInv == HandlerKeeps /\ WireKeeps /\ ReceiverKeeps

LEMMA KeepInit == Init => KeepInv
<1> SUFFICES ASSUME Init PROVE KeepInv
  OBVIOUS
<1>1. \A s \in Sections : Len(items[s]) = 0 /\ Len(cItems[s]) = 0
  BY DEF Init, NoItems
<1>2. HandlerKeeps
  BY <1>1 DEF Init, HandlerKeeps
<1>3. WireKeeps
  BY DEF Init, WireKeeps
<1>4. ReceiverKeeps
  BY <1>1, BufferFacts DEF Init, ReceiverKeeps
<1> QED
  BY <1>2, <1>3, <1>4 DEF KeepInv

\* Where a new field and its pointer are.
LEMMA WithItemFields ==
    ASSUME items \in BundleOf(Size), NEW name \in Name, NEW size \in Size, NEW b \in Nat,
           NEW s \in Sections
    PROVE  LET more == WithItem(name, size, b)[s]
           IN  /\ \A i \in 1..Len(items[s]) : more[i] = items[s][i]
               /\ \/ more = items[s] /\ s # SectionOf(Target.kind) /\ ~(s = 3 /\ Target.pointer)
                  \/ /\ Len(more) = Len(items[s]) + 1
                     /\ \/ s = SectionOf(Target.kind) /\ more[Len(more)] = Item(name, size, b)
                        \/ /\ s = 3 /\ Target.pointer
                           /\ more[Len(more)] = Item(name, "empty", 0)
<1>1. Item(name, size, b) \in Field(Size) /\ Item(name, "empty", 0) \in Field(Size)
  BY DEF Item, Field, Size
<1>2. items[s] \in Seq(Field(Size))
  BY DEF BundleOf
<1>3. ASSUME NEW e \in Field(Size)
      PROVE  /\ Len(Append(items[s], e)) = Len(items[s]) + 1
             /\ Append(items[s], e)[Len(Append(items[s], e))] = e
             /\ \A i \in 1..Len(items[s]) : Append(items[s], e)[i] = items[s][i]
  BY <1>2, AppendProperties
<1>4. WithItem(name, size, b)[s] = IF s = SectionOf(Target.kind)
                                   THEN Append(items[s], Item(name, size, b))
                                   ELSE IF s = 3 /\ Target.pointer
                                   THEN Append(items[s], Item(name, "empty", 0))
                                   ELSE items[s]
  BY DEF WithItem
<1> QED
  BY <1>1, <1>3, <1>4

\* AddSecret copies into a buffer that is nobody else's.
LEMMA AddSecretKeeps ==
    ASSUME HandlerKeeps, items \in BundleOf(Size), alloc \in Nat, locked \subseteq 1..alloc,
           NEW name \in Name, NEW size \in Size, NEW n \in Nat, alloc <= n,
           NEW base, locked \subseteq base, AddSecret(name, size, base, n)
    PROVE  /\ locked' \subseteq live' /\ locked' \cap (0..n) \subseteq locked
           /\ \A s \in Sections : \A i \in 1..Len(items'[s]) :
                 items'[s][i].data \in locked' \cup {0}
<1> DEFINE copy == Fresh(n + 1, size)
<1>1. /\ items' = WithItem(name, size, copy) /\ locked' = locked \cup Buffers(copy)
      /\ live' = base \cup Buffers(copy)
  BY DEF AddSecret
<1>2. copy \in {0, n + 1} /\ Buffers(0) = {} /\ Buffers(n + 1) = {n + 1} /\ copy \in Nat
  BY BufferFacts
<1> HIDE DEF copy
<1>3. copy \in locked' \cup {0} /\ locked \subseteq locked'
  BY <1>1, <1>2
<1>4. ASSUME NEW s \in Sections, NEW i \in 1..Len(items'[s])
      PROVE  items'[s][i].data \in locked' \cup {0}
  <2>1. items[s] \in Seq(Field(Size)) /\ Len(items[s]) \in Nat
    BY LenProperties DEF BundleOf
  <2>2. \/ i \in 1..Len(items[s]) /\ items'[s][i] = items[s][i]
        \/ items'[s][i] = Item(name, size, copy)
        \/ items'[s][i] = Item(name, "empty", 0)
    <3>1. CASE i \in 1..Len(items[s])
      BY <1>1, <1>2, <3>1, WithItemFields
    <3>2. CASE i \notin 1..Len(items[s])
      <4>1. \/ items'[s] = items[s]
            \/ /\ Len(items'[s]) = Len(items[s]) + 1
               /\ \/ items'[s][Len(items'[s])] = Item(name, size, copy)
                  \/ items'[s][Len(items'[s])] = Item(name, "empty", 0)
        BY <1>1, <1>2, WithItemFields
      <4>2. items'[s] # items[s]
        BY <3>2
      <4>3. i = Len(items'[s])
        BY <2>1, <3>2, <4>1, <4>2
      <4> QED
        BY <4>1, <4>2, <4>3
    <3> QED
      BY <3>1, <3>2
  <2>3. CASE i \in 1..Len(items[s]) /\ items'[s][i] = items[s][i]
    <3>1. items[s][i].data \in locked \cup {0}
      BY <2>3 DEF HandlerKeeps
    <3> QED
      BY <3>1, <2>3, <1>3
  <2>4. Item(name, size, copy).data = copy /\ Item(name, "empty", 0).data = 0
    BY DEF Item
  <2> QED
    BY <2>2, <2>3, <2>4, <1>3
<1>5. locked' \cap (0..n) \subseteq locked
  BY <1>1, <1>2
<1> QED
  BY <1>1, <1>4, <1>5

LEMMA BuildKeeps == TInv /\ KeepInv /\ Build => HandlerKeeps'
<1> SUFFICES ASSUME TInv, KeepInv, Build PROVE HandlerKeeps'
  OBVIOUS
<1>1. HandlerKeeps /\ DaemonType /\ MemoryType /\ TargetInv
  BY DEF TInv, TypeOK, KeepInv
<1>2. /\ items \in BundleOf(Size) /\ alloc \in Nat /\ locked \subseteq 1..alloc
      /\ retained \subseteq 1..alloc /\ plain \in 0..alloc /\ live \subseteq 1..alloc
      /\ plain \notin locked /\ decrypted \in Version
  BY <1>1 DEF DaemonType, MemoryType, HandlerKeeps
<1>3. alloc + 1 \notin 1..alloc /\ alloc <= alloc /\ alloc <= alloc + 1 /\ alloc + 1 \in Nat
  BY <1>2
<1>4. CASE OpenSource \/ BuildManifest
  BY <1>1, <1>4 DEF OpenSource, BuildManifest, HandlerKeeps, handleVars, bundleVars, memVars
<1>5. CASE captureDecrypt
  <2>1. /\ UNCHANGED <<retained, items, locked>>
        /\ \/ plain' = 0 /\ live' = live
           \/ plain' = alloc + 1 /\ live' = live \cup {alloc + 1}
    BY <1>5 DEF captureDecrypt, bundleVars
  <2>2. plain' = 0 \/ plain' \notin retained \cup locked
    BY <1>2, <1>3, <2>1
  <2> QED
    BY <1>1, <2>1, <2>2 DEF HandlerKeeps
<1>6. CASE Keys
  <2>1. /\ UNCHANGED <<retained, items, locked>> /\ plain' = 0
        /\ live' = live \ Buffers(plain)
    BY <1>6 DEF Keys, bundleVars
  <2>2. locked \subseteq live'
    BY <1>1, <1>2, <2>1 DEF HandlerKeeps, Buffers
  <2> QED
    BY <1>1, <2>1, <2>2 DEF HandlerKeeps
<1>7. CASE Value
  <2> DEFINE size == dotenvFind(decrypted, Head(want))
             out == Fresh(alloc + 1, size)
             n == IF out = 0 THEN alloc ELSE alloc + 1
             base == (live \cup Buffers(out)) \ Buffers(plain)
  <2>1. /\ retained' = retained \cup Buffers(out) /\ plain' = 0
        /\ \/ live' = base /\ UNCHANGED <<items, locked>>
           \/ AddSecret(FieldName(Head(want)), size, base, n)
    BY <1>7 DEF Value, bundleVars
  <2>2. size \in Size /\ FieldName(Head(want)) \in Name
    <3>1. dpc = "use" /\ listed /\ Found(decrypted, Head(want))
      BY <1>7 DEF Value
    <3>2. Head(want) \in AnyKey
      BY <1>1, <3>1, HeadTailProperties DEF DaemonType, TargetInv
    <3> QED
      BY <1>1, <1>2, <3>1, <3>2, SourceTypes, FieldNameType
  <2>3. out \in {0, alloc + 1} /\ Buffers(0) = {} /\ Buffers(alloc + 1) = {alloc + 1}
    BY <1>2, BufferFacts
  <2>4. n \in Nat /\ alloc <= n
    BY <1>2, <1>3
  <2>5. locked \subseteq base
    BY <1>1, <1>2 DEF HandlerKeeps, Buffers
  <2>6. retained' \cap locked = {} /\ retained' \subseteq 0..n
    <3> HIDE DEF base
    <3>1. CASE out = 0
      <4>1. retained' = retained /\ n = alloc
        BY <2>1, <2>3, <3>1
      <4> HIDE DEF n, out
      <4> QED
        BY <4>1, <1>1, <1>2 DEF HandlerKeeps
    <3>2. CASE out = alloc + 1
      <4>1. retained' = retained \cup {alloc + 1} /\ n = alloc + 1
        BY <2>1, <2>3, <3>2, <1>2
      <4> HIDE DEF n, out
      <4>2. retained' \cap locked = {}
        BY <4>1, <1>1, <1>2, <1>3 DEF HandlerKeeps
      <4>3. 1..alloc \subseteq 0..(alloc + 1) /\ alloc + 1 \in 0..(alloc + 1)
        BY <1>2
      <4>4. retained' \subseteq 0..(alloc + 1)
        BY <4>1, <4>3, <1>2
      <4> QED
        BY <4>1, <4>2, <4>4
    <3> QED
      BY <2>3, <3>1, <3>2
  <2> HIDE DEF size, out, n, base
  <2>7. CASE live' = base /\ UNCHANGED <<items, locked>>
    BY <1>1, <2>1, <2>5, <2>6, <2>7 DEF HandlerKeeps
  <2>8. CASE AddSecret(FieldName(Head(want)), size, base, n)
    <3>1. /\ locked' \subseteq live' /\ locked' \cap (0..n) \subseteq locked
          /\ \A s \in Sections : \A i \in 1..Len(items'[s]) :
                items'[s][i].data \in locked' \cup {0}
      BY <1>1, <1>2, <2>2, <2>4, <2>5, <2>8, AddSecretKeeps
    <3>2. retained' \cap locked' = {}
      BY <2>6, <3>1
    <3> QED
      BY <2>1, <3>1, <3>2 DEF HandlerKeeps
  <2> QED
    BY <2>1, <2>7, <2>8
<1>8. CASE Payload
  <2>1. /\ retained' = retained \cup Buffers(plain) /\ plain' = 0
        /\ AddSecret(FieldName(NoKey), Binary[decrypted], live, alloc)
    BY <1>8 DEF Payload
  <2>2. FieldName(NoKey) \in Name /\ Binary[decrypted] \in Size
    BY <1>1, <1>2, SourceTypes, FieldNameType DEF AnyKey
  <2>3. locked \subseteq live
    BY <1>1 DEF HandlerKeeps
  <2>4. /\ locked' \subseteq live' /\ locked' \cap (0..alloc) \subseteq locked
        /\ \A s \in Sections : \A i \in 1..Len(items'[s]) :
              items'[s][i].data \in locked' \cup {0}
    BY <1>1, <1>2, <1>3, <2>1, <2>2, <2>3, AddSecretKeeps
  <2>5. retained' \subseteq 0..alloc /\ retained' \cap locked = {}
    <3>1. Buffers(plain) \subseteq {plain}
      BY DEF Buffers
    <3>2. retained' \cap locked = {}
      BY <1>1, <1>2, <2>1, <3>1 DEF HandlerKeeps
    <3>3. retained \subseteq 0..alloc
      BY <1>2
    <3>4. retained' \subseteq 0..alloc
      BY <1>2, <2>1, <3>1, <3>3
    <3> QED
      BY <3>2, <3>4
  <2>6. retained' \cap locked' = {}
    BY <2>4, <2>5
  <2> QED
    BY <2>1, <2>4, <2>6 DEF HandlerKeeps
<1>9. CASE CloseHandle
  <2> DEFINE n == IF render = "empty" THEN alloc ELSE alloc + 1
  <2>1. /\ retained' = {} /\ plain' = plain
        /\ \/ AddSecret(FieldName(NoKey), render, live \ retained, n)
           \/ live' = live \ retained /\ UNCHANGED <<items, locked>>
    BY <1>9 DEF CloseHandle, bundleVars
  <2>2. FieldName(NoKey) \in Name /\ render \in Size
    BY <1>1, FieldNameType DEF AnyKey, DaemonType
  <2>3. n \in Nat /\ alloc <= n
    BY <1>2, <1>3
  <2>4. locked \subseteq live \ retained
    BY <1>1 DEF HandlerKeeps
  <2> HIDE DEF n
  <2>5. CASE AddSecret(FieldName(NoKey), render, live \ retained, n)
    <3>1. /\ locked' \subseteq live' /\ locked' \cap (0..n) \subseteq locked
          /\ \A s \in Sections : \A i \in 1..Len(items'[s]) :
                items'[s][i].data \in locked' \cup {0}
      BY <1>1, <1>2, <2>2, <2>3, <2>4, <2>5, AddSecretKeeps
    <3>2. plain \in 0..n
      BY <1>2, <2>3
    <3>3. plain \notin locked'
      BY <1>2, <3>1, <3>2
    <3> QED
      BY <2>1, <3>1, <3>3 DEF HandlerKeeps
  <2>6. CASE live' = live \ retained /\ UNCHANGED <<items, locked>>
    BY <1>1, <2>1, <2>4, <2>6 DEF HandlerKeeps
  <2> QED
    BY <2>1, <2>5, <2>6
<1>10. CASE BuildFails
  <2>1. plain' = 0 /\ retained' = {} /\ locked' = {} /\ items' = NoItems
    BY <1>10 DEF BuildFails
  <2>2. \A s \in Sections : Len(items'[s]) = 0
    BY <2>1 DEF NoItems
  <2> QED
    BY <2>1, <2>2 DEF HandlerKeeps
<1> QED
  BY <1>4, <1>5, <1>6, <1>7, <1>8, <1>9, <1>10 DEF Build

\* What is written is read through a view that is still good.
LEMMA RespondKeeps == TInv /\ KeepInv /\ Respond => HandlerKeeps' /\ WireKeeps'
<1> SUFFICES ASSUME TInv, KeepInv, Respond PROVE HandlerKeeps' /\ WireKeeps'
  OBVIOUS
<1>1. /\ HandlerKeeps /\ WireKeeps /\ items \in BundleOf(Size) /\ Framed(items, at)
      /\ pipe \in Seq(Unit) /\ Len(pipe) \in Nat /\ UNCHANGED <<plain, retained>>
  BY RespondFrame, LenProperties
     DEF TInv, TypeOK, KeepInv, DaemonType, ConnType, FrameInv, handleVars
<1>2. CASE EncodeBundle
  <2>1. /\ at # End /\ pipe' = Append(pipe, WriteAt(items, at))
        /\ UNCHANGED <<items, locked, live>>
    BY <1>2, RespondFrame DEF EncodeBundle
  <2>2. HandlerKeeps'
    BY <1>1, <2>1 DEF HandlerKeeps
  <2>3. WriteAt(items, at).unit = "bytes" => WriteAt(items, at).data # "wiped"
    <3>1. CASE at.field # 0 /\ at.part # 0
      <4> DEFINE data == IF at.section = 4 THEN "intact" ELSE View(FieldAt(items, at).data, live)
      <4>1. WriteAt(items, at) = BytesUnit(data)
        BY <1>1, <2>1, <3>1, WriteCases
      <4>2. data # "wiped"
        <5>1. CASE at.section = 4
          BY <5>1
        <5>2. CASE at.section # 4
          <6>1. at.section \in Sections /\ at.field \in 1..Len(items[at.section])
                /\ FieldAt(items, at) = items[at.section][at.field]
            BY <1>1, <2>1, <3>1, <5>2, FramedCases, FieldsType DEF FieldAt, Sections
          <6>2. FieldAt(items, at).data \in live \cup {0}
            BY <1>1, <6>1 DEF HandlerKeeps
          <6> QED
            BY <5>2, <6>2 DEF View
        <5> QED
          BY <5>1, <5>2
      <4> QED
        BY <4>1, <4>2 DEF BytesUnit
    <3>2. CASE ~(at.field # 0 /\ at.part # 0)
      <4>1. \/ WriteAt(items, at) = [unit |-> "bundle"]
            \/ \E n : WriteAt(items, at) = CountUnit(n)
            \/ \E name, size : WriteAt(items, at) = FieldUnit(name, size)
        BY <1>1, <2>1, <3>2, WriteCases
      <4> QED
        BY <4>1 DEF CountUnit, FieldUnit
    <3> QED
      BY <3>1, <3>2
  <2>4. /\ Len(pipe') = Len(pipe) + 1 /\ pipe'[Len(pipe) + 1] = WriteAt(items, at)
        /\ \A j \in 1..Len(pipe) : pipe'[j] = pipe[j]
    <3>1. WriteAt(items, at) \in Unit
      BY <1>1, <2>1, WriteCases
    <3> QED
      BY <1>1, <2>1, <3>1, AppendProperties
  <2>5. WireKeeps'
    <3> SUFFICES ASSUME NEW j \in 1..Len(pipe'), pipe'[j].unit = "bytes"
                 PROVE  pipe'[j].data # "wiped"
      BY DEF WireKeeps
    <3>1. j \in 1..Len(pipe) \/ j = Len(pipe) + 1
      BY <1>1, <2>4
    <3> QED
      BY <1>1, <2>3, <2>4, <3>1 DEF WireKeeps
  <2> QED
    BY <2>2, <2>5
<1>3. CASE EncodeFails \/ RecordAndDestroy
  <2>1. /\ UNCHANGED pipe /\ locked' = {} /\ items' = Cleared(items)
    BY <1>3, RespondFrame DEF DestroyAndClose
  <2>2. \A s \in Sections : /\ Len(items'[s]) = Len(items[s])
                            /\ DOMAIN items[s] = 1..Len(items[s])
                            /\ \A i \in DOMAIN items[s] : items'[s][i].data = 0
    BY <1>1, <2>1, ClearedFields, LenProperties DEF BundleOf
  <2> QED
    BY <1>1, <2>1, <2>2 DEF HandlerKeeps, WireKeeps
<1>4. CASE WriteError
  <2>1. /\ dpc = "error" /\ UNCHANGED <<items, locked, live>>
        /\ pipe' = Append(pipe, [unit |-> "error"]) \/ pipe' = pipe
    BY <1>4, RespondFrame DEF WriteError
  <2>2. HandlerKeeps'
    BY <1>1, <2>1 DEF HandlerKeeps
  <2>3. CASE pipe' = Append(pipe, [unit |-> "error"])
    <3>1. [unit |-> "error"] \in Unit
      BY DEF Unit
    <3>2. pipe = <<>> /\ Len(pipe) = 0
      BY <2>1 DEF TInv, FrameInv
    <3>3. Len(pipe') = 1 /\ pipe'[1] = [unit |-> "error"]
      BY <1>1, <2>3, <3>1, <3>2, AppendProperties
    <3>4. \A j \in 1..Len(pipe') : pipe'[j].unit = "error"
      BY <3>3
    <3> QED
      BY <2>2, <3>4 DEF WireKeeps
  <2>4. CASE pipe' = pipe
    BY <1>1, <2>2, <2>4 DEF WireKeeps
  <2> QED
    BY <2>1, <2>3, <2>4
<1> QED
  BY <1>2, <1>3, <1>4 DEF Respond

\* One more field in what the receiver has.
LEMMA MoreFields ==
    ASSUME cItems \in BundleOf(Slice), NEW s \in Sections, NEW e \in Field(Slice),
           cItems' = [cItems EXCEPT ![s] = Append(@, e)]
    PROVE  /\ Len(cItems'[s]) = Len(cItems[s]) + 1 /\ cItems'[s][Len(cItems[s]) + 1] = e
           /\ \A i \in 1..Len(cItems[s]) : cItems'[s][i] = cItems[s][i]
           /\ \A r \in Sections : r # s => cItems'[r] = cItems[r]
           /\ Len(cItems[s]) \in Nat
<1>1. cItems[s] \in Seq(Field(Slice)) /\ cItems'[s] = Append(cItems[s], e)
  BY DEF BundleOf
<1>2. \A r \in Sections : r # s => cItems'[r] = cItems[r]
  BY DEF BundleOf
<1> QED
  BY <1>1, <1>2, AppendProperties, LenProperties

\* It is intact, in a buffer of the bundle's.
LEMMA MoreKeeps ==
    ASSUME ReceiverKeeps, cItems \in BundleOf(Slice), NEW s \in Sections,
           NEW e \in Field(Slice), e.size # "wiped", e.data \in cLocked' \cup {0},
           cItems' = [cItems EXCEPT ![s] = Append(@, e)], cLocked \subseteq cLocked'
    PROVE  \A r \in Sections : \A i \in 1..Len(cItems'[r]) :
              cItems'[r][i].size # "wiped" /\ cItems'[r][i].data \in cLocked' \cup {0}
<1> SUFFICES ASSUME NEW r \in Sections, NEW i \in 1..Len(cItems'[r])
             PROVE  cItems'[r][i].size # "wiped" /\ cItems'[r][i].data \in cLocked' \cup {0}
  OBVIOUS
<1>1. /\ Len(cItems'[s]) = Len(cItems[s]) + 1 /\ cItems'[s][Len(cItems[s]) + 1] = e
      /\ \A j \in 1..Len(cItems[s]) : cItems'[s][j] = cItems[s][j]
      /\ \A q \in Sections : q # s => cItems'[q] = cItems[q]
      /\ Len(cItems[s]) \in Nat
  BY MoreFields
<1>2. \/ cItems'[r][i] = e
      \/ i \in 1..Len(cItems[r]) /\ cItems'[r][i] = cItems[r][i]
  <2>1. CASE r # s
    BY <1>1, <2>1
  <2>2. CASE r = s
    <3>1. i \in 1..Len(cItems[s]) \/ i = Len(cItems[s]) + 1
      BY <1>1, <2>2
    <3> QED
      BY <1>1, <2>2, <3>1
  <2> QED
    BY <2>1, <2>2
<1> QED
  BY <1>2 DEF ReceiverKeeps

LEMMA DecodeKeeps == TInv /\ OwnerInv /\ KeepInv /\ Decode => WireKeeps' /\ ReceiverKeeps'
<1> SUFFICES ASSUME TInv, OwnerInv, KeepInv, Decode PROVE WireKeeps' /\ ReceiverKeeps'
  OBVIOUS
<1>1. /\ WireKeeps /\ ReceiverKeeps /\ ReceiverOwns /\ ClientType /\ ClientMemoryType
      /\ pipe \in Seq(Unit) /\ cItems \in BundleOf(Slice) /\ cAlloc \in Nat
  BY DEF TInv, TypeOK, KeepInv, OwnerInv, ClientType, ClientMemoryType, ConnType
<1>2. WireKeeps'
  <2>1. CASE UNCHANGED pipe
    BY <1>1, <2>1 DEF WireKeeps
  <2>2. ASSUME NEW unit, Receive(unit) PROVE WireKeeps'
    <3>1. /\ Len(pipe) \in Nat \ {0} /\ Len(pipe') = Len(pipe) - 1
          /\ \A j \in 1..Len(pipe') : pipe'[j] = pipe[j + 1]
      BY <1>1, <2>2, ReceiveFacts
    <3>2. \A j \in 1..Len(pipe') : j + 1 \in 1..Len(pipe)
      BY <3>1
    <3> QED
      BY <1>1, <3>1, <3>2 DEF WireKeeps
  <2> QED
    BY <2>1, <2>2, TakenIsSmall
<1>3. files' = files /\ env' = env
  BY DEF Decode, ReadHeader, ReadCount, ReadField, ReadBytes, ReadFails, Receive, containerVars
<1>4. CASE ReadHeader \/ ReadCount
  <2>1. UNCHANGED <<cBuf, cItems, cLocked, cLive>>
    BY <1>4 DEF ReadHeader, ReadCount
  <2> QED
    BY <1>1, <1>2, <1>3, <2>1 DEF ReceiverKeeps
<1>5. CASE ReadField /\ Head(pipe).size = "empty"
  <2>1. /\ cItems' = [cItems EXCEPT ![section] = Append(@, Item(Head(pipe).name, "empty", 0))]
        /\ UNCHANGED <<cBuf, cLocked, cLive>> /\ Head(pipe).name \in Name
    BY <1>1, <1>5, ReceiveFacts, UnitFacts DEF ReadField
  <2>2. \A r \in Sections : \A i \in 1..Len(cItems'[r]) :
            cItems'[r][i].size # "wiped" /\ cItems'[r][i].data \in cLocked' \cup {0}
    <3>1. CASE section \in Sections
      <4> DEFINE e == Item(Head(pipe).name, "empty", 0)
      <4>1. e \in Field(Slice) /\ e.size # "wiped" /\ e.data = 0
        BY <1>1, <2>1, <3>1, MoreItems DEF Slice, Item
      <4> HIDE DEF e
      <4> QED
        BY <1>1, <2>1, <3>1, <4>1, MoreKeeps DEF e
    <3>2. CASE section \notin Sections
      <4>1. \A r \in Sections : cItems'[r] = cItems[r]
        BY <1>1, <2>1, <3>2 DEF BundleOf
      <4>2. cLocked \subseteq cLocked'
        BY <2>1
      <4>3. ASSUME NEW r \in Sections, NEW i \in 1..Len(cItems[r])
            PROVE  cItems[r][i].size # "wiped" /\ cItems[r][i].data \in cLocked' \cup {0}
        BY <1>1, <4>2 DEF ReceiverKeeps
      <4> QED
        BY <4>1, <4>3
    <3> QED
      BY <3>1, <3>2
  <2> QED
    BY <1>1, <1>2, <1>3, <2>1, <2>2 DEF ReceiverKeeps
<1>6. CASE ReadField /\ Head(pipe).size # "empty"
  <2>1. /\ cLive' = cLive \cup Buffers(cBuf') /\ UNCHANGED <<cItems, cLocked>>
    BY <1>6 DEF ReadField
  <2> QED
    BY <1>1, <1>2, <1>3, <2>1 DEF ReceiverKeeps
<1>7. CASE ReadBytes
  <2>1. /\ cItems' = IF section = 4 THEN cItems
                     ELSE [cItems EXCEPT ![section] =
                               Append(@, Item(field.name, Head(pipe).data, cBuf))]
        /\ cLocked' = cLocked \cup Buffers(cBuf) /\ cBuf' = 0 /\ cLive' = cLive
    BY <1>7 DEF ReadBytes
  <2>2. /\ Head(pipe).data \in Slice /\ Head(pipe).data # "wiped" /\ field.name \in Name
        /\ cBuf \in Nat
    <3>1. /\ Head(pipe) = pipe[1] /\ Head(pipe).unit = "bytes" /\ 1 \in 1..Len(pipe)
          /\ Head(pipe) \in Unit
      BY <1>1, <1>7, ReceiveFacts DEF ReadBytes
    <3> QED
      BY <1>1, <3>1, UnitFacts DEF WireKeeps, ClientType, ClientMemoryType
  <2>3. \A r \in Sections : \A i \in 1..Len(cItems'[r]) :
            cItems'[r][i].size # "wiped" /\ cItems'[r][i].data \in cLocked' \cup {0}
    <3>1. CASE section \in Sections
      <4> DEFINE e == Item(field.name, Head(pipe).data, cBuf)
      <4>1. e \in Field(Slice) /\ e.size = Head(pipe).data /\ e.data = cBuf
        BY <1>1, <2>2, <3>1, MoreItems DEF Item
      <4>2. e.data \in cLocked' \cup {0}
        BY <2>1, <4>1 DEF Buffers
      <4>3. cItems' = [cItems EXCEPT ![section] = Append(@, e)]
        BY <2>1, <3>1 DEF Sections
      <4> HIDE DEF e
      <4> QED
        BY <1>1, <2>1, <2>2, <3>1, <4>1, <4>2, <4>3, MoreKeeps
    <3>2. CASE section \notin Sections
      <4>1. \A r \in Sections : cItems'[r] = cItems[r]
        BY <1>1, <2>1, <3>2 DEF BundleOf
      <4>2. cLocked \subseteq cLocked'
        BY <2>1
      <4>3. ASSUME NEW r \in Sections, NEW i \in 1..Len(cItems[r])
            PROVE  cItems[r][i].size # "wiped" /\ cItems[r][i].data \in cLocked' \cup {0}
        BY <1>1, <4>2 DEF ReceiverKeeps
      <4> QED
        BY <4>1, <4>3
    <3> QED
      BY <3>1, <3>2
  <2>4. cLocked' \cup Buffers(cBuf') \subseteq cLive'
    BY <1>1, <2>1, BufferFacts DEF ReceiverKeeps
  <2> QED
    BY <1>1, <1>2, <1>3, <2>3, <2>4 DEF ReceiverKeeps
<1>8. CASE ReadFails
  <2>1. cLocked' = {} /\ cItems' = NoItems /\ cBuf' = 0
    BY <1>8 DEF ReadFails
  <2>2. \A r \in Sections : Len(cItems'[r]) = 0
    BY <2>1 DEF NoItems
  <2> QED
    BY <1>1, <1>2, <1>3, <2>1, <2>2, BufferFacts DEF ReceiverKeeps
<1> QED
  BY <1>4, <1>5, <1>6, <1>7, <1>8 DEF Decode

\* What is applied is read before it is wiped.
LEMMA ApplyKeeps == TInv /\ OwnerInv /\ KeepInv /\ ApplyBundle => ReceiverKeeps'
<1> SUFFICES ASSUME TInv, OwnerInv, KeepInv, ApplyBundle PROVE ReceiverKeeps'
  OBVIOUS
<1>1. /\ ReceiverKeeps /\ ReceiverOwns /\ cItems \in BundleOf(Slice) /\ ai \in Nat \ {0}
      /\ \A s \in Sections : DOMAIN cItems[s] = 1..Len(cItems[s]) /\ Len(cItems[s]) \in Nat
  BY LenProperties DEF TInv, TypeOK, KeepInv, OwnerInv, ClientType, BundleOf
<1>2. ASSUME NEW s \in Sections, NEW i \in DOMAIN cItems[s]
      PROVE  Content(cItems[s][i]) # "wiped"
  BY <1>1 DEF ReceiverKeeps, Content
<1>3. CASE ApplyFile
  <2>1. /\ files' = files \cup {[name |-> FileItems[ai].name, data |-> Content(FileItems[ai])]}
        /\ ai <= Len(FileItems) /\ UNCHANGED <<cItems, cLocked, cLive, cBuf, env>>
    BY <1>3 DEF ApplyFile, decodeVars
  <2>2. Content(FileItems[ai]) # "wiped"
    BY <1>1, <1>2, <2>1 DEF FileItems, Sections
  <2> QED
    BY <1>1, <2>1, <2>2 DEF ReceiverKeeps
<1>4. CASE ApplyManifest \/ Execve
  <2>1. UNCHANGED <<files, env, cItems, cLocked, cLive, cBuf>>
    BY <1>4 DEF ApplyManifest, Execve, decodeVars, containerVars
  <2> QED
    BY <1>1, <2>1 DEF ReceiverKeeps
<1>5. CASE EnvFor
  <2>1. env' = EnvOf(2) \cup EnvOf(3) /\ UNCHANGED <<files, cItems, cLocked, cLive, cBuf>>
    BY <1>5 DEF EnvFor, decodeVars
  <2>2. \A e \in EnvOf(2) \cup EnvOf(3) : e.data # "wiped"
    BY <1>2 DEF EnvOf, Sections
  <2> QED
    BY <1>1, <2>1, <2>2 DEF ReceiverKeeps
<1>6. CASE ExecDestroys \/ Exit \/ ApplyFails
  <2>1. /\ cpc # "bytes" /\ cLive' = cLive \ cLocked /\ cLocked' = {}
        /\ cItems' = Cleared(cItems) /\ UNCHANGED <<cBuf, files, env>>
    BY <1>6 DEF ExecDestroys, Exit, ApplyFails, DestroyClient, containerVars
  <2>2. cBuf' = 0 /\ Buffers(cBuf') = {}
    BY <1>1, <2>1, BufferFacts DEF ReceiverOwns
  <2>3. \A s \in Sections : /\ Len(cItems'[s]) = Len(cItems[s])
                            /\ \A i \in 1..Len(cItems[s]) :
                                  cItems'[s][i].size = cItems[s][i].size /\ cItems'[s][i].data = 0
    BY <1>1, <2>1, ClearedFields
  <2> QED
    BY <1>1, <2>1, <2>2, <2>3 DEF ReceiverKeeps
<1> QED
  BY <1>3, <1>4, <1>5, <1>6 DEF ApplyBundle

LEMMA KeepNext == TInv /\ OwnerInv /\ KeepInv /\ [Next]_vars => KeepInv'
<1> SUFFICES ASSUME TInv, OwnerInv, KeepInv, [Next]_vars PROVE KeepInv'
  OBVIOUS
<1>1. UNCHANGED <<plain, retained, locked, live, items>> => HandlerKeeps'
  BY DEF KeepInv, HandlerKeeps
<1>2. UNCHANGED pipe => WireKeeps'
  BY DEF KeepInv, WireKeeps
<1>3. UNCHANGED clientVars => ReceiverKeeps'
  BY DEF KeepInv, ReceiverKeeps, clientVars, decodeVars, containerVars
<1>4. CASE Build
  BY <1>2, <1>3, <1>4, BuildKeeps, BuildFrame DEF KeepInv
<1>5. CASE Respond
  BY <1>3, <1>5, RespondKeeps, RespondFrame DEF KeepInv
<1>6. CASE Decode
  BY <1>1, <1>6, DecodeKeeps, ReceiverFrame DEF KeepInv, daemonVars, handleVars, bundleVars,
                                                memVars
<1>7. CASE ApplyBundle
  <2>1. UNCHANGED pipe
    BY <1>7 DEF ApplyBundle, ApplyFile, ApplyManifest, EnvFor, ExecDestroys, Execve, Exit,
                ApplyFails, DestroyClient, connVars
  <2> QED
    BY <1>1, <1>2, <1>7, <2>1, ApplyKeeps, ReceiverFrame
       DEF KeepInv, daemonVars, handleVars, bundleVars, memVars
<1>8. CASE Rotate \/ UNCHANGED vars
  BY <1>1, <1>2, <1>3, <1>8 DEF KeepInv, Rotate, vars, daemonVars, handleVars, bundleVars,
                                memVars, connVars
<1> QED
  BY <1>4, <1>5, <1>6, <1>7, <1>8 DEF Next
-----------------------------------------------------------------------------
(***************************************************************************)
(* The frame on the wire. What is in the socket is a stretch of the frame: *)
(* a unit for each place on the way from where the receiver is to where    *)
(* the encoder is. A bundle, a stretch of units and its two ends:          *)
(***************************************************************************)
Expected(b, u, p) ==
    /\ p.section = 0 => u.unit = "bundle"
    /\ p.section # 0 /\ p.field = 0 => u.unit = "count" /\ u.n = Len(b[p.section])
    /\ p.field # 0 /\ p.part = 0
          => u.unit = "field" /\ u.name = FieldAt(b, p).name /\ u.size = FieldAt(b, p).size
    /\ p.field # 0 /\ p.part # 0 => u.unit = "bytes"

Walk(w, b, q, from, to) ==
    /\ w[1] = from /\ w[Len(q) + 1] = to
    /\ \A j \in 1..Len(q) : /\ w[j] # End /\ Framed(b, w[j])
                            /\ Expected(b, q[j], w[j]) /\ w[j + 1] = After(b, w[j])

Path(b, q, from, to) == \E w : Walk(w, b, q, from, to)

\* An empty stretch leads nowhere.
LEMMA PathEmpty ==
    ASSUME NEW b, NEW p, NEW r
    PROVE  Path(b, <<>>, p, r) <=> p = r
<1>1. Len(<<>>) = 0
  OBVIOUS
<1>2. ASSUME p = r PROVE Path(b, <<>>, p, r)
  <2>1. Walk([j \in 1..1 |-> p], b, <<>>, p, r)
    BY <1>1, <1>2 DEF Walk
  <2> QED
    BY <2>1 DEF Path
<1>3. ASSUME NEW w, Walk(w, b, <<>>, p, r) PROVE p = r
  BY <1>1, <1>3 DEF Walk
<1> QED
  BY <1>2, <1>3 DEF Path

\* A write makes the stretch longer at one end,
LEMMA PathAppend ==
    ASSUME NEW b, NEW q \in Seq(Unit), NEW p, NEW r, Path(b, q, p, r),
           NEW u \in Unit, r # End, Framed(b, r), Expected(b, u, r)
    PROVE  Path(b, Append(q, u), p, After(b, r))
<1> DEFINE more == Append(q, u)
<1>1. /\ Len(more) = Len(q) + 1 /\ Len(q) \in Nat
      /\ \A j \in 1..Len(q) : more[j] = q[j]
      /\ more[Len(q) + 1] = u
  BY AppendProperties, LenProperties
<1>2. PICK w : Walk(w, b, q, p, r)
  BY DEF Path
<1> DEFINE v == [j \in 1..(Len(q) + 2) |-> IF j <= Len(q) + 1 THEN w[j] ELSE After(b, r)]
<1> HIDE DEF more
<1>3. /\ \A j \in 1..(Len(q) + 1) : v[j] = w[j]
      /\ v[Len(more) + 1] = After(b, r)
  BY <1>1
<1> HIDE DEF v
<1>4. v[1] = p
  BY <1>1, <1>2, <1>3 DEF Walk
<1>5. ASSUME NEW j \in 1..Len(more)
      PROVE  /\ v[j] # End /\ Framed(b, v[j])
             /\ Expected(b, more[j], v[j]) /\ v[j + 1] = After(b, v[j])
  <2>1. CASE j = Len(q) + 1
    <3>1. v[j] = r /\ v[j + 1] = After(b, r) /\ more[j] = u
      BY <1>1, <1>2, <1>3, <2>1 DEF Walk
    <3> QED
      BY <3>1
  <2>2. CASE j # Len(q) + 1
    <3>1. j \in 1..Len(q) /\ j + 1 \in 1..(Len(q) + 1) /\ j \in 1..(Len(q) + 1)
      BY <1>1, <2>2
    <3>2. v[j] = w[j] /\ v[j + 1] = w[j + 1] /\ more[j] = q[j]
      BY <1>1, <1>3, <3>1
    <3> QED
      BY <1>2, <3>1, <3>2 DEF Walk
  <2> QED
    BY <2>1, <2>2
<1>6. Walk(v, b, more, p, After(b, r))
  BY <1>3, <1>4, <1>5 DEF Walk
<1> QED
  BY <1>6 DEF Path, more

\* and a read shorter at the other.
LEMMA PathTail ==
    ASSUME NEW b, NEW q \in Seq(Unit), NEW p, NEW r, Path(b, q, p, r), q # <<>>
    PROVE  /\ p # End /\ Framed(b, p) /\ Expected(b, Head(q), p)
           /\ Path(b, Tail(q), After(b, p), r)
<1>1. /\ Len(q) \in Nat \ {0} /\ Head(q) = q[1] /\ Len(Tail(q)) = Len(q) - 1
      /\ \A j \in 1..Len(Tail(q)) : Tail(q)[j] = q[j + 1]
  BY HeadTailProperties, EmptySeq, LenProperties
<1>2. PICK w : Walk(w, b, q, p, r)
  BY DEF Path
<1> DEFINE v == [j \in 1..Len(q) |-> w[j + 1]]
<1>3. /\ 1 \in 1..Len(q) /\ w[1] = p /\ w[1 + 1] = After(b, p)
      /\ p # End /\ Framed(b, p) /\ Expected(b, Head(q), p)
  BY <1>1, <1>2 DEF Walk
<1>4. Walk(v, b, Tail(q), After(b, p), r)
  <2>1. \A j \in 1..Len(q) : v[j] = w[j + 1]
    OBVIOUS
  <2> HIDE DEF v
  <2>2. v[1] = After(b, p)
    BY <1>3, <2>1
  <2>3. v[Len(Tail(q)) + 1] = r
    <3>1. Len(Tail(q)) + 1 = Len(q) /\ Len(q) \in 1..Len(q)
      BY <1>1
    <3> QED
      BY <1>2, <2>1, <3>1 DEF Walk
  <2>4. ASSUME NEW j \in 1..Len(Tail(q))
        PROVE  /\ v[j] # End /\ Framed(b, v[j])
               /\ Expected(b, Tail(q)[j], v[j]) /\ v[j + 1] = After(b, v[j])
    <3>1. j \in 1..Len(q) /\ j + 1 \in 1..Len(q)
      BY <1>1
    <3>2. v[j] = w[j + 1] /\ v[j + 1] = w[(j + 1) + 1] /\ Tail(q)[j] = q[j + 1]
      BY <1>1, <2>1, <3>1
    <3> QED
      BY <1>2, <3>1, <3>2 DEF Walk
  <2> QED
    BY <2>2, <2>3, <2>4 DEF Walk
<1> QED
  BY <1>3, <1>4 DEF Path

\* Destroy does not move the places.
LEMMA PathSame ==
    ASSUME NEW b \in BundleOf(Size), NEW c \in BundleOf(Size), SameShape(b, c),
           NEW q, NEW p, NEW r, Path(b, q, p, r)
    PROVE  Path(c, q, p, r)
<1>1. PICK w : Walk(w, b, q, p, r)
  BY DEF Path
<1>2. ASSUME NEW j \in 1..Len(q)
      PROVE  /\ w[j] # End /\ Framed(c, w[j])
             /\ Expected(c, q[j], w[j]) /\ w[j + 1] = After(c, w[j])
  <2>1. /\ w[j] # End /\ Framed(b, w[j]) /\ Expected(b, q[j], w[j])
        /\ w[j + 1] = After(b, w[j])
    BY <1>1 DEF Walk
  <2>2. /\ Framed(c, w[j]) /\ After(c, w[j]) = After(b, w[j])
        /\ w[j].field # 0 => /\ FieldAt(c, w[j]).name = FieldAt(b, w[j]).name
                             /\ FieldAt(c, w[j]).size = FieldAt(b, w[j]).size
    BY <2>1, SameFrame
  <2>3. w[j].section # 0 /\ w[j].field = 0 => Len(c[w[j].section]) = Len(b[w[j].section])
    <3>1. w[j].field = 0 => w[j].section \in 0..3
      BY <2>1, FramedCases
    <3>2. w[j].section # 0 /\ w[j].field = 0 => w[j].section \in Sections
      BY <3>1 DEF Sections
    <3> QED
      BY <3>2 DEF SameShape
  <2>4. Expected(c, q[j], w[j])
    BY <2>1, <2>2, <2>3 DEF Expected
  <2> QED
    BY <2>1, <2>2, <2>4
<1>3. Walk(w, c, q, p, r)
  BY <1>1, <1>2 DEF Walk
<1> QED
  BY <1>3 DEF Path

\* The encoder writes what its place calls for.
LEMMA WriteExpected ==
    ASSUME NEW b \in BundleOf(Size), NEW p, Framed(b, p), p # End
    PROVE  Expected(b, WriteAt(b, p), p) /\ WriteAt(b, p) \in Unit
<1>1. /\ WriteAt(b, p) \in Unit
      /\ p.section = 0 => WriteAt(b, p) = [unit |-> "bundle"]
      /\ p.section # 0 /\ p.field = 0 => WriteAt(b, p) = CountUnit(Len(b[p.section]))
      /\ p.field # 0 /\ p.part = 0
            => WriteAt(b, p) = FieldUnit(FieldAt(b, p).name, FieldAt(b, p).size)
      /\ p.field # 0 /\ p.part # 0 => \E data : WriteAt(b, p) = BytesUnit(data)
  BY WriteCases
<1> QED
  BY <1>1 DEF Expected, CountUnit, FieldUnit, BytesUnit

(***************************************************************************)
(* The receiver. What it has read is what the handler has, name by name:   *)
(* the sections before the one in hand whole, that one up to the fields    *)
(* that are left, the later ones not at all. Its next read is at a place   *)
(* of the handler's frame, from which what is in the socket leads to the   *)
(* encoder's place. An error frame is alone in the socket.                 *)
(***************************************************************************)
FieldOf(c, s) == IF s = 4 THEN 1 ELSE Len(c[s]) + 1

PlaceOf(pc, c, s) ==
    CASE pc = "header" -> Start(0)
      [] pc = "count" -> Start(s)
      [] pc = "field" -> At(s, FieldOf(c, s), 0)
      [] pc = "bytes" -> At(s, FieldOf(c, s), 1)
      [] pc \notin Reading -> End

FieldHere == FieldOf(cItems, section)
Here == PlaceOf(cpc, cItems, section)

\* What is read of the sections, with section t in hand.
ReadUpTo(b, c, t) ==
    \A s \in Sections :
        /\ Len(c[s]) <= Len(b[s])
        /\ \A j \in 1..Len(c[s]) : c[s][j].name = b[s][j].name
        /\ s < t => Len(c[s]) = Len(b[s])
        /\ s > t => Len(c[s]) = 0

ReadInv ==
    /\ ReadUpTo(items, cItems, section)
    /\ cpc = "header" => section = 0
    /\ cpc = "count" => section \in Sections /\ Len(cItems[section]) = 0
    /\ cpc \in {"field", "bytes"} =>
          /\ section \in 1..4
          /\ left = IF section = 4 THEN 1 ELSE Len(items[section]) - Len(cItems[section])
    /\ cpc = "bytes" => /\ Fields(items, section)[FieldHere].name = field.name
                        /\ Fields(items, section)[FieldHere].size = "some"
    /\ cpc \notin Reading => section = 4

Refusal == pipe = <<[unit |-> "error"]>> /\ cpc = "header" /\ dpc = "done"

SyncInv == cpc # "failed" => ReadInv /\ (Refusal \/ Path(items, pipe, Here, at))

\* Where decodeBundle goes, case by case.
LEMMA AdvanceCases ==
    ASSUME section \in 1..4, NEW l \in Nat, section = 4 => l = 0, Advance(section, l)
    PROVE  /\ section \in Sections /\ l > 0 => cpc' = "field" /\ section' = section /\ left' = l
           /\ section \in {1, 2} /\ l = 0 => cpc' = "count" /\ section' = section + 1
           /\ section = 3 /\ l = 0 => cpc' = "field" /\ section' = 4 /\ left' = 1
           /\ section = 4 => cpc' = "apply" /\ section' = 4
<1>1. /\ l > 0 \/ section = 3 => cpc' = "field"
      /\ ~(l > 0 \/ section = 3) /\ l = 0 /\ section < 3 => cpc' = "count"
      /\ ~(l > 0 \/ section = 3) /\ ~(l = 0 /\ section < 3) => cpc' = "apply"
  BY DEF Advance
<1>2. /\ section' = IF l = 0 /\ section < 4 THEN section + 1 ELSE section
      /\ left' = IF l = 0 /\ section = 3 THEN 1 ELSE l
  BY DEF Advance
<1> QED
  BY <1>1, <1>2 DEF Sections

LEMMA PlaceCases ==
    ASSUME NEW c, NEW s
    PROVE  /\ PlaceOf("header", c, s) = Start(0)
           /\ PlaceOf("count", c, s) = Start(s)
           /\ PlaceOf("field", c, s) = At(s, FieldOf(c, s), 0)
           /\ PlaceOf("bytes", c, s) = At(s, FieldOf(c, s), 1)
           /\ \A pc : pc \notin Reading => PlaceOf(pc, c, s) = End
BY DEF PlaceOf, Reading

\* Where decodeBundle is after l fields are left of the section in hand.
LEMMA Arrive ==
    ASSUME items \in BundleOf(Size), cItems' \in BundleOf(Slice), UNCHANGED items,
           section \in 1..4, ReadUpTo(items, cItems', section), NEW l \in Nat,
           section = 4 => l = 0,
           section # 4 => Len(items[section]) = Len(cItems'[section]) + l,
           Advance(section, l)
    PROVE  /\ ReadInv' /\ cpc' # "failed"
           /\ Here' = IF section # 4 /\ l > 0 THEN At(section, Len(cItems'[section]) + 1, 0)
                                             ELSE Start(section + 1)
<1>1. \A s \in Sections : Len(items[s]) \in Nat /\ Len(cItems'[s]) \in Nat
  BY LenProperties DEF BundleOf
<1>2. CASE section \in Sections /\ l > 0
  <2>1. cpc' = "field" /\ section' = section /\ left' = l /\ section # 4
    BY <1>2, AdvanceCases DEF Sections
  <2>2. ReadInv'
    BY <1>2, <2>1 DEF ReadInv, Reading, Sections
  <2>3. Here' = At(section, Len(cItems'[section]) + 1, 0)
    BY <2>1, PlaceCases DEF Here, FieldOf
  <2> QED
    BY <1>2, <2>1, <2>2, <2>3, Zenon
<1>3. CASE section \in {1, 2} /\ l = 0
  <2>1. cpc' = "count" /\ section' = section + 1
    BY <1>3, AdvanceCases
  <2>7. section \in Sections /\ section + 1 \in Sections /\ ~(l > 0)
    BY <1>3 DEF Sections
  <2>2. Len(cItems'[section]) = Len(items[section])
    BY <1>1, <1>3 DEF Sections
  <2>3. ReadUpTo(items, cItems', section + 1)
    BY <1>1, <1>3, <2>2 DEF ReadUpTo, Sections
  <2>4. Len(cItems'[section + 1]) = 0
    <3>1. section + 1 > section
      BY <1>3
    <3> QED
      BY <2>7, <3>1 DEF ReadUpTo
  <2>5. ReadInv'
    BY <2>1, <2>3, <2>4, <2>7 DEF ReadInv, Reading
  <2>6. Here' = Start(section + 1)
    BY <2>1, PlaceCases DEF Here
  <2> QED
    BY <1>3, <2>1, <2>5, <2>6, <2>7, Zenon
<1>4. CASE section = 3 /\ l = 0
  <2>1. cpc' = "field" /\ section' = 4 /\ left' = 1
    BY <1>4, AdvanceCases
  <2>2. Len(cItems'[section]) = Len(items[section])
    BY <1>1, <1>4 DEF Sections
  <2>3. ReadUpTo(items, cItems', 4)
    BY <1>1, <1>4, <2>2 DEF ReadUpTo, Sections
  <2>5. ReadInv'
    BY <2>1, <2>3 DEF ReadInv, Reading
  <2>6. Here' = Start(4)
    BY <2>1, PlaceCases DEF Here, FieldOf, Start
  <2> QED
    BY <1>4, <2>1, <2>5, <2>6
<1>5. CASE section = 4
  <2>1. cpc' = "apply" /\ section' = 4
    BY <1>5, AdvanceCases
  <2>5. ReadInv'
    BY <1>5, <2>1 DEF ReadInv, Reading
  <2>6. Here' = End
    BY <2>1, PlaceCases DEF Here, Reading
  <2> QED
    BY <1>5, <2>1, <2>5, <2>6 DEF End
<1> QED
  BY <1>2, <1>3, <1>4, <1>5 DEF Sections

\* A field awaited is one of the handler's.
LEMMA FieldAwaited ==
    ASSUME TInv, ReadInv, cpc \in {"field", "bytes"}
    PROVE  /\ section \in 1..4 /\ Len(Fields(items, section)) \in Nat
           /\ FieldHere \in 1..Len(Fields(items, section))
           /\ section \in Sections => Fields(items, section) = items[section]
           /\ section \in Sections => Len(cItems[section]) \in Nat
           /\ left - 1 \in Nat
           /\ left - 1 = IF section = 4 THEN 0 ELSE Len(items[section]) - FieldHere
<1>1. /\ items \in BundleOf(Size) /\ cItems \in BundleOf(Slice) /\ left \in Nat /\ left > 0
  BY DEF TInv, TypeOK, DaemonType, ClientType, LeftInv
<1>2. /\ section \in 1..4
      /\ left = IF section = 4 THEN 1 ELSE Len(items[section]) - Len(cItems[section])
  BY DEF ReadInv
<1>3. CASE section = 4
  BY <1>1, <1>2, <1>3, FieldsType DEF FieldHere, FieldOf, Sections
<1>4. CASE section \in Sections
  <2>1. /\ Fields(items, section) = items[section] /\ Len(items[section]) \in Nat
        /\ Len(cItems[section]) \in Nat /\ section # 4
    BY <1>1, <1>4, FieldsType, LenProperties DEF BundleOf, Sections
  <2> DEFINE m == Len(items[section])
             n == Len(cItems[section])
  <2>2. m \in Nat /\ n \in Nat /\ left = m - n /\ FieldHere = n + 1
    BY <1>2, <2>1 DEF FieldHere, FieldOf
  <2>3. m - n > 0
    BY <1>1, <2>2
  <2> HIDE DEF m, n
  <2>4. n + 1 \in 1..m /\ (m - n) - 1 \in Nat /\ (m - n) - 1 = m - (n + 1)
    BY <2>2, <2>3
  <2> QED
    BY <1>2, <2>1, <2>2, <2>4 DEF m, n
<1>5. section = 4 \/ section \in Sections
  BY <1>2 DEF Sections
<1> QED
  BY <1>3, <1>4, <1>5

\* A read takes the unit that its place calls for.
LEMMA ReceiveSync ==
    ASSUME TInv, SyncInv, cpc # "failed", NEW unit, unit # "error", Receive(unit)
    PROVE  /\ ReadInv /\ Here # End /\ Framed(items, Here)
           /\ Expected(items, Head(pipe), Here) /\ Head(pipe).unit = unit
           /\ Path(items, pipe', After(items, Here), at)
           /\ UNCHANGED <<items, at>>
<1>1. pipe \in Seq(Unit)
  BY DEF TInv, TypeOK, ConnType
<1>2. pipe # <<>> /\ Head(pipe).unit = unit /\ pipe' = Tail(pipe) /\ UNCHANGED <<items, at>>
  BY DEF Receive, daemonVars, bundleVars
<1>3. ~Refusal
  <2>1. Refusal => Head(pipe) = [unit |-> "error"]
    BY DEF Refusal
  <2> QED
    BY <1>2, <2>1
<1>4. ReadInv /\ Path(items, pipe, Here, at)
  BY <1>3 DEF SyncInv
<1>5. /\ Here # End /\ Framed(items, Here) /\ Expected(items, Head(pipe), Here)
      /\ Path(items, Tail(pipe), After(items, Here), at)
  BY <1>1, <1>2, <1>4, PathTail
<1> QED
  BY <1>2, <1>4, <1>5

\* After the last read of a field the receiver is at the next.
LEMMA FieldTaken ==
    ASSUME TInv, ReadInv, cpc \in {"field", "bytes"}, UNCHANGED items, Framed(items, Here),
           Here # End, Here.part = Parts(FieldAt(items, Here).size),
           Advance(section, left - 1), cItems' \in BundleOf(Slice),
           section = 4 => cItems' = cItems,
           section \in Sections =>
              \E e \in Field(Slice) : /\ e.name = items[section][FieldHere].name
                                      /\ cItems' = [cItems EXCEPT ![section] = Append(@, e)]
    PROVE  ReadInv' /\ Here' = After(items, Here) /\ cpc' # "failed"
<1>1. /\ items \in BundleOf(Size) /\ cItems \in BundleOf(Slice)
      /\ ReadUpTo(items, cItems, section)
  BY DEF TInv, TypeOK, DaemonType, ClientType, ReadInv
<1>2. /\ section \in 1..4 /\ Len(Fields(items, section)) \in Nat
      /\ FieldHere \in 1..Len(Fields(items, section))
      /\ section \in Sections => Fields(items, section) = items[section]
      /\ section \in Sections => Len(cItems[section]) \in Nat
      /\ left - 1 \in Nat
      /\ left - 1 = IF section = 4 THEN 0 ELSE Len(items[section]) - FieldHere
  BY FieldAwaited
<1>3. section = 4 \/ section \in Sections
  BY <1>2 DEF Sections
<1>4. Here = At(section, FieldHere, Here.part)
  BY PlaceCases DEF Here, FieldHere, At
<1>5. After(items, Here) = IF FieldHere < Len(Fields(items, section))
                           THEN At(section, FieldHere + 1, 0) ELSE Start(section + 1)
  <2>1. Here.section = section /\ Here.field = FieldHere /\ FieldHere # 0
    BY <1>2, <1>4 DEF At
  <2> QED
    BY <1>1, <2>1, AfterCases
<1>6. CASE section = 4
  <2>1. ReadUpTo(items, cItems', section)
    BY <1>1, <1>6
  <2>2. ReadInv' /\ cpc' # "failed" /\ Here' = Start(section + 1)
    BY <1>1, <1>2, <1>6, <2>1, Arrive
  <2>3. Len(Fields(items, section)) = 1 /\ FieldHere = 1
    BY <1>1, <1>6, FieldsType DEF FieldHere, FieldOf
  <2> QED
    BY <1>5, <2>2, <2>3
<1>7. CASE section \in Sections
  <2>1. PICK e \in Field(Slice) :
            /\ e.name = items[section][FieldHere].name
            /\ cItems' = [cItems EXCEPT ![section] = Append(@, e)]
    BY <1>7
  <2>2. /\ Len(cItems'[section]) = Len(cItems[section]) + 1
        /\ cItems'[section][Len(cItems[section]) + 1] = e
        /\ \A i \in 1..Len(cItems[section]) : cItems'[section][i] = cItems[section][i]
        /\ \A r \in Sections : r # section => cItems'[r] = cItems[r]
    BY <1>1, <1>7, <2>1, MoreFields
  <2>3. FieldHere = Len(cItems[section]) + 1 /\ section # 4
    BY <1>7 DEF FieldHere, FieldOf, Sections
  <2>4. ASSUME NEW s \in Sections
        PROVE  /\ Len(cItems'[s]) <= Len(items[s])
               /\ \A j \in 1..Len(cItems'[s]) : cItems'[s][j].name = items[s][j].name
               /\ s < section => Len(cItems'[s]) = Len(items[s])
               /\ s > section => Len(cItems'[s]) = 0
    <3>1. CASE s # section
      BY <1>1, <2>2, <3>1 DEF ReadUpTo
    <3>2. CASE s = section
      <4>1. Len(cItems'[s]) = FieldHere /\ FieldHere <= Len(items[s])
        BY <1>2, <1>7, <2>2, <2>3, <3>2
      <4>2. ASSUME NEW j \in 1..Len(cItems'[s])
            PROVE  cItems'[s][j].name = items[s][j].name
        <5>1. j \in 1..Len(cItems[section]) \/ j = FieldHere
          BY <1>2, <1>7, <2>2, <2>3, <3>2
        <5>2. CASE j \in 1..Len(cItems[section])
          BY <1>1, <1>7, <2>2, <3>2, <5>2 DEF ReadUpTo
        <5>3. CASE j = FieldHere
          BY <2>1, <2>2, <2>3, <3>2, <5>3
        <5> QED
          BY <5>1, <5>2, <5>3
      <4>3. ~(s < section) /\ ~(s > section)
        BY <1>2, <3>2
      <4> QED
        BY <4>1, <4>2, <4>3
    <3> QED
      BY <3>1, <3>2
  <2>5. ReadUpTo(items, cItems', section)
    BY <2>4 DEF ReadUpTo
  <2>10. /\ Len(items[section]) \in Nat /\ left - 1 = Len(items[section]) - FieldHere
         /\ FieldHere \in Nat /\ Fields(items, section) = items[section]
    <3>1. left - 1 = Len(items[section]) - FieldHere
      BY <1>2, <2>3, Zenon
    <3>2. /\ Len(items[section]) \in Nat /\ Fields(items, section) = items[section]
          /\ FieldHere \in 1..Len(items[section])
      BY <1>2, <1>7, Zenon
    <3> QED
      BY <3>1, <3>2
  <2>6. Len(items[section]) = Len(cItems'[section]) + (left - 1)
    <3> DEFINE m == Len(items[section])
    <3>1. m \in Nat /\ left - 1 = m - FieldHere /\ FieldHere \in Nat
      BY <2>10
    <3> HIDE DEF m
    <3>2. m = FieldHere + (left - 1)
      BY <3>1
    <3> QED
      BY <2>2, <2>3, <3>2 DEF m
  <2>7. /\ ReadInv' /\ cpc' # "failed"
        /\ Here' = IF section # 4 /\ left - 1 > 0 THEN At(section, Len(cItems'[section]) + 1, 0)
                                                  ELSE Start(section + 1)
    BY <1>1, <1>2, <2>3, <2>5, <2>6, Arrive
  <2>8. left - 1 > 0 <=> FieldHere < Len(Fields(items, section))
    <3> DEFINE m == Len(items[section])
    <3>1. m \in Nat /\ left - 1 = m - FieldHere /\ FieldHere \in Nat
      BY <2>10
    <3> HIDE DEF m
    <3>2. left - 1 > 0 <=> FieldHere < m
      BY <3>1
    <3> QED
      BY <2>10, <3>2 DEF m
  <2>9. Len(cItems'[section]) + 1 = FieldHere + 1
    BY <2>2, <2>3
  <2> QED
    BY <1>5, <2>3, <2>7, <2>8, <2>9, Zenon
<1> QED
  BY <1>3, <1>6, <1>7

LEMMA DecodeSync == TInv /\ SyncInv /\ Decode => SyncInv'
<1> SUFFICES ASSUME TInv, SyncInv, Decode PROVE SyncInv'
  OBVIOUS
<1>1. /\ items \in BundleOf(Size) /\ cItems \in BundleOf(Slice) /\ pipe \in Seq(Unit)
      /\ cItems' \in BundleOf(Slice)
  BY DecodeTypes DEF TInv, TypeOK, DaemonType, ClientType, ConnType
<1>2. \A s \in Sections : Len(items[s]) \in Nat /\ Len(cItems[s]) \in Nat
  BY <1>1, LenProperties DEF BundleOf
\* It is enough to see where the receiver goes.
<1>3. ASSUME ReadInv', Path(items, pipe', After(items, Here), at), UNCHANGED <<items, at>>,
             Here' = After(items, Here)
      PROVE  SyncInv'
  BY <1>3 DEF SyncInv
<1>4. CASE ReadHeader
  <2>1. /\ cpc = "header" /\ cpc' = "count" /\ section' = 1 /\ UNCHANGED cItems
        /\ Receive("bundle")
    BY <1>4 DEF ReadHeader
  <2>2. /\ ReadInv /\ Here # End /\ Framed(items, Here) /\ UNCHANGED <<items, at>>
        /\ Path(items, pipe', After(items, Here), at)
    BY <2>1, ReceiveSync
  <2>3. Here = Start(0) /\ Here' = Start(1)
    BY <2>1, PlaceCases DEF Here
  <2>4. After(items, Here) = Start(1)
    <3>1. Here.field = 0 /\ Here.section = 0
      BY <2>3 DEF Start, At
    <3>2. Len(Fields(items, Here.section)) = 0
      BY <1>1, <3>1, FieldsType
    <3> QED
      BY <1>1, <2>2, <3>1, <3>2, AfterCases
  <2>5. section = 0 /\ ReadUpTo(items, cItems, section)
    BY <2>1, <2>2 DEF ReadInv
  <2>6. \A s \in Sections : Len(cItems[s]) = 0 /\ ~(s < 1)
    BY <2>5 DEF ReadUpTo, Sections
  <2>7. ReadUpTo(items, cItems, 1) /\ 1 \in Sections
    BY <1>2, <2>6 DEF ReadUpTo, Sections
  <2>8. ReadInv'
    BY <2>1, <2>2, <2>6, <2>7 DEF ReadInv, Reading
  <2> QED
    BY <1>3, <2>2, <2>3, <2>4, <2>8
<1>5. CASE ReadCount
  <2>1. /\ cpc = "count" /\ Advance(section, Head(pipe).n) /\ UNCHANGED cItems
        /\ Receive("count")
    BY <1>5 DEF ReadCount
  <2>2. /\ ReadInv /\ Here # End /\ Framed(items, Here) /\ Expected(items, Head(pipe), Here)
        /\ Path(items, pipe', After(items, Here), at) /\ UNCHANGED <<items, at>>
    BY <2>1, ReceiveSync
  <2>3. /\ Here = Start(section) /\ section \in Sections /\ Len(cItems[section]) = 0
        /\ ReadUpTo(items, cItems, section)
    BY <2>1, <2>2, PlaceCases DEF Here, ReadInv
  <2>4. Here.section = section /\ Here.field = 0
    BY <2>3 DEF Start, At, Sections
  <2>5. Head(pipe).n = Len(items[section]) /\ section # 4 /\ section # 0 /\ section \in 1..4
    BY <2>2, <2>3, <2>4 DEF Expected, Sections
  <2> DEFINE l == Head(pipe).n
  <2>6. l \in Nat /\ Len(items[section]) = Len(cItems'[section]) + l
    BY <1>2, <2>1, <2>3, <2>5
  <2>7. ReadUpTo(items, cItems', section) /\ Advance(section, l)
    BY <2>1, <2>3
  <2> HIDE DEF l
  <2>8. /\ ReadInv' /\ cpc' # "failed"
        /\ Here' = IF section # 4 /\ l > 0 THEN At(section, Len(cItems'[section]) + 1, 0)
                                           ELSE Start(section + 1)
    BY <1>1, <2>2, <2>5, <2>6, <2>7, Arrive
  <2>9. After(items, Here) = IF 0 < Len(Fields(items, section))
                             THEN At(section, 1, 0) ELSE Start(section + 1)
    BY <1>1, <2>2, <2>4, AfterCases
  <2>10. Fields(items, section) = items[section] /\ Len(cItems'[section]) + 1 = 1
    BY <1>1, <2>1, <2>3, FieldsType
  <2>11. (l > 0) <=> (0 < Len(Fields(items, section)))
    BY <2>5, <2>6, <2>10 DEF l
  <2>12. Here' = After(items, Here)
    BY <2>5, <2>8, <2>9, <2>10, <2>11, Zenon
  <2> QED
    BY <1>3, <2>2, <2>8, <2>12
<1>6. CASE ReadField
  <2>1. cpc = "field" /\ Receive("field") /\ Head(pipe).size # "big"
    BY <1>6 DEF ReadField
  <2>2. /\ ReadInv /\ Here # End /\ Framed(items, Here) /\ Expected(items, Head(pipe), Here)
        /\ Path(items, pipe', After(items, Here), at) /\ UNCHANGED <<items, at>>
        /\ Head(pipe).unit = "field"
    BY <2>1, ReceiveSync
  <2>3. Here = At(section, FieldHere, 0)
    BY <2>1, PlaceCases DEF Here, FieldHere
  <2>4. /\ section \in 1..4 /\ FieldHere \in 1..Len(Fields(items, section))
        /\ Len(Fields(items, section)) \in Nat
        /\ section \in Sections => Fields(items, section) = items[section]
    BY <2>1, <2>2, FieldAwaited
  <2>5. Here.section = section /\ Here.field = FieldHere /\ Here.part = 0 /\ FieldHere # 0
    BY <2>3, <2>4 DEF At
  <2>6. /\ FieldAt(items, Here) = Fields(items, section)[FieldHere]
        /\ Head(pipe).name = FieldAt(items, Here).name
        /\ Head(pipe).size = FieldAt(items, Here).size
    BY <2>2, <2>5 DEF Expected, FieldAt
  <2>7. CASE Head(pipe).size = "empty"
    <3>1. /\ Advance(section, left - 1)
          /\ cItems' = [cItems EXCEPT ![section] = Append(@, Item(Head(pipe).name, "empty", 0))]
      BY <1>6, <2>7 DEF ReadField
    <3>2. Parts(FieldAt(items, Here).size) = 0
      BY <2>6, <2>7 DEF Parts
    <3>3. section # 4
      <4>1. section = 4 => Fields(items, section)[FieldHere] = Manifest
        BY <1>1, FieldsType DEF FieldHere, FieldOf
      <4>2. Manifest.size = "some"
        BY DEF Manifest, Item
      <4> QED
        BY <2>6, <2>7, <4>1, <4>2
    <3>4. section \in Sections
      BY <2>4, <3>3 DEF Sections
    <3> DEFINE e == Item(Head(pipe).name, "empty", 0)
    <3>5. e \in Field(Slice) /\ e.name = items[section][FieldHere].name
      <4>1. Head(pipe).name \in Name
        BY <1>1, <2>1, ReceiveFacts, UnitFacts
      <4>2. e \in Field(Slice)
        BY <1>1, <3>4, <4>1, MoreItems DEF Slice
      <4>3. e.name = Head(pipe).name
        BY DEF Item
      <4> QED
        BY <2>4, <2>6, <3>4, <4>2, <4>3
    <3>6. cItems' = [cItems EXCEPT ![section] = Append(@, e)]
      BY <3>1
    <3> HIDE DEF e
    <3>7. ReadInv' /\ Here' = After(items, Here)
      BY <1>1, <2>1, <2>2, <2>5, <3>1, <3>2, <3>3, <3>5, <3>6, FieldTaken
    <3> QED
      BY <1>3, <2>2, <3>7
  <2>8. CASE Head(pipe).size # "empty"
    <3>1. /\ cpc' = "bytes" /\ field' = [name |-> Head(pipe).name, size |-> Head(pipe).size]
          /\ UNCHANGED <<section, left, cItems>>
      BY <1>6, <2>8 DEF ReadField
    <3>2. Head(pipe).size = "some"
      <4>1. Head(pipe).size \in Size
        BY <1>1, <2>1, ReceiveFacts, UnitFacts
      <4> QED
        BY <2>1, <2>8, <4>1 DEF Size
    <3>3. Parts(FieldAt(items, Here).size) = 1
      BY <2>6, <3>2 DEF Parts
    <3>4. After(items, Here) = At(section, FieldHere, 1)
      BY <1>1, <2>2, <2>5, <3>3, AfterCases
    <3>5. Here' = At(section, FieldHere, 1)
      BY <3>1, PlaceCases DEF Here, FieldHere
    <3>6. ReadInv'
      <4>1. FieldHere' = FieldHere /\ UNCHANGED items
        BY <2>2, <3>1 DEF FieldHere
      <4>2. /\ Fields(items', section')[FieldHere'].name = field'.name
            /\ Fields(items', section')[FieldHere'].size = "some"
        BY <2>6, <3>1, <3>2, <4>1
      <4>3. /\ ReadUpTo(items', cItems', section') /\ section' \in 1..4
            /\ left' = IF section' = 4 THEN 1 ELSE Len(items'[section']) - Len(cItems'[section'])
        BY <2>1, <2>2, <3>1, <4>1 DEF ReadInv
      <4> QED
        BY <3>1, <4>2, <4>3 DEF ReadInv, Reading
    <3> QED
      BY <1>3, <2>2, <3>4, <3>5, <3>6
  <2> QED
    BY <2>7, <2>8
<1>7. CASE ReadBytes
  <2>1. /\ cpc = "bytes" /\ Receive("bytes") /\ Advance(section, left - 1)
        /\ cItems' = IF section = 4 THEN cItems
                     ELSE [cItems EXCEPT ![section] =
                               Append(@, Item(field.name, Head(pipe).data, cBuf))]
    BY <1>7 DEF ReadBytes
  <2>2. /\ ReadInv /\ Here # End /\ Framed(items, Here)
        /\ Path(items, pipe', After(items, Here), at) /\ UNCHANGED <<items, at>>
    BY <2>1, ReceiveSync
  <2>3. Here = At(section, FieldHere, 1)
    BY <2>1, PlaceCases DEF Here, FieldHere
  <2>4. /\ section \in 1..4 /\ FieldHere \in 1..Len(Fields(items, section))
        /\ section \in Sections => Fields(items, section) = items[section]
    BY <2>1, <2>2, FieldAwaited
  <2>5. Here.section = section /\ Here.field = FieldHere /\ Here.part = 1
    BY <2>3 DEF At
  <2>6. FieldAt(items, Here).name = field.name /\ Parts(FieldAt(items, Here).size) = 1
        /\ FieldAt(items, Here) = Fields(items, section)[FieldHere]
    BY <2>1, <2>2, <2>5 DEF ReadInv, FieldAt, Parts
  <2>7. ASSUME section \in Sections
        PROVE  \E e \in Field(Slice) : /\ e.name = items[section][FieldHere].name
                                       /\ cItems' = [cItems EXCEPT ![section] = Append(@, e)]
    <3> DEFINE e == Item(field.name, Head(pipe).data, cBuf)
    <3>1. e \in Field(Slice)
      <4>1. Head(pipe).data \in Slice /\ field.name \in Name /\ cBuf \in Nat
        BY <1>1, <2>1, ReceiveFacts, UnitFacts DEF TInv, TypeOK, ClientType, ClientMemoryType
      <4> QED
        BY <1>1, <2>7, <4>1, MoreItems
    <3>2. e.name = field.name
      BY DEF Item
    <3>3. cItems' = [cItems EXCEPT ![section] = Append(@, e)]
      BY <2>1, <2>7 DEF Sections
    <3> HIDE DEF e
    <3> QED
      BY <2>4, <2>6, <2>7, <3>1, <3>2, <3>3
  <2>8. ReadInv' /\ Here' = After(items, Here)
    BY <1>1, <2>1, <2>2, <2>5, <2>6, <2>7, FieldTaken
  <2> QED
    BY <1>3, <2>2, <2>8
<1>8. CASE ReadFails
  BY <1>8 DEF ReadFails, SyncInv
<1> QED
  BY <1>4, <1>5, <1>6, <1>7, <1>8 DEF Decode

\* As long as nothing is written, nothing is read.
LEMMA NothingRead ==
    ASSUME TInv, SyncInv, pipe = <<>>, at = Start(0), cpc # "failed"
    PROVE  /\ cpc = "header" /\ section = 0 /\ Here = Start(0)
           /\ \A s \in Sections : Len(cItems[s]) = 0
<1>1. ~Refusal
  BY DEF Refusal
<1>2. ReadInv /\ Here = Start(0)
  BY <1>1, PathEmpty DEF SyncInv
<1>3. Start(0).section = 0 /\ End.section = 5
  BY DEF Start, At, End
<1>4. cpc # "count"
  <2>1. cpc = "count" => Here = Start(section) /\ section \in Sections
    BY <1>2, PlaceCases DEF Here, ReadInv
  <2>2. Start(section).section = section
    BY DEF Start, At
  <2> QED
    BY <1>2, <1>3, <2>1, <2>2 DEF Sections
<1>5. cpc \notin {"field", "bytes"}
  <2>1. cpc \in {"field", "bytes"} => section \in 1..4
    BY <1>2 DEF ReadInv
  <2>2. \A i, c : At(section, i, c).section = section
    BY DEF At
  <2>3. cpc \in {"field", "bytes"} => Here.section = section
    BY <2>2, PlaceCases DEF Here
  <2> QED
    BY <1>2, <1>3, <2>1, <2>3
<1>6. cpc \in Reading
  <2>1. cpc \notin Reading => Here = End
    BY PlaceCases DEF Here
  <2> QED
    BY <1>2, <1>3, <2>1
<1>7. cpc = "header"
  BY <1>4, <1>5, <1>6 DEF Reading
<1>8. section = 0 /\ ReadUpTo(items, cItems, section)
  BY <1>2, <1>7 DEF ReadInv
<1> QED
  BY <1>2, <1>7, <1>8 DEF ReadUpTo, Sections

\* Then any bundle will do.
LEMMA ReadNothing ==
    ASSUME NEW b \in BundleOf(Size), NEW c, \A s \in Sections : Len(c[s]) = 0
    PROVE  ReadUpTo(b, c, 0)
<1>1. \A s \in Sections : Len(b[s]) \in Nat /\ ~(s < 0)
  BY LenProperties DEF BundleOf, Sections
<1> QED
  BY <1>1 DEF ReadUpTo

LEMMA SyncInit == Init => SyncInv
<1> SUFFICES ASSUME Init PROVE SyncInv
  OBVIOUS
<1>1. /\ cpc = "header" /\ section = 0 /\ pipe = <<>> /\ at = Start(0)
      /\ items = NoItems /\ cItems = NoItems
  BY DEF Init
<1>2. NoItems \in BundleOf(Size) /\ \A s \in Sections : Len(NoItems[s]) = 0
  BY EmptySeq DEF NoItems, BundleOf
<1>3. ReadUpTo(items, cItems, 0)
  BY <1>1, <1>2, ReadNothing
<1>4. ReadInv
  BY <1>1, <1>3 DEF ReadInv, Reading
<1>5. Here = Start(0)
  BY <1>1, PlaceCases DEF Here
<1>6. Path(items, pipe, Here, at)
  BY <1>1, <1>5, PathEmpty
<1> QED
  BY <1>4, <1>6 DEF SyncInv

\* With the receiver still at the beginning, the handler may do as it likes
\* with its bundle.
LEMMA BuildSync ==
    ASSUME TInv, SyncInv, TInv', pipe = <<>>, at = Start(0),
           UNCHANGED <<cpc, section, left, field, cItems, pipe, at>>
    PROVE  SyncInv'
<1> SUFFICES ASSUME cpc # "failed" PROVE ReadInv' /\ Path(items', pipe', Here', at')
  BY DEF SyncInv
<1>1. /\ cpc = "header" /\ section = 0 /\ Here = Start(0)
      /\ \A s \in Sections : Len(cItems[s]) = 0
  BY NothingRead
<1>2. items' \in BundleOf(Size)
  BY DEF TInv, TypeOK, DaemonType
<1>3. ReadUpTo(items', cItems, 0)
  BY <1>1, <1>2, ReadNothing
<1>4. ReadInv'
  BY <1>1, <1>3 DEF ReadInv, Reading
<1>5. Here' = Start(0)
  BY <1>1 DEF Here
<1> QED
  BY <1>4, <1>5, PathEmpty

\* What the receiver has read does not depend on the handler's buffers, or its own.
LEMMA SameRead ==
    ASSUME NEW b, NEW c, NEW b2, NEW c2, NEW t, ReadUpTo(b, c, t),
           \A s \in Sections : /\ Len(b2[s]) = Len(b[s]) /\ Len(c2[s]) = Len(c[s])
                               /\ \A i \in 1..Len(b[s]) : b2[s][i].name = b[s][i].name
                               /\ \A i \in 1..Len(c[s]) : c2[s][i].name = c[s][i].name,
           \A s \in Sections : Len(b[s]) \in Nat /\ Len(c[s]) \in Nat
    PROVE  ReadUpTo(b2, c2, t)
<1> SUFFICES ASSUME NEW s \in Sections
             PROVE  /\ Len(c2[s]) <= Len(b2[s])
                    /\ \A j \in 1..Len(c2[s]) : c2[s][j].name = b2[s][j].name
                    /\ s < t => Len(c2[s]) = Len(b2[s])
                    /\ s > t => Len(c2[s]) = 0
  BY DEF ReadUpTo
<1>1. /\ Len(c[s]) <= Len(b[s]) /\ (s < t => Len(c[s]) = Len(b[s]))
      /\ (s > t => Len(c[s]) = 0)
  BY DEF ReadUpTo
<1>2. ASSUME NEW j \in 1..Len(c2[s]) PROVE c2[s][j].name = b2[s][j].name
  <2>1. j \in 1..Len(c[s])
    OBVIOUS
  <2>2. j \in 1..Len(b[s])
    BY <1>1, <2>1
  <2>3. c[s][j].name = b[s][j].name
    BY <2>1 DEF ReadUpTo
  <2> QED
    BY <2>1, <2>2, <2>3
<1> QED
  BY <1>1, <1>2

LEMMA DestroySync ==
    ASSUME TInv, SyncInv, dpc # "done", items' = Cleared(items), UNCHANGED <<at, pipe>>,
           UNCHANGED <<cpc, section, left, field, cItems>>
    PROVE  SyncInv'
<1> SUFFICES ASSUME cpc # "failed" PROVE ReadInv' /\ Path(items', pipe', Here', at')
  BY DEF SyncInv
<1>1. /\ items \in BundleOf(Size) /\ items' \in BundleOf(Size) /\ SameShape(items, items')
      /\ cItems \in BundleOf(Slice)
  BY ClearedShape DEF TInv, TypeOK, DaemonType, ClientType
<1>2. ReadInv /\ Path(items, pipe, Here, at)
  BY DEF SyncInv, Refusal
<1>3. Path(items', pipe', Here', at')
  <2>1. Here' = Here
    BY DEF Here
  <2> QED
    BY <1>1, <1>2, <2>1, PathSame
<1>4. ReadUpTo(items', cItems, section)
  <2>1. \A s \in Sections : Len(items[s]) \in Nat /\ Len(cItems[s]) \in Nat
    BY <1>1, LenProperties DEF BundleOf
  <2> QED
    BY <1>1, <1>2, <2>1, SameRead DEF ReadInv, SameShape
<1>5. ASSUME cpc = "bytes"
      PROVE  /\ Fields(items', section)[FieldHere].name = field.name
             /\ Fields(items', section)[FieldHere].size = "some"
  <2>1. FieldHere \in 1..Len(Fields(items, section))
    BY <1>2, <1>5, FieldAwaited
  <2>2. /\ Fields(items', section)[FieldHere].name = Fields(items, section)[FieldHere].name
        /\ Fields(items', section)[FieldHere].size = Fields(items, section)[FieldHere].size
    BY <1>1, <2>1, SameFields
  <2> QED
    BY <1>2, <1>5, <2>2 DEF ReadInv
<1>6. FieldHere' = FieldHere
  BY DEF FieldHere
<1>7. cpc \in {"field", "bytes"} => section \in 1..4 /\ (section # 4 => section \in Sections)
  <2>1. cpc \in {"field", "bytes"} => section \in 1..4
    BY <1>2 DEF ReadInv
  <2> QED
    BY <2>1 DEF Sections
<1>8. \A s \in Sections : Len(items'[s]) = Len(items[s])
  BY <1>1 DEF SameShape
<1>9. cpc \in {"field", "bytes"} =>
        /\ section \in 1..4
        /\ left = IF section = 4 THEN 1 ELSE Len(items'[section]) - Len(cItems[section])
  BY <1>2, <1>7, <1>8 DEF ReadInv
<1>10. ReadInv'
  BY <1>2, <1>4, <1>5, <1>6, <1>9 DEF ReadInv
<1> QED
  BY <1>3, <1>10

LEMMA RespondSync == TInv /\ SyncInv /\ Respond => SyncInv'
<1> SUFFICES ASSUME TInv, SyncInv, Respond PROVE SyncInv'
  OBVIOUS
<1>1. UNCHANGED <<cpc, section, left, field, cItems>>
  BY RespondFrame DEF clientVars, decodeVars
<1>2. Here' = Here /\ FieldHere' = FieldHere
  BY <1>1 DEF Here, FieldHere
<1>3. CASE EncodeBundle
  <2>1. /\ dpc = "encode" /\ at # End /\ pipe' = Append(pipe, WriteAt(items, at))
        /\ at' = After(items, at) /\ UNCHANGED items
    BY <1>3, RespondFrame DEF EncodeBundle
  <2>2. Framed(items, at) /\ items \in BundleOf(Size) /\ pipe \in Seq(Unit)
    BY DEF TInv, TypeOK, DaemonType, ConnType, FrameInv
  <2>3. Expected(items, WriteAt(items, at), at) /\ WriteAt(items, at) \in Unit
    BY <2>1, <2>2, WriteExpected
  <2> SUFFICES ASSUME cpc # "failed" PROVE ReadInv' /\ Path(items', pipe', Here', at')
    BY <1>1 DEF SyncInv
  <2>4. ReadInv /\ Path(items, pipe, Here, at)
    BY <2>1 DEF SyncInv, Refusal
  <2>5. Path(items, Append(pipe, WriteAt(items, at)), Here, After(items, at))
    BY <2>1, <2>2, <2>3, <2>4, PathAppend
  <2>6. Path(items', pipe', Here', at')
    BY <1>2, <2>1, <2>5
  <2>7. ReadInv'
    BY <1>1, <1>2, <2>1, <2>4 DEF ReadInv
  <2> QED
    BY <2>6, <2>7
<1>4. CASE EncodeFails \/ RecordAndDestroy
  <2>1. dpc = "encode" /\ items' = Cleared(items) /\ UNCHANGED <<at, pipe>>
    BY <1>4, RespondFrame DEF DestroyAndClose, EncodeFails, RecordAndDestroy
  <2> QED
    BY <1>1, <2>1, DestroySync
<1>5. CASE WriteError
  <2>1. /\ dpc = "error" /\ dpc' = "done" /\ UNCHANGED <<items, at>>
        /\ pipe' = Append(pipe, [unit |-> "error"]) \/ pipe' = pipe
    BY <1>5, RespondFrame DEF WriteError
  <2>2. pipe = <<>> /\ at = Start(0)
    BY <2>1 DEF TInv, FrameInv
  <2> SUFFICES ASSUME cpc # "failed"
               PROVE  ReadInv' /\ (Refusal' \/ Path(items', pipe', Here', at'))
    BY <1>1 DEF SyncInv
  <2>3. cpc = "header" /\ Here = Start(0) /\ ReadInv
    BY <2>2, NothingRead DEF SyncInv
  <2>4. ReadInv'
    BY <1>1, <1>2, <2>1, <2>3 DEF ReadInv
  <2>5. CASE pipe' = pipe
    BY <1>2, <2>1, <2>2, <2>3, <2>4, <2>5, PathEmpty
  <2>6. CASE pipe' = Append(pipe, [unit |-> "error"])
    <3>1. pipe' = <<[unit |-> "error"]>>
      BY <2>2, <2>6
    <3> QED
      BY <1>1, <2>1, <2>3, <2>4, <3>1 DEF Refusal
  <2> QED
    BY <2>1, <2>5, <2>6
<1> QED
  BY <1>3, <1>4, <1>5 DEF Respond

LEMMA ApplySync == TInv /\ SyncInv /\ ApplyBundle => SyncInv'
<1> SUFFICES ASSUME TInv, SyncInv, ApplyBundle, cpc' # "failed" PROVE SyncInv'
  BY DEF SyncInv
<1>1. /\ UNCHANGED <<items, at, pipe, section>> /\ cpc \notin Reading /\ cpc # "failed"
      /\ cpc' \notin Reading
      /\ cItems' = cItems \/ cItems' = Cleared(cItems)
  <2>1. UNCHANGED <<items, at>>
    BY ReceiverFrame DEF daemonVars, bundleVars
  <2>2. UNCHANGED <<pipe, section>>
    BY DEF ApplyBundle, ApplyFile, ApplyManifest, EnvFor, ExecDestroys, Execve, Exit, ApplyFails,
           DestroyClient, connVars, decodeVars
  <2>3. cpc \notin Reading /\ cpc # "failed" /\ cpc' \notin Reading
    BY DEF ApplyBundle, ApplyFile, ApplyManifest, EnvFor, ExecDestroys, Execve, Exit, ApplyFails,
           Reading
  <2>4. cItems' = cItems \/ cItems' = Cleared(cItems)
    BY DEF ApplyBundle, ApplyFile, ApplyManifest, EnvFor, ExecDestroys, Execve, Exit, ApplyFails,
           DestroyClient, decodeVars
  <2> QED
    BY <2>1, <2>2, <2>3, <2>4
<1>2. ReadInv /\ Path(items, pipe, Here, at)
  BY <1>1 DEF SyncInv, Refusal, Reading
<1>3. Here = End /\ Here' = End
  BY <1>1, PlaceCases DEF Here
<1>4. items \in BundleOf(Size) /\ cItems \in BundleOf(Slice)
  BY DEF TInv, TypeOK, DaemonType, ClientType
<1>5. ReadUpTo(items, cItems', section)
  <2>1. \A s \in Sections : Len(items[s]) \in Nat /\ Len(cItems[s]) \in Nat
    BY <1>4, LenProperties DEF BundleOf
  <2>2. \A s \in Sections : /\ Len(Cleared(cItems)[s]) = Len(cItems[s])
                            /\ \A i \in 1..Len(cItems[s]) :
                                  Cleared(cItems)[s][i].name = cItems[s][i].name
    BY <1>4, ClearedFields
  <2>3. ReadUpTo(items, Cleared(cItems), section)
    BY <1>2, <2>1, <2>2, SameRead DEF ReadInv
  <2> QED
    BY <1>1, <1>2, <2>3 DEF ReadInv
<1>6. ReadInv'
  <2>1. section' = 4 /\ ReadUpTo(items', cItems', section')
    BY <1>1, <1>2, <1>5 DEF ReadInv
  <2> QED
    BY <1>1, <2>1 DEF ReadInv, Reading
<1> QED
  BY <1>1, <1>2, <1>3, <1>6 DEF SyncInv

LEMMA SyncNext == TInv /\ SyncInv /\ [Next]_vars => SyncInv'
<1> SUFFICES ASSUME TInv, SyncInv, [Next]_vars PROVE SyncInv'
  OBVIOUS
<1>1. CASE Build
  <2>1. /\ UNCHANGED <<cpc, section, left, field, cItems, pipe, at>> /\ dpc \in Building
    BY <1>1, BuildFrame DEF Build, OpenSource, captureDecrypt, Keys, Value, Payload, CloseHandle,
                            BuildFails, BuildManifest, Building, clientVars, decodeVars
  <2>2. pipe = <<>> /\ at = Start(0)
    BY <2>1 DEF TInv, FrameInv
  <2> QED
    BY <1>1, <2>1, <2>2, BuildTypes, BuildSync
<1>2. CASE Rotate \/ UNCHANGED vars
  <2>1. UNCHANGED <<items, pipe, at, dpc, cpc, section, left, field, cItems>>
    BY <1>2 DEF Rotate, vars, daemonVars, bundleVars, connVars, clientVars, decodeVars
  <2> QED
    BY <2>1 DEF SyncInv, ReadInv, Refusal, Here, FieldHere
<1> QED
  BY <1>1, <1>2, RespondSync, DecodeSync, ApplySync DEF Next

-----------------------------------------------------------------------------
(***************************************************************************)
(* A complete bundle. Every field belongs to a target that is done or in   *)
(* hand. A target that is done has its field, and its pointer if it has    *)
(* one; a target with a field for each key has those of one listing. The   *)
(* target in hand lacks exactly what is still wanted.                      *)
(***************************************************************************)
Multi == {"envdir", "envall"}

NamesIn(b, s) == {b[s][j].name : j \in 1..Len(b[s])}
KeysIn(b, s, i) == {n[2] : n \in {m \in NamesIn(b, s) : m[1] = i}}
Elements(q) == {q[j] : j \in DOMAIN q}

Belongs(p, s, n) ==
    /\ n[1] \in 1..Len(p)
    /\ IF s = 3 THEN p[n[1]].pointer ELSE s = SectionOf(p[n[1]].kind)
    /\ p[n[1]].kind \notin Multi => n[2] = NoKey

Single(p, b, i) ==
    /\ <<i, NoKey>> \in NamesIn(b, SectionOf(p[i].kind))
    /\ p[i].pointer => <<i, NoKey>> \in NamesIn(b, 3)

TargetDone(p, b, i) ==
    /\ p[i].kind \notin Multi => Single(p, b, i)
    /\ p[i].kind \in Multi => KeysIn(b, SectionOf(p[i].kind), i) \in KeySets

FieldsInv ==
    \A s \in Sections : \A n \in NamesIn(items, s) :
        /\ Belongs(plan, s, n)
        /\ n[1] < ti \/ (n[1] = ti /\ dpc \in {"capture", "use"} /\ listed)

DoneInv ==
    dpc \in Building \cup {"encode"} \/ at # Start(0) =>
        \A i \in 1..(ti - 1) : TargetDone(plan, items, i)

LastInv == dpc = "encode" \/ at # Start(0) => ti = Len(plan) + 1

WantInv ==
    dpc \in {"capture", "use"} /\ listed =>
        /\ plan[ti].kind \in {"file", "whole", "env"} => want # <<>> \/ Single(plan, items, ti)
        /\ plan[ti].kind \in Multi =>
              KeysIn(items, SectionOf(plan[ti].kind), ti) \cup Elements(want) \in KeySets

BuildInv == FieldsInv /\ DoneInv /\ LastInv /\ WantInv

\* The names of a bundle with one more field.
LEMMA WithItemNames ==
    ASSUME items \in BundleOf(Size), NEW name \in Name, NEW size \in Size, NEW b \in Nat,
           NEW s \in Sections
    PROVE  NamesIn(WithItem(name, size, b), s) =
              NamesIn(items, s) \cup
              (IF s = SectionOf(Target.kind) \/ (s = 3 /\ Target.pointer) THEN {name} ELSE {})
<1> DEFINE more == WithItem(name, size, b)
           new == s = SectionOf(Target.kind) \/ (s = 3 /\ Target.pointer)
           len == Len(items[s])
<1>1. Item(name, size, b).name = name /\ Item(name, "empty", 0).name = name
  BY DEF Item
<1>2. len \in Nat /\ \A i \in 1..len : more[s][i] = items[s][i]
  BY WithItemFields, LenProperties DEF BundleOf
<1>3. ~new => more[s] = items[s]
  BY DEF WithItem
<1>4. new => Len(more[s]) = len + 1 /\ more[s][len + 1].name = name
  BY <1>1, WithItemFields
<1> HIDE DEF more, new, len
<1>5. CASE ~new
  <2>1. NamesIn(more, s) = NamesIn(items, s)
    BY <1>3, <1>5 DEF NamesIn
  <2> QED
    BY <1>5, <2>1 DEF more, new
<1>6. CASE new
  <2>1. \A i \in 1..(len + 1) : i \in 1..len \/ i = len + 1
    BY <1>2
  <2>2. 1..len \subseteq 1..(len + 1) /\ len + 1 \in 1..(len + 1)
    BY <1>2
  <2>3. NamesIn(more, s) = {more[s][i].name : i \in 1..(len + 1)}
    BY <1>4, <1>6 DEF NamesIn
  <2>4. NamesIn(items, s) = {items[s][i].name : i \in 1..len}
    BY DEF NamesIn, len
  <2>5. NamesIn(more, s) \subseteq NamesIn(items, s) \cup {name}
    BY <1>2, <1>4, <1>6, <2>1, <2>3, <2>4
  <2>6. NamesIn(items, s) \cup {name} \subseteq NamesIn(more, s)
    BY <1>2, <1>4, <1>6, <2>2, <2>3, <2>4
  <2> QED
    BY <1>6, <2>5, <2>6 DEF more, new
<1> QED
  BY <1>5, <1>6

\* Bundles of the same shape have the same names.
LEMMA SameNames ==
    ASSUME NEW b, NEW c, NEW s,
           Len(c[s]) = Len(b[s]), \A i \in 1..Len(b[s]) : c[s][i].name = b[s][i].name
    PROVE  NamesIn(c, s) = NamesIn(b, s)
BY DEF NamesIn

\* The names of a bundle are names.
LEMMA NamesType ==
    ASSUME NEW b \in BundleOf(Size), NEW s \in Sections
    PROVE  \A n \in NamesIn(b, s) : n \in Name /\ n[1] \in Nat /\ n[2] \in AnyKey
                                    /\ n = <<n[1], n[2]>>
<1>1. \A i \in 1..Len(b[s]) : b[s][i] \in Field(Size)
  BY ElementOfSeq DEF BundleOf
<1>2. \A i \in 1..Len(b[s]) : b[s][i].name \in Name
  BY <1>1 DEF Field
<1> QED
  BY <1>2 DEF NamesIn, Name

\* What is left to read of a list of keys.
LEMMA HeadElement ==
    ASSUME NEW S, NEW q \in Seq(S), q # <<>>
    PROVE  Elements(q) = {Head(q)} \cup Elements(Tail(q))
<1>1. /\ Len(q) \in Nat \ {0} /\ Head(q) = q[1] /\ Len(Tail(q)) = Len(q) - 1
      /\ \A j \in 1..Len(Tail(q)) : Tail(q)[j] = q[j + 1]
      /\ DOMAIN q = 1..Len(q) /\ DOMAIN Tail(q) = 1..Len(Tail(q))
  BY HeadTailProperties, EmptySeq, LenProperties
<1>2. Elements(q) = {q[j] : j \in 1..Len(q)}
  BY <1>1 DEF Elements
<1>3. Elements(Tail(q)) = {q[j + 1] : j \in 1..(Len(q) - 1)}
  BY <1>1 DEF Elements
<1>4. ASSUME NEW j \in 1..Len(q) PROVE j = 1 \/ \E i \in 1..(Len(q) - 1) : j = i + 1
  <2>1. j # 1 => j - 1 \in 1..(Len(q) - 1) /\ j = (j - 1) + 1
    BY <1>1
  <2> QED
    BY <2>1
<1>5. 1 \in 1..Len(q) /\ \A i \in 1..(Len(q) - 1) : i + 1 \in 1..Len(q)
  BY <1>1
<1>6. Elements(q) \subseteq {Head(q)} \cup Elements(Tail(q))
  BY <1>1, <1>2, <1>3, <1>4
<1>7. {Head(q)} \cup Elements(Tail(q)) \subseteq Elements(q)
  BY <1>1, <1>2, <1>3, <1>5
<1> QED
  BY <1>6, <1>7

\* A field for the target in hand completes what the target had.
LEMMA FieldAdded ==
    ASSUME TInv, BuildInv, dpc \in {"capture", "use"}, NEW k \in AnyKey, NEW size \in Size,
           NEW b \in Nat, items' = WithItem(FieldName(k), size, b)
    PROVE  /\ \A s \in Sections : \A n \in NamesIn(items', s) :
                 Belongs(plan, s, n) /\ (n[1] < ti \/ n[1] = ti)
           /\ plan[ti].kind \notin Multi => Single(plan, items', ti)
           /\ plan[ti].kind \in Multi =>
                 KeysIn(items', SectionOf(plan[ti].kind), ti) =
                    KeysIn(items, SectionOf(plan[ti].kind), ti) \cup {k}
           /\ \A i \in 1..(ti - 1) : TargetDone(plan, items', i)
<1> DEFINE name == FieldName(k)
           kind == plan[ti].kind
           ptr == plan[ti].pointer
<1>1. /\ items \in BundleOf(Size) /\ ti \in 1..Len(plan) /\ ti \in Nat /\ name \in Name
      /\ Target = plan[ti]
  <2>1. DaemonType /\ TargetInv /\ plan \in Plans /\ items \in BundleOf(Size)
    BY DEF TInv, TypeOK, DaemonType
  <2>2. Len(plan) \in Nat
    BY <2>1, PlanAssumption, LenProperties
  <2>3. ti \in 1..Len(plan)
    BY <2>1, <2>2 DEF DaemonType, TargetInv
  <2>4. name \in Name
    BY <2>1, FieldNameType
  <2> QED
    BY <2>1, <2>2, <2>3, <2>4 DEF Target
<1>2. ptr => kind \in {"file", "whole"}
  <2>1. plan \in Plans /\ DOMAIN plan = 1..Len(plan)
    BY PlanAssumption, LenProperties DEF TInv, TypeOK, DaemonType
  <2> QED
    BY <1>1, <2>1, PlanAssumption
<1>3. name = <<ti, IF kind \in Multi THEN k ELSE NoKey>>
  BY <1>1 DEF FieldName, Multi
<1>4. name[1] = ti /\ name[2] = IF kind \in Multi THEN k ELSE NoKey
  BY <1>3
<1>5. SectionOf(kind) \in {1, 2}
  BY DEF SectionOf
<1> HIDE DEF name, kind, ptr
<1>6. \A s \in Sections :
         NamesIn(items', s) = NamesIn(items, s) \cup
                              (IF s = SectionOf(kind) \/ (s = 3 /\ ptr) THEN {name} ELSE {})
  BY <1>1, WithItemNames DEF name, kind, ptr
<1>7. ASSUME NEW s \in Sections, NEW n \in NamesIn(items', s)
      PROVE  Belongs(plan, s, n) /\ (n[1] < ti \/ n[1] = ti)
  <2>1. CASE n \in NamesIn(items, s)
    BY <2>1 DEF BuildInv, FieldsInv
  <2>2. CASE n = name /\ (s = SectionOf(kind) \/ (s = 3 /\ ptr))
    <3>1. IF s = 3 THEN ptr ELSE s = SectionOf(kind)
      BY <1>5, <2>2
    <3>2. Belongs(plan, s, n)
      BY <1>1, <1>4, <2>2, <3>1 DEF Belongs, kind, ptr
    <3> QED
      BY <1>4, <2>2, <3>2
  <2> QED
    BY <1>6, <2>1, <2>2
<1>8. ASSUME kind \notin Multi PROVE Single(plan, items', ti)
  <2>1. name = <<ti, NoKey>>
    BY <1>3, <1>8
  <2>2. SectionOf(kind) \in Sections /\ 3 \in Sections
    BY <1>5 DEF Sections
  <2>3. name \in NamesIn(items', SectionOf(kind)) /\ (ptr => name \in NamesIn(items', 3))
    BY <1>6, <2>2
  <2> QED
    BY <2>1, <2>3 DEF Single, kind, ptr
<1>9. ASSUME kind \in Multi
      PROVE  KeysIn(items', SectionOf(kind), ti) = KeysIn(items, SectionOf(kind), ti) \cup {k}
  <2>1. SectionOf(kind) \in Sections
    BY <1>5 DEF Sections
  <2>2. NamesIn(items', SectionOf(kind)) = NamesIn(items, SectionOf(kind)) \cup {name}
    BY <1>6, <2>1
  <2>3. name[1] = ti /\ name[2] = k
    BY <1>4, <1>9
  <2> QED
    BY <2>2, <2>3 DEF KeysIn
<1>10. ASSUME NEW i \in 1..(ti - 1) PROVE TargetDone(plan, items', i)
  <2>1. TargetDone(plan, items, i)
    BY DEF BuildInv, DoneInv, Building
  <2>2. \A s \in Sections : NamesIn(items, s) \subseteq NamesIn(items', s)
    BY <1>6
  <2>3. SectionOf(plan[i].kind) \in Sections /\ 3 \in Sections
    BY DEF SectionOf, Sections
  <2>4. plan[i].kind \notin Multi => Single(plan, items', i)
    BY <2>1, <2>2, <2>3 DEF TargetDone, Single
  <2>5. \A s \in Sections : KeysIn(items', s, i) = KeysIn(items, s, i)
    <3>1. i # ti
      BY <1>1
    <3>2. ASSUME NEW s \in Sections
          PROVE  {m \in NamesIn(items', s) : m[1] = i} = {m \in NamesIn(items, s) : m[1] = i}
      BY <1>4, <1>6, <3>1
    <3> QED
      BY <3>2 DEF KeysIn
  <2> QED
    BY <2>1, <2>3, <2>4, <2>5 DEF TargetDone
<1> QED
  BY <1>7, <1>8, <1>9, <1>10 DEF kind

LEMMA BuildInit == Init => BuildInv
<1> SUFFICES ASSUME Init PROVE BuildInv
  OBVIOUS
<1>1. \A s \in Sections : NamesIn(items, s) = {}
  BY DEF Init, NoItems, NamesIn
<1>2. 1..(ti - 1) = {}
  BY DEF Init
<1> QED
  BY <1>1, <1>2 DEF Init, BuildInv, FieldsInv, DoneInv, LastInv, WantInv

LEMMA BuildCompletes == TInv /\ BuildInv /\ Build => BuildInv'
<1> SUFFICES ASSUME TInv, BuildInv, Build PROVE BuildInv'
  OBVIOUS
<1>1. /\ plan \in Plans /\ Len(plan) \in Nat /\ ti \in 1..(Len(plan) + 1) /\ ti \in Nat
      /\ items \in BundleOf(Size) /\ want \in Seq(AnyKey) /\ decrypted \in Version
      /\ DaemonType /\ TargetInv
  <2>1. DaemonType /\ TargetInv /\ plan \in Plans
    BY DEF TInv, TypeOK, DaemonType
  <2>2. Len(plan) \in Nat
    BY <2>1, PlanAssumption, LenProperties
  <2> QED
    BY <2>1, <2>2 DEF DaemonType
<1>2. plan' = plan /\ at' = Start(0) /\ dpc \in Building
  <2>1. UNCHANGED <<plan, at>> /\ dpc \in Building
    BY BuildFrame DEF Build, OpenSource, captureDecrypt, Keys, Value, Payload, CloseHandle,
                      BuildFails, BuildManifest, Building
  <2> QED
    BY <2>1 DEF TInv, FrameInv
<1>3. /\ \A i \in 1..(ti - 1) : TargetDone(plan, items, i)
      /\ \A s \in Sections : \A n \in NamesIn(items, s) :
            /\ Belongs(plan, s, n)
            /\ n[1] < ti \/ (n[1] = ti /\ dpc \in {"capture", "use"} /\ listed)
  BY <1>2 DEF BuildInv, FieldsInv, DoneInv
<1>4. CASE OpenSource
  <2>1. /\ dpc = "open" /\ dpc' = "capture" /\ UNCHANGED <<ti, items>>
        /\ listed' = (plan[ti].kind \notin Listing)
        /\ want' = IF plan[ti].kind \in Listing THEN <<>> ELSE <<plan[ti].key>>
    BY <1>4 DEF OpenSource, bundleVars, Target
  <2>2. FieldsInv' /\ DoneInv' /\ LastInv'
    BY <1>2, <1>3, <2>1 DEF FieldsInv, DoneInv, LastInv
  <2>3. WantInv'
    <3>1. listed' => plan[ti].kind \notin Multi /\ want' # <<>>
      BY <2>1 DEF Listing, Multi
    <3> QED
      BY <1>2, <2>1, <3>1 DEF WantInv
  <2> QED
    BY <2>2, <2>3 DEF BuildInv
<1>5. CASE captureDecrypt
  <2>1. /\ dpc = "capture" /\ dpc' = "use" /\ UNCHANGED <<ti, items, listed, want>>
    BY <1>5 DEF captureDecrypt, bundleVars
  <2>2. FieldsInv' /\ DoneInv' /\ LastInv'
    BY <1>2, <1>3, <2>1 DEF FieldsInv, DoneInv, LastInv
  <2>3. WantInv'
    BY <1>2, <2>1 DEF BuildInv, WantInv
  <2> QED
    BY <2>2, <2>3 DEF BuildInv
<1>6. CASE Keys
  <2>1. /\ dpc = "use" /\ dpc' = "capture" /\ ~listed /\ listed' = TRUE
        /\ plan[ti].kind \in Listing /\ want' = dotenvKeys(decrypted) /\ UNCHANGED <<ti, items>>
    BY <1>6 DEF Keys, bundleVars, Target
  <2>2. FieldsInv' /\ DoneInv' /\ LastInv'
    BY <1>2, <1>3, <2>1 DEF FieldsInv, DoneInv, LastInv
  <2>3. ASSUME plan[ti].kind \in Multi
        PROVE  KeysIn(items, SectionOf(plan[ti].kind), ti) \cup Elements(want') \in KeySets
    <3>1. SectionOf(plan[ti].kind) \in Sections
      BY DEF SectionOf, Sections
    <3>2. \A n \in NamesIn(items, SectionOf(plan[ti].kind)) : n[1] # ti
      <4>1. \A n \in NamesIn(items, SectionOf(plan[ti].kind)) : n[1] < ti /\ n[1] \in Nat
        BY <1>1, <1>3, <2>1, <3>1, NamesType
      <4> QED
        BY <1>1, <4>1
    <3>3. KeysIn(items, SectionOf(plan[ti].kind), ti) = {}
      BY <3>2 DEF KeysIn
    <3>4. Elements(want') \in KeySets
      BY <1>1, <2>1 DEF Elements, KeySets
    <3> QED
      BY <3>3, <3>4
  <2>4. plan[ti].kind \notin {"file", "whole", "env"}
    BY <2>1 DEF Listing
  <2>5. WantInv'
    BY <1>2, <2>1, <2>3, <2>4 DEF WantInv
  <2> QED
    BY <2>2, <2>5 DEF BuildInv
<1>7. CASE Value
  <2>1. /\ dpc = "use" /\ dpc' = "capture" /\ listed /\ want' = Tail(want)
        /\ plan[ti].kind # "whole" /\ Found(decrypted, Head(want)) /\ UNCHANGED <<ti, listed>>
    BY <1>7 DEF Value, Target
  <2>2. want # <<>> /\ Head(want) \in AnyKey /\ dotenvFind(decrypted, Head(want)) \in Size
    BY <1>1, <2>1, HeadTailProperties, SourceTypes DEF TargetInv
  <2>3. CASE plan[ti].kind = "dotenv"
    <3>1. UNCHANGED items
      BY <1>7, <2>3 DEF Value, bundleVars, Target
    <3>2. FieldsInv' /\ DoneInv' /\ LastInv'
      BY <1>2, <1>3, <2>1, <3>1 DEF FieldsInv, DoneInv, LastInv
    <3>3. WantInv'
      BY <1>2, <2>1, <2>3 DEF WantInv, Multi
    <3> QED
      BY <3>2, <3>3 DEF BuildInv
  <2>4. CASE plan[ti].kind # "dotenv"
    <3>1. \E b \in Nat :
              items' = WithItem(FieldName(Head(want)), dotenvFind(decrypted, Head(want)), b)
      <4> DEFINE size == dotenvFind(decrypted, Head(want))
                 out == Fresh(alloc + 1, size)
                 n == IF out = 0 THEN alloc ELSE alloc + 1
      <4>1. n \in Nat
        BY DEF TInv, TypeOK, MemoryType
      <4>2. items' = WithItem(FieldName(Head(want)), size, Fresh(n + 1, size))
        BY <1>7, <2>4 DEF Value, AddSecret, Target
      <4> HIDE DEF n, size
      <4>3. Fresh(n + 1, size) \in Nat
        BY <4>1, BufferFacts
      <4> QED
        BY <4>2, <4>3 DEF size
    <3>2. PICK b \in Nat :
              items' = WithItem(FieldName(Head(want)), dotenvFind(decrypted, Head(want)), b)
      BY <3>1
    <3>3. /\ \A s \in Sections : \A n \in NamesIn(items', s) :
                Belongs(plan, s, n) /\ (n[1] < ti \/ n[1] = ti)
          /\ plan[ti].kind \notin Multi => Single(plan, items', ti)
          /\ plan[ti].kind \in Multi =>
                KeysIn(items', SectionOf(plan[ti].kind), ti) =
                   KeysIn(items, SectionOf(plan[ti].kind), ti) \cup {Head(want)}
          /\ \A i \in 1..(ti - 1) : TargetDone(plan, items', i)
      BY <2>1, <2>2, <3>2, FieldAdded
    <3>4. FieldsInv' /\ DoneInv' /\ LastInv'
      BY <1>2, <2>1, <3>3 DEF FieldsInv, DoneInv, LastInv
    <3>5. Elements(want) = {Head(want)} \cup Elements(Tail(want))
      BY <1>1, <2>2, HeadElement
    <3>6. ASSUME plan[ti].kind \in Multi
          PROVE  KeysIn(items', SectionOf(plan[ti].kind), ti) \cup Elements(want') \in KeySets
      <4>1. KeysIn(items, SectionOf(plan[ti].kind), ti) \cup Elements(want) \in KeySets
        BY <2>1, <3>6 DEF BuildInv, WantInv
      <4>2. KeysIn(items', SectionOf(plan[ti].kind), ti) \cup Elements(want')
              = KeysIn(items, SectionOf(plan[ti].kind), ti) \cup Elements(want)
        BY <2>1, <3>3, <3>5, <3>6
      <4> QED
        BY <4>1, <4>2
    <3>7. WantInv'
      <4>1. plan[ti].kind \in {"file", "whole", "env"} => plan[ti].kind \notin Multi
        BY DEF Multi
      <4> QED
        BY <1>2, <2>1, <3>3, <3>6, <4>1 DEF WantInv
    <3> QED
      BY <3>4, <3>7 DEF BuildInv
  <2> QED
    BY <2>3, <2>4
<1>8. CASE Payload
  <2>1. /\ dpc = "use" /\ dpc' = "capture" /\ plan[ti].kind = "whole" /\ UNCHANGED <<ti, listed>>
        /\ items' = WithItem(FieldName(NoKey), Binary[decrypted],
                             Fresh(alloc + 1, Binary[decrypted]))
    BY <1>8 DEF Payload, AddSecret, Target
  <2>2. Fresh(alloc + 1, Binary[decrypted]) \in Nat /\ Binary[decrypted] \in Size
    <3>1. alloc \in Nat
      BY DEF TInv, TypeOK, MemoryType
    <3>2. Fresh(alloc + 1, Binary[decrypted]) \in {0, alloc + 1}
      BY <3>1, BufferFacts
    <3> QED
      BY <1>1, <3>1, <3>2, SourceTypes
  <2>3. NoKey \in AnyKey /\ plan[ti].kind \notin Multi
    BY <2>1 DEF AnyKey, Multi
  <2>4. listed
    BY <1>1, <2>1 DEF TargetInv, Target, Listing
  <2>5. /\ \A s \in Sections : \A n \in NamesIn(items', s) :
              Belongs(plan, s, n) /\ (n[1] < ti \/ n[1] = ti)
        /\ Single(plan, items', ti)
        /\ \A i \in 1..(ti - 1) : TargetDone(plan, items', i)
    BY <2>1, <2>2, <2>3, FieldAdded
  <2>6. FieldsInv' /\ DoneInv' /\ LastInv'
    BY <1>2, <2>1, <2>4, <2>5 DEF FieldsInv, DoneInv, LastInv
  <2>7. WantInv'
    BY <1>2, <2>1, <2>3, <2>5 DEF WantInv
  <2> QED
    BY <2>6, <2>7 DEF BuildInv
<1>9. CASE CloseHandle
  <2>1. /\ dpc = "capture" /\ dpc' = "open" /\ listed /\ want = <<>> /\ ti' = ti + 1
        /\ plan[ti].kind # "dotenv" => UNCHANGED items
        /\ plan[ti].kind = "dotenv" => \E n : AddSecret(FieldName(NoKey), render, live \ retained, n)
                                              /\ (n = alloc \/ n = alloc + 1)
    BY <1>9 DEF CloseHandle, bundleVars, Target
  <2>2. /\ \A s \in Sections : \A n \in NamesIn(items', s) :
              Belongs(plan, s, n) /\ (n[1] < ti \/ n[1] = ti)
        /\ \A i \in 1..(ti - 1) : TargetDone(plan, items', i)
        /\ TargetDone(plan, items', ti)
    <3>1. CASE plan[ti].kind = "dotenv"
      <4>1. PICK n : AddSecret(FieldName(NoKey), render, live \ retained, n)
                     /\ (n = alloc \/ n = alloc + 1)
        BY <2>1, <3>1
      <4>2. n \in Nat
        BY <4>1 DEF TInv, TypeOK, MemoryType
      <4>3. items' = WithItem(FieldName(NoKey), render, Fresh(n + 1, render))
        BY <4>1 DEF AddSecret
      <4>4. Fresh(n + 1, render) \in Nat /\ render \in Size /\ NoKey \in AnyKey
        BY <1>1, <4>2, BufferFacts DEF DaemonType, AnyKey
      <4>5. plan[ti].kind \notin Multi
        BY <3>1 DEF Multi
      <4>6. /\ \A s \in Sections : \A m \in NamesIn(items', s) :
                  Belongs(plan, s, m) /\ (m[1] < ti \/ m[1] = ti)
            /\ Single(plan, items', ti)
            /\ \A i \in 1..(ti - 1) : TargetDone(plan, items', i)
        BY <2>1, <4>3, <4>4, <4>5, FieldAdded
      <4> QED
        BY <4>5, <4>6 DEF TargetDone
    <3>2. CASE plan[ti].kind # "dotenv"
      <4>1. items' = items
        BY <2>1, <3>2
      <4>2. TargetDone(plan, items, ti)
        <5>1. plan[ti].kind \in Kinds
          <6>1. Target \in [kind : Kinds, key : KeyNames \cup {NoKey}, pointer : BOOLEAN]
            BY <1>1, <2>1, TargetType
          <6> QED
            BY <6>1 DEF Target
        <5>2. plan[ti].kind \in {"file", "whole", "env"} \/ plan[ti].kind \in Multi
          BY <3>2, <5>1 DEF Kinds, Listing, Multi
        <5>3. plan[ti].kind \in {"file", "whole", "env"} => Single(plan, items, ti)
          BY <2>1 DEF BuildInv, WantInv
        <5>4. plan[ti].kind \in Multi =>
                 KeysIn(items, SectionOf(plan[ti].kind), ti) \in KeySets
          <6>1. Elements(want) = {}
            BY <2>1 DEF Elements
          <6>2. plan[ti].kind \in Multi =>
                  KeysIn(items, SectionOf(plan[ti].kind), ti) \cup Elements(want) \in KeySets
            BY <2>1 DEF BuildInv, WantInv
          <6> QED
            BY <6>1, <6>2
        <5> QED
          BY <5>2, <5>3, <5>4 DEF TargetDone
      <4> QED
        BY <1>3, <4>1, <4>2
    <3> QED
      BY <3>1, <3>2
  <2>3. FieldsInv'
    <3>1. ASSUME NEW s \in Sections, NEW n \in NamesIn(items', s)
          PROVE  Belongs(plan, s, n) /\ n[1] < ti + 1
      <4>1. n[1] \in 1..Len(plan) /\ Belongs(plan, s, n)
        BY <2>2 DEF Belongs
      <4>2. n[1] < ti \/ n[1] = ti
        BY <2>2
      <4> QED
        BY <1>1, <4>1, <4>2
    <3> QED
      BY <1>2, <2>1, <3>1 DEF FieldsInv
  <2>4. ASSUME NEW i \in 1..(ti' - 1) PROVE TargetDone(plan, items', i)
    <3>1. i \in 1..(ti - 1) \/ i = ti
      BY <1>1, <2>1
    <3> QED
      BY <2>2, <3>1
  <2>5. DoneInv' /\ LastInv' /\ WantInv'
    BY <1>2, <2>1, <2>4 DEF DoneInv, LastInv, WantInv
  <2> QED
    BY <2>3, <2>5 DEF BuildInv
<1>10. CASE BuildFails
  <2>1. dpc' = "error" /\ items' = NoItems
    BY <1>10 DEF BuildFails
  <2>2. \A s \in Sections : NamesIn(items', s) = {}
    BY <2>1 DEF NamesIn, NoItems
  <2> QED
    BY <1>2, <2>1, <2>2 DEF BuildInv, FieldsInv, DoneInv, LastInv, WantInv, Building
<1>11. CASE BuildManifest
  <2>1. /\ dpc = "open" /\ ti > Len(plan) /\ dpc' = "encode" /\ UNCHANGED <<ti, items>>
    BY <1>11 DEF BuildManifest, handleVars, bundleVars
  <2>2. ti = Len(plan) + 1
    BY <1>1, <2>1
  <2>3. FieldsInv'
    BY <1>2, <1>3, <2>1 DEF FieldsInv
  <2>4. DoneInv' /\ LastInv' /\ WantInv'
    BY <1>2, <1>3, <2>1, <2>2 DEF DoneInv, LastInv, WantInv
  <2> QED
    BY <2>3, <2>4 DEF BuildInv
<1> QED
  BY <1>4, <1>5, <1>6, <1>7, <1>8, <1>9, <1>10, <1>11 DEF Build

\* A target is done whatever became of the buffers.
LEMMA SameTargets ==
    ASSUME NEW p, NEW b, NEW c, \A s \in Sections : NamesIn(c, s) = NamesIn(b, s), NEW i,
           TargetDone(p, b, i)
    PROVE  TargetDone(p, c, i)
<1>1. SectionOf(p[i].kind) \in Sections /\ 3 \in Sections
  BY DEF SectionOf, Sections
<1> QED
  BY <1>1 DEF TargetDone, Single, KeysIn

\* Nothing but the build changes the names of the bundle.
LEMMA NamesStay ==
    ASSUME TInv, Respond
    PROVE  \A s \in Sections : NamesIn(items', s) = NamesIn(items, s)
<1>1. items' = items \/ items' = Cleared(items)
  BY RespondFrame DEF Respond, DestroyAndClose
<1>2. \A s \in Sections : NamesIn(Cleared(items), s) = NamesIn(items, s)
  <2>1. SameShape(items, Cleared(items))
    BY ClearedShape DEF TInv, TypeOK, DaemonType
  <2> QED
    BY <2>1, SameNames DEF SameShape
<1> QED
  BY <1>1, <1>2

LEMMA RespondCompletes == TInv /\ BuildInv /\ Respond => BuildInv'
<1> SUFFICES ASSUME TInv, BuildInv, Respond PROVE BuildInv'
  OBVIOUS
<1>1. UNCHANGED <<plan, ti, listed, want>>
  BY RespondFrame DEF handleVars
<1>2. \A s \in Sections : NamesIn(items', s) = NamesIn(items, s)
  BY NamesStay
<1>3. /\ dpc \notin {"capture", "use"} /\ dpc' \notin {"capture", "use"}
      /\ \/ dpc = "encode"
         \/ dpc = "error" /\ dpc' = "done" /\ at' = Start(0)
  <2>1. CASE EncodeBundle \/ EncodeFails \/ RecordAndDestroy
    BY <2>1 DEF EncodeBundle, EncodeFails, RecordAndDestroy, DestroyAndClose
  <2>2. CASE WriteError
    <3>1. dpc = "error" /\ dpc' = "done" /\ at' = at
      BY <2>2, RespondFrame DEF WriteError
    <3> QED
      BY <3>1 DEF TInv, FrameInv
  <2> QED
    BY <2>1, <2>2 DEF Respond
<1>4. FieldsInv'
  <2>1. ASSUME NEW s \in Sections, NEW n \in NamesIn(items', s)
        PROVE  Belongs(plan, s, n) /\ n[1] < ti
    BY <1>2, <1>3 DEF BuildInv, FieldsInv
  <2> QED
    BY <1>1, <2>1 DEF FieldsInv
<1>5. WantInv'
  BY <1>3 DEF WantInv
<1>6. CASE dpc = "encode"
  <2>1. ti = Len(plan) + 1 /\ \A i \in 1..(ti - 1) : TargetDone(plan, items, i)
    BY <1>6 DEF BuildInv, LastInv, DoneInv
  <2>2. \A i \in 1..(ti - 1) : TargetDone(plan, items', i)
    BY <1>2, <2>1, SameTargets
  <2> QED
    BY <1>1, <1>4, <1>5, <2>1, <2>2 DEF BuildInv, LastInv, DoneInv
<1>7. CASE dpc' = "done" /\ at' = Start(0)
  BY <1>4, <1>5, <1>7 DEF BuildInv, LastInv, DoneInv, Building
<1> QED
  BY <1>3, <1>6, <1>7

LEMMA BuildNext == TInv /\ BuildInv /\ [Next]_vars => BuildInv'
<1> SUFFICES ASSUME TInv, BuildInv, [Next]_vars PROVE BuildInv'
  OBVIOUS
<1>1. CASE Decode \/ ApplyBundle \/ Rotate \/ UNCHANGED vars
  <2>1. UNCHANGED <<plan, items, ti, dpc, listed, want, at>>
    BY <1>1, ReceiverFrame DEF Rotate, vars, sourceVars, daemonVars, bundleVars, handleVars
  <2> QED
    BY <2>1 DEF BuildInv, FieldsInv, DoneInv, LastInv, WantInv
<1> QED
  BY <1>1, BuildCompletes, RespondCompletes DEF Next

-----------------------------------------------------------------------------
(***************************************************************************)
(* A complete delivery. The files written are those read up to the next    *)
(* one; with the manifest they are all of the handler's, and with the      *)
(* application so are the variables.                                       *)
(***************************************************************************)
FileNames == {f.name : f \in files}
EnvNames == {e.name : e \in env}

ApplyInv ==
    /\ cpc \in Reading => files = {} /\ ai = 1 /\ ~manifest
    /\ cpc = "apply" => /\ ~manifest /\ ai <= Len(cItems[1]) + 1
                        /\ FileNames = {cItems[1][j].name : j \in 1..(ai - 1)}
    /\ cpc \in {"env", "look", "execve", "exit", "ok", "app"} => manifest
    /\ manifest => at = End /\ FileNames = NamesIn(items, 1)
    /\ cpc \in {"look", "execve", "app"} =>
          EnvNames = NamesIn(items, 2) \cup NamesIn(items, 3)

\* A receiver that is through has every name of the bundle, and the encoder is
\* through as well.
LEMMA Received ==
    ASSUME TInv, SyncInv, cpc \notin Reading, cpc # "failed"
    PROVE  /\ at = End
           /\ \A s \in Sections : /\ NamesIn(cItems, s) = NamesIn(items, s)
                                  /\ Len(cItems[s]) \in Nat
<1>1. ReadInv /\ Path(items, pipe, Here, at) /\ Here = End
  BY PlaceCases DEF SyncInv, Refusal, Here, Reading
<1>2. pipe \in Seq(Unit) /\ cItems \in BundleOf(Slice)
  BY DEF TInv, TypeOK, ConnType, ClientType
<1>3. pipe = <<>>
  BY <1>1, <1>2, PathTail
<1>4. at = End
  BY <1>1, <1>3, PathEmpty
<1>5. section = 4 /\ ReadUpTo(items, cItems, section)
  BY <1>1 DEF ReadInv
<1>6. ASSUME NEW s \in Sections
      PROVE  NamesIn(cItems, s) = NamesIn(items, s) /\ Len(cItems[s]) \in Nat
  <2>1. /\ Len(cItems[s]) = Len(items[s])
        /\ \A j \in 1..Len(cItems[s]) : cItems[s][j].name = items[s][j].name
    BY <1>5 DEF ReadUpTo, Sections
  <2>2. Len(cItems[s]) \in Nat
    BY <1>2, LenProperties DEF BundleOf
  <2> QED
    BY <2>1, <2>2, SameNames
<1> QED
  BY <1>4, <1>6

LEMMA ApplyEarly ==
    ASSUME ApplyInv, UNCHANGED <<cpc, cItems, ai, files, manifest, env>>,
           \/ ~manifest
           \/ at' = at /\ \A s \in Sections : NamesIn(items', s) = NamesIn(items, s)
    PROVE  ApplyInv'
<1>1. UNCHANGED <<FileNames, EnvNames>>
  BY DEF FileNames, EnvNames
<1>2. 1 \in Sections /\ 2 \in Sections /\ 3 \in Sections
  BY DEF Sections
<1>3. /\ cpc' \in Reading => files' = {} /\ ai' = 1 /\ ~manifest'
      /\ cpc' = "apply" => /\ ~manifest' /\ ai' <= Len(cItems'[1]) + 1
                           /\ FileNames' = {cItems'[1][j].name : j \in 1..(ai' - 1)}
      /\ cpc' \in {"env", "look", "execve", "exit", "ok", "app"} => manifest'
  BY <1>1 DEF ApplyInv
<1>4. manifest' => at' = End /\ FileNames' = NamesIn(items', 1)
  BY <1>1, <1>2 DEF ApplyInv
<1>5. cpc' \in {"look", "execve", "app"} => EnvNames' = NamesIn(items', 2) \cup NamesIn(items', 3)
  BY <1>1, <1>2, <1>3 DEF ApplyInv
<1> QED
  BY <1>3, <1>4, <1>5 DEF ApplyInv

LEMMA DecodeApplies == TInv /\ ApplyInv /\ Decode => ApplyInv'
<1> SUFFICES ASSUME TInv, ApplyInv, Decode PROVE ApplyInv'
  OBVIOUS
<1>1. /\ cpc \in Reading /\ cpc' \in Reading \cup {"apply", "failed"}
      /\ UNCHANGED <<ai, files, manifest>>
  <2>1. cpc \in Reading
    BY DEF Decode, ReadHeader, ReadCount, ReadField, ReadBytes, ReadFails, Reading
  <2>2. cpc' \in Reading \cup {"apply", "failed"}
    BY AdvanceGoes DEF Decode, ReadHeader, ReadCount, ReadField, ReadBytes, ReadFails, Reading
  <2>3. UNCHANGED <<ai, files, manifest>>
    BY DEF Decode, ReadHeader, ReadCount, ReadField, ReadBytes, ReadFails, Receive,
           containerVars
  <2> QED
    BY <2>1, <2>2, <2>3
<1>2. files' = {} /\ ai' = 1 /\ ~manifest'
  BY <1>1 DEF ApplyInv
<1>3. FileNames' = {}
  BY <1>2 DEF FileNames
<1>4. Len(cItems'[1]) \in Nat
  <2>1. cItems' \in BundleOf(Slice)
    BY DecodeTypes DEF TInv, TypeOK, ClientType
  <2> QED
    BY <2>1, LenProperties DEF BundleOf, Sections
<1>5. ai' <= Len(cItems'[1]) + 1 /\ 1..(ai' - 1) = {}
  BY <1>2, <1>4
<1>6. FileNames' = {cItems'[1][j].name : j \in 1..(ai' - 1)}
  BY <1>3, <1>5
<1>7. cpc' \notin {"env", "look", "execve", "exit", "ok", "app"}
  BY <1>1 DEF Reading
<1> QED
  BY <1>2, <1>5, <1>6, <1>7 DEF ApplyInv

LEMMA ApplyApplies == TInv /\ SyncInv /\ ApplyInv /\ ApplyBundle => ApplyInv'
<1> SUFFICES ASSUME TInv, SyncInv, ApplyInv, ApplyBundle PROVE ApplyInv'
  OBVIOUS
<1>1. UNCHANGED <<items, at>>
  BY ReceiverFrame DEF daemonVars, bundleVars
<1>2. /\ at = End
      /\ \A s \in Sections : NamesIn(cItems, s) = NamesIn(items, s) /\ Len(cItems[s]) \in Nat
  <2>1. cpc \notin Reading /\ cpc # "failed"
    BY DEF ApplyBundle, ApplyFile, ApplyManifest, EnvFor, ExecDestroys, Execve, Exit, ApplyFails,
           Reading
  <2> QED
    BY <2>1, Received
<1>3. 1 \in Sections /\ 2 \in Sections /\ 3 \in Sections
  BY DEF Sections
<1>4. CASE ApplyFile
  <2>1. /\ cpc = "apply" /\ cpc' = "apply" /\ ai <= Len(cItems[1]) /\ ai' = ai + 1
        /\ files' = files \cup {[name |-> cItems[1][ai].name, data |-> Content(cItems[1][ai])]}
        /\ UNCHANGED <<manifest, cItems>>
    BY <1>4 DEF ApplyFile, FileItems, decodeVars
  <2>2. ~manifest /\ FileNames = {cItems[1][j].name : j \in 1..(ai - 1)}
    BY <2>1 DEF ApplyInv
  <2>3. FileNames' = FileNames \cup {cItems[1][ai].name}
    <3> DEFINE f == [name |-> cItems[1][ai].name, data |-> Content(cItems[1][ai])]
    <3>1. files' = files \cup {f} /\ f.name = cItems[1][ai].name
      BY <2>1
    <3> HIDE DEF f
    <3>2. FileNames' = FileNames \cup {f.name}
      BY <3>1 DEF FileNames
    <3> QED
      BY <3>1, <3>2
  <2>4. ai \in Nat \ {0} /\ Len(cItems[1]) \in Nat
    BY <1>2, <1>3 DEF TInv, TypeOK, ClientType
  <2>5. 1..(ai' - 1) = 1..(ai - 1) \cup {ai}
    BY <2>1, <2>4
  <2>6. FileNames' = {cItems'[1][j].name : j \in 1..(ai' - 1)}
    BY <2>1, <2>2, <2>3, <2>5
  <2>7. ai' <= Len(cItems'[1]) + 1
    BY <2>1, <2>4
  <2> QED
    BY <2>1, <2>2, <2>6, <2>7 DEF ApplyInv, Reading
<1>5. CASE ApplyManifest
  <2>1. /\ cpc = "apply" /\ cpc' \in {"env", "exit"} /\ ai > Len(cItems[1]) /\ manifest' = TRUE
        /\ UNCHANGED files
    BY <1>5 DEF ApplyManifest, FileItems
  <2>2. ai <= Len(cItems[1]) + 1 /\ FileNames = {cItems[1][j].name : j \in 1..(ai - 1)}
    BY <2>1 DEF ApplyInv
  <2>3. ai \in Nat \ {0} /\ Len(cItems[1]) \in Nat
    BY <1>2, <1>3 DEF TInv, TypeOK, ClientType
  <2>4. ai - 1 = Len(cItems[1])
    BY <2>1, <2>2, <2>3
  <2>5. FileNames = NamesIn(cItems, 1)
    BY <2>2, <2>4 DEF NamesIn
  <2>6. FileNames' = NamesIn(items', 1) /\ at' = End
    <3>1. FileNames' = FileNames
      BY <2>1 DEF FileNames
    <3> QED
      BY <1>1, <1>2, <1>3, <2>5, <3>1
  <2> QED
    BY <2>1, <2>6 DEF ApplyInv, Reading
<1>6. CASE EnvFor
  <2>1. /\ cpc = "env" /\ cpc' = "look" /\ env' = EnvOf(2) \cup EnvOf(3)
        /\ UNCHANGED <<files, manifest>>
    BY <1>6 DEF EnvFor
  <2>2. \A s \in Sections : {e.name : e \in EnvOf(s)} = NamesIn(cItems, s)
    <3>1. \A s \in Sections : DOMAIN cItems[s] = 1..Len(cItems[s])
      BY LenProperties DEF TInv, TypeOK, ClientType, BundleOf
    <3>2. ASSUME NEW s \in Sections
          PROVE  {e.name : e \in EnvOf(s)} = NamesIn(cItems, s)
      <4> DEFINE entry(i) == [section |-> s, name |-> cItems[s][i].name,
                              data |-> Content(cItems[s][i])]
      <4>1. EnvOf(s) = {entry(i) : i \in 1..Len(cItems[s])}
        BY <3>1 DEF EnvOf
      <4>2. \A i \in 1..Len(cItems[s]) : entry(i).name = cItems[s][i].name
        OBVIOUS
      <4> HIDE DEF entry
      <4>3. NamesIn(cItems, s) = {entry(i).name : i \in 1..Len(cItems[s])}
        BY <4>2 DEF NamesIn
      <4> QED
        BY <4>1, <4>3
    <3> QED
      BY <3>2
  <2>3. EnvNames' = {e.name : e \in EnvOf(2)} \cup {e.name : e \in EnvOf(3)}
    BY <2>1 DEF EnvNames
  <2>4. EnvNames' = NamesIn(items', 2) \cup NamesIn(items', 3)
    BY <1>1, <1>2, <1>3, <2>2, <2>3
  <2>5. manifest /\ FileNames = NamesIn(items, 1)
    BY <2>1 DEF ApplyInv
  <2>6. FileNames' = FileNames
    BY <2>1 DEF FileNames
  <2> QED
    BY <1>1, <1>2, <2>1, <2>4, <2>5, <2>6 DEF ApplyInv, Reading
<1>7. CASE ExecDestroys \/ Execve \/ Exit \/ ApplyFails
  <2>1. /\ UNCHANGED <<files, manifest, env>>
        /\ cpc' = "failed" \/ cpc \in {"look", "execve", "exit"}
        /\ cpc' \in {"failed", "execve", "app", "ok"}
        /\ cpc' \in {"execve", "app"} => cpc \in {"look", "execve"}
    BY <1>7 DEF ExecDestroys, Execve, Exit, ApplyFails, DestroyClient, containerVars
  <2>2. UNCHANGED <<FileNames, EnvNames>>
    BY <2>1 DEF FileNames, EnvNames
  <2>3. manifest' => at' = End /\ FileNames' = NamesIn(items', 1)
    BY <1>1, <2>1, <2>2 DEF ApplyInv
  <2>4. cpc' # "failed" => manifest'
    BY <2>1 DEF ApplyInv
  <2>5. cpc' \in {"look", "execve", "app"} => EnvNames' = NamesIn(items', 2) \cup NamesIn(items', 3)
    BY <1>1, <2>1, <2>2 DEF ApplyInv
  <2> QED
    BY <2>1, <2>3, <2>4, <2>5 DEF ApplyInv, Reading
<1> QED
  BY <1>4, <1>5, <1>6, <1>7 DEF ApplyBundle

LEMMA ApplyNext == TInv /\ SyncInv /\ ApplyInv /\ [Next]_vars => ApplyInv'
<1> SUFFICES ASSUME TInv, SyncInv, ApplyInv, [Next]_vars PROVE ApplyInv'
  OBVIOUS
<1>1. End # Start(0)
  BY DEF End, Start, At
<1>2. CASE Build
  <2>1. UNCHANGED <<cpc, cItems, ai, files, manifest, env>> /\ dpc \in Building
    BY <1>2, BuildFrame DEF Build, OpenSource, captureDecrypt, Keys, Value, Payload, CloseHandle,
                            BuildFails, BuildManifest, Building, clientVars, decodeVars,
                            containerVars
  <2>2. ~manifest
    BY <1>1, <2>1 DEF TInv, FrameInv, ApplyInv
  <2> QED
    BY <2>1, <2>2, ApplyEarly
<1>3. CASE Respond
  <2>1. UNCHANGED <<cpc, cItems, ai, files, manifest, env>>
    BY <1>3, RespondFrame DEF clientVars, decodeVars, containerVars
  <2>2. ~manifest \/ at' = at
    <3>1. CASE EncodeBundle
      BY <3>1 DEF EncodeBundle, ApplyInv
    <3>2. CASE ~EncodeBundle
      BY <1>3, <3>2, RespondFrame DEF Respond
    <3> QED
      BY <3>1, <3>2
  <2> QED
    BY <1>3, <2>1, <2>2, NamesStay, ApplyEarly
<1>4. CASE Rotate \/ UNCHANGED vars
  <2>1. UNCHANGED <<items, at, cpc, cItems, ai, files, manifest, env>>
    BY <1>4 DEF Rotate, vars, daemonVars, bundleVars, clientVars, decodeVars, containerVars
  <2> QED
    BY <2>1, ApplyEarly
<1> QED
  BY <1>2, <1>3, <1>4, DecodeApplies, ApplyApplies DEF Next

\* The names of what the container has are those of the bundle.
LEMMA DeliveredNames ==
    ASSUME NEW S, NEW i
    PROVE  Names(S, i) = {n[2] : n \in {m \in {e.name : e \in S} : m[1] = i}}
BY DEF Names

\* A target with a single field has no other name than its own.
LEMMA SingleNames ==
    ASSUME FieldsInv, NEW s \in Sections, NEW i, plan[i].kind \notin Multi
    PROVE  KeysIn(items, s, i) \subseteq {NoKey}
<1> SUFFICES ASSUME NEW n \in NamesIn(items, s), n[1] = i PROVE n[2] = NoKey
  BY DEF KeysIn
<1> QED
  BY DEF FieldsInv, Belongs

\* Once the encoder is through, every target of the plan is done.
LEMMA AllDone ==
    ASSUME TInv, BuildInv, at = End, NEW i \in DOMAIN plan
    PROVE  /\ TargetDone(plan, items, i) /\ plan[i].kind \in Kinds
           /\ plan[i].pointer => plan[i].kind \in {"file", "whole"}
<1>1. /\ plan \in Seq([kind : Kinds, key : KeyNames \cup {NoKey}, pointer : BOOLEAN])
      /\ plan[i].pointer => plan[i].kind \in {"file", "whole"}
  BY PlanAssumption DEF TInv, TypeOK, DaemonType
<1>2. i \in 1..Len(plan) /\ Len(plan) \in Nat
  BY <1>1, LenProperties
<1>3. plan[i].kind \in Kinds
  <2>1. plan[i] \in [kind : Kinds, key : KeyNames \cup {NoKey}, pointer : BOOLEAN]
    BY <1>1, <1>2, ElementOfSeq
  <2> QED
    BY <2>1
<1>4. at # Start(0)
  BY DEF End, Start, At
<1>5. ti = Len(plan) + 1
  BY <1>4 DEF BuildInv, LastInv
<1>6. i \in 1..(ti - 1)
  BY <1>2, <1>5
<1>7. TargetDone(plan, items, i)
  BY <1>4, <1>6 DEF BuildInv, DoneInv
<1> QED
  BY <1>1, <1>3, <1>7

LEMMA FilesAreComplete ==
    ASSUME TInv, BuildInv, ApplyInv, manifest, NEW i \in DOMAIN plan
    PROVE  FilesComplete(i)
<1>1. at = End /\ FileNames = NamesIn(items, 1) /\ FieldsInv
  BY DEF ApplyInv, BuildInv
<1>2. TargetDone(plan, items, i) /\ plan[i].kind \in Kinds
  BY <1>1, AllDone
<1>3. Names(files, i) = KeysIn(items, 1, i)
  BY <1>1, DeliveredNames DEF KeysIn, FileNames
<1>4. CASE plan[i].kind \in {"file", "whole", "dotenv"}
  <2>1. SectionOf(plan[i].kind) = 1 /\ plan[i].kind \notin Multi /\ 1 \in Sections
    BY <1>4 DEF SectionOf, Multi, Sections
  <2>2. <<i, NoKey>> \in NamesIn(items, 1)
    BY <1>2, <2>1 DEF TargetDone, Single
  <2>3. NoKey \in KeysIn(items, 1, i)
    BY <2>2 DEF KeysIn
  <2>4. KeysIn(items, 1, i) \subseteq {NoKey}
    BY <1>1, <2>1, SingleNames
  <2> QED
    BY <1>3, <1>4, <2>3, <2>4 DEF FilesComplete
<1>5. CASE plan[i].kind = "envdir"
  <2>1. SectionOf(plan[i].kind) = 1 /\ plan[i].kind \in Multi
    BY <1>5 DEF SectionOf, Multi
  <2>2. KeysIn(items, 1, i) \in KeySets
    BY <1>2, <2>1 DEF TargetDone
  <2> QED
    BY <1>3, <1>5, <2>2 DEF FilesComplete
<1>6. CASE plan[i].kind \in {"env", "envall"}
  BY <1>6 DEF FilesComplete
<1> QED
  BY <1>2, <1>4, <1>5, <1>6 DEF Kinds, Listing

LEMMA EnvIsComplete ==
    ASSUME TInv, BuildInv, ApplyInv, cpc = "app", NEW i \in DOMAIN plan
    PROVE  EnvComplete(i)
<1>1. /\ manifest /\ at = End /\ EnvNames = NamesIn(items, 2) \cup NamesIn(items, 3)
      /\ FieldsInv
  BY DEF ApplyInv, BuildInv
<1>2. /\ TargetDone(plan, items, i) /\ plan[i].kind \in Kinds
      /\ plan[i].pointer => plan[i].kind \in {"file", "whole"}
  BY <1>1, AllDone
<1>3. Names(env, i) = KeysIn(items, 2, i) \cup KeysIn(items, 3, i)
  <2>1. Names(env, i) = {n[2] : n \in {m \in EnvNames : m[1] = i}}
    BY DeliveredNames DEF EnvNames
  <2> QED
    BY <1>1, <2>1 DEF KeysIn
<1>4. 2 \in Sections /\ 3 \in Sections
  BY DEF Sections
<1>5. CASE plan[i].kind = "env"
  <2>1. SectionOf(plan[i].kind) = 2 /\ plan[i].kind \notin Multi
    BY <1>5 DEF SectionOf, Multi
  <2>2. <<i, NoKey>> \in NamesIn(items, 2)
    BY <1>2, <2>1 DEF TargetDone, Single
  <2>3. NoKey \in KeysIn(items, 2, i)
    BY <2>2 DEF KeysIn
  <2>4. KeysIn(items, 2, i) \subseteq {NoKey} /\ KeysIn(items, 3, i) \subseteq {NoKey}
    BY <1>1, <1>4, <2>1, SingleNames
  <2>5. Names(env, i) = {NoKey}
    BY <1>3, <2>3, <2>4
  <2> QED
    BY <1>5, <2>5 DEF EnvComplete
<1>6. CASE plan[i].kind = "envall"
  <2>1. SectionOf(plan[i].kind) = 2 /\ plan[i].kind \in Multi
    BY <1>6 DEF SectionOf, Multi
  <2>2. KeysIn(items, 2, i) \in KeySets
    BY <1>2, <2>1 DEF TargetDone
  <2>3. ASSUME NEW n \in NamesIn(items, 3) PROVE n[1] # i
    <3>1. plan[n[1]].pointer
      BY <1>1, <1>4 DEF FieldsInv, Belongs
    <3> QED
      BY <1>2, <1>6, <3>1
  <2>4. KeysIn(items, 3, i) = {}
    BY <2>3 DEF KeysIn
  <2>5. Names(env, i) \in KeySets
    BY <1>3, <2>2, <2>4
  <2> QED
    BY <1>6, <2>5 DEF EnvComplete
<1>7. CASE plan[i].kind \notin {"env", "envall"}
  <2>1. ASSUME plan[i].pointer PROVE Names(env, i) = {NoKey}
    <3>1. plan[i].kind \notin Multi
      BY <1>2, <2>1 DEF Multi
    <3>2. <<i, NoKey>> \in NamesIn(items, 3)
      BY <1>2, <2>1, <3>1 DEF TargetDone, Single
    <3>3. NoKey \in KeysIn(items, 3, i)
      BY <3>2 DEF KeysIn
    <3>4. KeysIn(items, 2, i) \subseteq {NoKey} /\ KeysIn(items, 3, i) \subseteq {NoKey}
      BY <1>1, <1>4, <3>1, SingleNames
    <3> QED
      BY <1>3, <3>3, <3>4
  <2> QED
    BY <1>7, <2>1 DEF EnvComplete
<1> QED
  BY <1>5, <1>6, <1>7

\* The ready signal can be trusted, for any sources, plans, sizes and rotations:
\* the manifest is only there with every file of the plan, an application only
\* runs with every variable and pointer as well, an envdir or an env all has the
\* keys of one version of its source, and nothing delivered was copied from a
\* buffer already wiped.
THEOREM ReadyMeansComplete == Spec => []ReadyIsComplete
<1> DEFINE IInv == TInv /\ OwnerInv /\ KeepInv /\ SyncInv /\ BuildInv /\ ApplyInv
<1>1. Init => IInv
  <2> SUFFICES ASSUME Init PROVE ApplyInv
    BY TypeInit, OwnerInit, KeepInit, SyncInit, BuildInit
  <2>1. cpc = "header" /\ files = {} /\ ai = 1 /\ manifest = FALSE
    BY DEF Init
  <2> QED
    BY <2>1 DEF ApplyInv, Reading
<1>2. IInv /\ [Next]_vars => IInv'
  BY TypeNext, OwnerStep, KeepNext, SyncNext, BuildNext, ApplyNext
<1>3. IInv => ReadyIsComplete
  <2> SUFFICES ASSUME IInv PROVE ReadyIsComplete
    OBVIOUS
  <2>1. cpc \in {"ok", "app"} => manifest
    BY DEF ApplyInv
  <2>2. \A f \in files : f.data # "wiped"
    BY DEF KeepInv, ReceiverKeeps
  <2>3. \A e \in env : e.data # "wiped"
    BY DEF KeepInv, ReceiverKeeps
  <2>4. manifest => \A i \in DOMAIN plan : FilesComplete(i)
    BY FilesAreComplete
  <2>5. cpc = "app" => \A i \in DOMAIN plan : EnvComplete(i)
    BY EnvIsComplete
  <2> QED
    BY <2>1, <2>2, <2>3, <2>4, <2>5 DEF ReadyIsComplete
<1> QED
  BY <1>1, <1>2, <1>3, PTL DEF Spec
=============================================================================
