------------------------------- MODULE Bundle -------------------------------
(***************************************************************************)
(* One bundle from sealed source to container: BuildBundle and its adders  *)
(* (internal/delivery/handler.go) over the SOPS/age handle (internal/      *)
(* backend), EncodeBundle and decodeBundle (internal/wire), and the three  *)
(* programs that apply it: berm-client fetch, berm-client exec and the OCI *)
(* hook.                                                                   *)
(*                                                                         *)
(* Every plaintext lives in a locked buffer that somebody must wipe: the   *)
(* handle's until it is closed, the bundle's until it is destroyed, and    *)
(* the receiver's. A buffer is a number, a slice is the number of the      *)
(* buffer it views, and a view of a wiped buffer reads as "wiped". Values  *)
(* are told apart by their size only: empty ones have no buffer, big ones  *)
(* exceed maxField. Every read of the source decrypts it afresh, while     *)
(* somebody may rotate it.                                                 *)
(***************************************************************************)
EXTENDS Integers, Sequences, FiniteSets

CONSTANTS
    KeyNames,   \* the names a key can have
    Lines,      \* Lines[v]: version v of the dotenv source, its lines in file order
    Binary,     \* Binary[v]: the size of version v of the binary source
    Plans,      \* the delivery plans: sequences of targets
    LongKeys,   \* keys whose name does not fit a 16-bit length
    PipeCap,    \* writes the socket buffers
    BigChunks   \* writes a big value takes

Version == 1..Len(Lines)
Size == {"empty", "some", "big"}
Malformed == "malformed"   \* the key of a line without '='
NoKey == "none"            \* the key of a target that delivers a whole source
AnyKey == KeyNames \cup {Malformed, NoKey}

\* Targets that list the keys of their source first.
Listing == {"dotenv", "envdir", "envall"}
Kinds == {"file", "whole", "env"} \cup Listing

ASSUME KeyAssumption == KeyNames \cap {Malformed, NoKey} = {} /\ LongKeys \subseteq KeyNames

ASSUME SourceAssumption ==
    /\ Lines \in Seq(Seq([key : KeyNames \cup {Malformed}, size : Size])) /\ Lines # <<>>
    /\ Binary \in Seq(Size) /\ Len(Binary) = Len(Lines)

\* Only a file target has a pointer variable.
ASSUME PlanAssumption ==
    \A p \in Plans :
        /\ p \in Seq([kind : Kinds, key : KeyNames \cup {NoKey}, pointer : BOOLEAN])
        /\ \A i \in DOMAIN p : p[i].pointer => p[i].kind \in {"file", "whole"}

\* A socket buffers less than maxField.
ASSUME SizeAssumption == PipeCap \in Nat \ {0} /\ BigChunks \in Nat /\ BigChunks > PipeCap

VARIABLES
    plan, form,     \* the caller's plan; "fetch", "exec" or "hook"
    version,        \* the current version of the sources
    dpc,            \* where the daemon's handler is
    ti,             \* the target in hand
    decrypted,      \* the version the last sops run read
    plain,          \* the buffer with its output, 0 if none
    listed, want,   \* the keys to read are known; those still to read
    retained,       \* handle.retained: the buffers of the open handle
    render,         \* the dotenv render so far, as a size
    items, locked,  \* the bundle: its fields and the buffers it owns
    live, alloc,    \* the daemon's buffers not yet wiped; all it ever made
    at,             \* the next write of EncodeBundle
    recorded,       \* the injection is in the ledger
    pipe,           \* what is written and not yet read
    dOpen, cOpen,   \* either end of the connection
    cpc,            \* where the receiver is
    section, left,  \* decodeBundle: the section in hand, the fields left in it
    field, cBuf,    \* the field whose bytes are awaited, and their buffer
    cItems, cLocked, cLive, cAlloc,   \* the receiver's bundle and buffers
    ai,             \* the next file to write
    files, manifest, env              \* what the container has

sourceVars == <<plan, form, version>>
handleVars == <<ti, decrypted, plain, listed, want, retained, render>>
bundleVars == <<items, locked>>
memVars == <<live, alloc>>
daemonVars == <<dpc, handleVars, bundleVars, memVars, at, recorded>>
connVars == <<pipe, dOpen, cOpen>>
decodeVars == <<section, left, field, cBuf, cItems, cLocked, cLive, cAlloc>>
containerVars == <<ai, files, manifest, env>>
clientVars == <<cpc, decodeVars, containerVars>>
vars == <<sourceVars, daemonVars, connVars, clientVars>>

NoField == [name |-> <<0, NoKey>>, size |-> "empty"]

\* A bundle: Files, Env and Pointers are its sections 1, 2 and 3.
Sections == 1..3
NoItems == [s \in Sections |-> <<>>]

\* A place in the frame: a section, a field of it (0 is its count) and a write
\* of the field. Section 0 is the header, and 4 the manifest, a field without
\* a count.
At(s, i, c) == [section |-> s, field |-> i, part |-> c]
Start(s) == At(s, IF s = 4 THEN 1 ELSE 0, 0)

Init ==
    /\ plan \in Plans /\ form \in {"fetch", "exec", "hook"} /\ version = 1
    /\ form = "hook" => \A i \in DOMAIN plan : plan[i].kind \notin {"env", "envall"}
    /\ dpc = "open" /\ ti = 1 /\ decrypted = 1 /\ plain = 0
    /\ listed = FALSE /\ want = <<>> /\ retained = {} /\ render = "empty"
    /\ items = NoItems /\ locked = {} /\ live = {} /\ alloc = 0
    /\ at = Start(0) /\ recorded = FALSE
    /\ pipe = <<>> /\ dOpen = TRUE /\ cOpen = TRUE
    /\ cpc = "header" /\ section = 0 /\ left = 0 /\ field = NoField /\ cBuf = 0
    /\ cItems = NoItems /\ cLocked = {} /\ cLive = {} /\ cAlloc = 0
    /\ ai = 1 /\ files = {} /\ manifest = FALSE /\ env = {}

\* The operator rotates the sources.
Rotate ==
    /\ version + 1 \in Version
    /\ version' = version + 1
    /\ UNCHANGED <<plan, form, daemonVars, connVars, clientVars>>

-----------------------------------------------------------------------------
\* The daemon: BuildBundle.

Target == plan[ti]

\* dotenvKeys: a malformed line anywhere is an error.
AnyMalformed(v) == \E i \in DOMAIN Lines[v] : Lines[v][i].key = Malformed
dotenvKeys(v) == [i \in DOMAIN Lines[v] |-> Lines[v][i].key]

\* dotenvFind: the first line with the key, unless a malformed one comes before.
Matches(v, k) == {i \in DOMAIN Lines[v] : Lines[v][i].key \in {k, Malformed}}
First(v, k) == {i \in Matches(v, k) : \A j \in Matches(v, k) : i <= j}
Found(v, k) == \E i \in First(v, k) : Lines[v][i].key = k
dotenvFind(v, k) == Lines[v][CHOOSE i \in First(v, k) : TRUE].size

\* A buffer for a value of a size; an empty value has none.
Fresh(n, size) == IF size = "empty" THEN 0 ELSE n
Buffers(b) == {b} \ {0}

\* A field of the bundle: a file, a variable or a pointer.
Item(name, size, b) == [name |-> name, size |-> size, data |-> b]

\* OpenSource: the source, its key and its file exist. Nothing is decrypted.
OpenSource ==
    /\ dpc = "open" /\ ti <= Len(plan)
    /\ dpc' = "capture"
    /\ listed' = (Target.kind \notin Listing) /\ render' = "empty"
    /\ want' = IF Target.kind \in Listing THEN <<>> ELSE <<Target.key>>
    /\ UNCHANGED <<sourceVars, ti, decrypted, plain, retained, bundleVars, memVars,
                   at, recorded, connVars, clientVars>>

\* captureDecrypt: sops prints the whole source into a locked buffer, if any.
captureDecrypt ==
    /\ dpc = "capture"
    /\ ~listed \/ want # <<>>
    /\ dpc' = "use"
    /\ decrypted' = version
    /\ LET empty == IF Target.kind = "whole" THEN Binary[version] = "empty"
                                             ELSE Lines[version] = <<>>
       IN  /\ plain' = IF empty THEN 0 ELSE alloc + 1
           /\ alloc' = IF empty THEN alloc ELSE alloc + 1
           /\ live' = IF empty THEN live ELSE live \cup {alloc + 1}
    /\ UNCHANGED <<sourceVars, ti, listed, want, retained, render, bundleVars, at,
                   recorded, connVars, clientVars>>

\* Keys, of a render or of env all.
Keys ==
    /\ dpc = "use" /\ Target.kind \in Listing /\ ~listed
    /\ ~AnyMalformed(decrypted)
    /\ dpc' = "capture"
    /\ listed' = TRUE /\ want' = dotenvKeys(decrypted)
    /\ live' = live \ Buffers(plain) /\ plain' = 0
    /\ UNCHANGED <<sourceVars, ti, decrypted, retained, render, bundleVars, alloc,
                   at, recorded, connVars, clientVars>>

\* The name of a field: its target, and its key when the target has several.
FieldName(k) == <<ti, IF Target.kind \in {"envdir", "envall"} THEN k ELSE NoKey>>
SectionOf(kind) == IF kind \in {"env", "envall"} THEN 2 ELSE 1

\* The bundle with one more field, and the pointer to it if its target has one.
WithItem(name, size, b) ==
    [s \in Sections |->
        IF s = SectionOf(Target.kind) THEN Append(items[s], Item(name, size, b))
        ELSE IF s = 3 /\ Target.pointer THEN Append(items[s], Item(name, "empty", 0))
        ELSE items[s]]

\* Mutated form: no copy is made, the field views the caller's own buffer.
AddSecretAliases(name, size, base, n) ==
    /\ items' = WithItem(name, size, Fresh(n, size))
    /\ locked' = locked
    /\ alloc' = n
    /\ live' = base

\* AddSecret copies the value in the last buffer made, the n-th, into one that
\* the bundle owns. base is what else is live afterwards.
AddSecret(name, size, base, n) ==
    LET copy == Fresh(n + 1, size)
    IN  /\ items' = WithItem(name, size, copy)
        /\ locked' = locked \cup Buffers(copy)
        /\ alloc' = IF copy = 0 THEN n ELSE n + 1
        /\ live' = base \cup Buffers(copy)

\* The size of a render with one more line: its name and separators never vanish.
Joined(old, size) == IF "big" \in {old, size} THEN "big" ELSE "some"

\* Value: the key is looked up in a decrypt of its own, copied into a buffer
\* the handle retains (copyLocked), and the decrypt is wiped. A dotenv render
\* takes the value into its stream; everything else goes into the bundle.
Value ==
    /\ dpc = "use" /\ Target.kind # "whole" /\ listed
    /\ Found(decrypted, Head(want))
    /\ LET size == dotenvFind(decrypted, Head(want))
           out == Fresh(alloc + 1, size)
           n == IF out = 0 THEN alloc ELSE alloc + 1
           base == (live \cup Buffers(out)) \ Buffers(plain)
       IN  /\ retained' = retained \cup Buffers(out)
           /\ IF Target.kind = "dotenv"
              THEN /\ render' = Joined(render, size)
                   /\ alloc' = n /\ live' = base
                   /\ UNCHANGED bundleVars
              ELSE /\ AddSecret(FieldName(Head(want)), size, base, n)
                   /\ UNCHANGED render
    /\ want' = Tail(want) /\ plain' = 0
    /\ dpc' = "capture"
    /\ UNCHANGED <<sourceVars, ti, decrypted, listed, at, recorded, connVars, clientVars>>

\* Payload: the handle retains the decrypt itself.
Payload ==
    /\ dpc = "use" /\ Target.kind = "whole"
    /\ retained' = retained \cup Buffers(plain) /\ plain' = 0
    /\ AddSecret(FieldName(NoKey), Binary[decrypted], live, alloc)
    /\ want' = <<>>
    /\ dpc' = "capture"
    /\ UNCHANGED <<sourceVars, ti, decrypted, listed, render, at, recorded, connVars,
                   clientVars>>

\* Mutated form: the next target is skipped.
SkipsTarget ==
    /\ dpc = "capture" /\ listed /\ want = <<>>
    /\ live' = live \ retained /\ retained' = {}
    /\ ti' = ti + 2 /\ dpc' = "open"
    /\ UNCHANGED <<sourceVars, decrypted, plain, listed, want, render, bundleVars, alloc,
                   at, recorded, connVars, clientVars>>

\* The target is read to its end: a dotenv render is flushed into a buffer,
\* copied into the bundle and wiped; then the handle is closed.
CloseHandle ==
    /\ dpc = "capture" /\ listed /\ want = <<>>
    /\ IF Target.kind = "dotenv"
       THEN AddSecret(FieldName(NoKey), render, live \ retained,
                      IF render = "empty" THEN alloc ELSE alloc + 1)
       ELSE live' = live \ retained /\ UNCHANGED <<bundleVars, alloc>>
    /\ retained' = {}
    /\ ti' = ti + 1 /\ dpc' = "open"
    /\ UNCHANGED <<sourceVars, decrypted, plain, listed, want, render, at, recorded,
                   connVars, clientVars>>

\* A missing source, a failed sops run, a malformed or missing key: what Keys
\* and Value hold is wiped, the deferred Close wipes the handle, the deferred
\* Destroy the partial bundle, and the handler answers with an error frame.
BuildFails ==
    /\ \/ dpc = "open" \/ dpc = "capture" \/ dpc = "use"
    /\ dpc' = "error"
    /\ live' = live \ (Buffers(plain) \cup retained \cup locked)
    /\ plain' = 0 /\ retained' = {} /\ locked' = {} /\ items' = NoItems
    /\ UNCHANGED <<sourceVars, ti, decrypted, listed, want, render, alloc, at,
                   recorded, connVars, clientVars>>

\* BuildManifest, after the last target.
BuildManifest ==
    /\ dpc = "open" /\ ti > Len(plan)
    /\ dpc' = "encode"
    /\ UNCHANGED <<sourceVars, handleVars, bundleVars, memVars, at, recorded,
                   connVars, clientVars>>

-----------------------------------------------------------------------------
\* The daemon: the response.

CountUnit(n) == [unit |-> "count", n |-> n]
FieldUnit(name, size) == [unit |-> "field", name |-> name, size |-> size]
BytesUnit(data) == [unit |-> "bytes", data |-> data]

\* What a slice reads as.
View(b, alive) == IF b = 0 THEN "empty" ELSE IF b \in alive THEN "intact" ELSE "wiped"

\* What there is to write in a section. The manifest is in plain memory.
Manifest == Item(<<0, NoKey>>, "some", 0)
Fields(b, s) == CASE s \in Sections -> b[s] [] s = 4 -> <<Manifest>> [] OTHER -> <<>>
FieldAt(b, p) == Fields(b, p.section)[p.field]

\* The writes of a field after its name and length.
Parts(size) == CASE size = "empty" -> 0 [] size = "some" -> 1 [] size = "big" -> BigChunks

\* EncodeBundle: header, files, variables, pointers, manifest. The write at a
\* place, and the place after it.
WriteAt(b, p) ==
    CASE p.section = 0 -> [unit |-> "bundle"]
      [] p.section # 0 /\ p.field = 0 -> CountUnit(Len(b[p.section]))
      [] p.field # 0 /\ p.part = 0 -> FieldUnit(FieldAt(b, p).name, FieldAt(b, p).size)
      [] p.field # 0 /\ p.part # 0 ->
            BytesUnit(IF p.section = 4 THEN "intact" ELSE View(FieldAt(b, p).data, live))

FieldDone(b, p) == p.field # 0 => p.part = Parts(FieldAt(b, p).size)
After(b, p) ==
    CASE ~FieldDone(b, p) -> At(p.section, p.field, p.part + 1)
      [] FieldDone(b, p) /\ p.field < Len(Fields(b, p.section)) -> At(p.section, p.field + 1, 0)
      [] OTHER -> Start(p.section + 1)

End == Start(5)

\* writeU16 refuses a name longer than 16 bits can say.
TooLong(b, p) == p.field # 0 /\ p.part = 0 /\ FieldAt(b, p).name[2] \in LongKeys

EncodeBundle ==
    /\ dpc = "encode" /\ at # End
    /\ ~TooLong(items, at)
    /\ cOpen /\ Len(pipe) < PipeCap
    /\ pipe' = Append(pipe, WriteAt(items, at))
    /\ at' = After(items, at)
    /\ UNCHANGED <<sourceVars, dpc, handleVars, bundleVars, memVars, recorded, dOpen,
                   cOpen, clientVars>>

\* Destroy leaves the fields and clears their slices.
Cleared(its) ==
    [s \in Sections |-> [i \in DOMAIN its[s] |-> Item(its[s][i].name, its[s][i].size, 0)]]

\* The deferred Destroy, and the deferred close of the connection.
DestroyAndClose ==
    /\ live' = live \ locked /\ locked' = {} /\ items' = Cleared(items)
    /\ dOpen' = FALSE
    /\ dpc' = "done"

\* Mutated form: the injection is recorded whether or not the encode failed.
EncodeErrorIgnored ==
    /\ dpc = "encode" /\ at # End
    /\ TooLong(items, at) \/ ~cOpen \/ Len(pipe) = PipeCap
    /\ recorded' = TRUE
    /\ DestroyAndClose
    /\ UNCHANGED <<sourceVars, handleVars, alloc, at, pipe, cOpen, clientVars>>

\* A write fails: the name is too long, the peer is gone or the deadline
\* passed. It is logged; the frame stays cut.
EncodeFails ==
    /\ dpc = "encode" /\ at # End
    /\ TooLong(items, at) \/ ~cOpen \/ Len(pipe) = PipeCap
    /\ DestroyAndClose
    /\ UNCHANGED <<sourceVars, handleVars, alloc, at, recorded, pipe, cOpen, clientVars>>

\* The last write returned: recordFromBundleManifest, then the deferred calls.
RecordAndDestroy ==
    /\ dpc = "encode" /\ at = End
    /\ recorded' = TRUE
    /\ DestroyAndClose
    /\ UNCHANGED <<sourceVars, handleVars, alloc, at, pipe, cOpen, clientVars>>

\* WriteError, whose own failure is ignored.
WriteError ==
    /\ dpc = "error"
    /\ pipe' = IF cOpen THEN Append(pipe, [unit |-> "error"]) ELSE pipe
    /\ dOpen' = FALSE /\ dpc' = "done"
    /\ UNCHANGED <<sourceVars, handleVars, bundleVars, memVars, at, recorded, cOpen,
                   clientVars>>

-----------------------------------------------------------------------------
\* The receiver: decodeBundle.

Reading == {"header", "count", "field", "bytes"}

\* Where decodeBundle goes after a field or a count, with l fields left in
\* section s. Section 4 is the manifest, one field in plain memory; after it
\* Fetch closes the connection and returns the bundle.
Advance(s, l) ==
    /\ cpc' = CASE l > 0 \/ s = 3 -> "field" [] l = 0 /\ s < 3 -> "count" [] OTHER -> "apply"
    /\ section' = IF l = 0 /\ s < 4 THEN s + 1 ELSE s
    /\ left' = IF l = 0 /\ s = 3 THEN 1 ELSE l
    /\ cOpen' = ~(l = 0 /\ s = 4)

Receive(unit) ==
    /\ pipe # <<>> /\ Head(pipe).unit = unit
    /\ pipe' = Tail(pipe)
    /\ UNCHANGED <<sourceVars, daemonVars, dOpen, containerVars>>

ReadHeader ==
    /\ cpc = "header" /\ Receive("bundle")
    /\ cpc' = "count" /\ section' = 1
    /\ UNCHANGED <<cOpen, left, field, cBuf, cItems, cLocked, cLive, cAlloc>>

ReadCount ==
    /\ cpc = "count" /\ Receive("count")
    /\ Advance(section, Head(pipe).n)
    /\ UNCHANGED <<field, cBuf, cItems, cLocked, cLive, cAlloc>>

\* The fields without bytes are complete; for the others readU32Locked makes a
\* buffer once the length is known to be within maxField.
ReadField ==
    /\ cpc = "field" /\ Receive("field")
    /\ Head(pipe).size # "big"
    /\ IF Head(pipe).size = "empty"
       THEN /\ cItems' = [cItems EXCEPT ![section] = Append(@, Item(Head(pipe).name, "empty", 0))]
            /\ Advance(section, left - 1)
            /\ UNCHANGED <<field, cBuf, cLocked, cLive, cAlloc>>
       ELSE /\ cpc' = "bytes"
            /\ field' = [name |-> Head(pipe).name, size |-> Head(pipe).size]
            /\ cBuf' = IF section = 4 THEN 0 ELSE cAlloc + 1
            /\ cAlloc' = IF section = 4 THEN cAlloc ELSE cAlloc + 1
            /\ cLive' = cLive \cup Buffers(cBuf')
            /\ UNCHANGED <<section, left, cOpen, cItems, cLocked>>

\* The bytes arrive and the bundle owns their buffer (track). What they are
\* is kept in place of the size: a view of a wiped buffer was sent as such.
ReadBytes ==
    /\ cpc = "bytes" /\ Receive("bytes")
    /\ cItems' = IF section = 4 THEN cItems
                 ELSE [cItems EXCEPT ![section] =
                           Append(@, Item(field.name, Head(pipe).data, cBuf))]
    /\ cLocked' = cLocked \cup Buffers(cBuf) /\ cBuf' = 0
    /\ Advance(section, left - 1)
    /\ UNCHANGED <<field, cLive, cAlloc>>

\* Mutated form: readU32Locked leaves the buffer of a cut field to nobody.
PendingForgotten ==
    /\ cpc \in Reading
    /\ cLive' = cLive \ cLocked
    /\ cLocked' = {} /\ cItems' = NoItems /\ cBuf' = 0
    /\ cOpen' = FALSE /\ cpc' = "failed"
    /\ UNCHANGED <<sourceVars, daemonVars, pipe, dOpen, section, left, field, cAlloc,
                   containerVars>>

\* An error frame, a length above maxField, the end of a cut frame or the
\* deadline: readU32Locked wipes the buffer it was filling, decodeBundle
\* destroys what it has and the program ends in failure.
ReadFails ==
    /\ cpc \in Reading
    /\ cLive' = cLive \ (cLocked \cup Buffers(cBuf))
    /\ cLocked' = {} /\ cItems' = NoItems /\ cBuf' = 0
    /\ cOpen' = FALSE /\ cpc' = "failed"
    /\ UNCHANGED <<sourceVars, daemonVars, pipe, dOpen, section, left, field, cAlloc,
                   containerVars>>

-----------------------------------------------------------------------------
\* The receiver: ApplyFiles, WriteFilesUnderRoot and Exec.

\* What the receiver reads through the slice of a field of its bundle.
Content(it) ==
    IF it.data = 0 \/ it.data \in cLive THEN it.size ELSE "wiped"

FileItems == cItems[1]

\* WriteBytesFile publishes one file by a rename.
ApplyFile ==
    /\ cpc = "apply" /\ ai <= Len(FileItems)
    /\ files' = files \cup {[name |-> FileItems[ai].name, data |-> Content(FileItems[ai])]}
    /\ ai' = ai + 1
    /\ UNCHANGED <<sourceVars, daemonVars, connVars, cpc, decodeVars, manifest, env>>

\* The manifest comes last. The fetch form and the hook are done with it.
ApplyManifest ==
    /\ cpc = "apply" /\ ai > Len(FileItems)
    /\ manifest' = TRUE
    /\ cpc' = IF form = "exec" THEN "env" ELSE "exit"
    /\ UNCHANGED <<sourceVars, daemonVars, connVars, decodeVars, ai, files, env>>

EnvOf(s) ==
    {[section |-> s, name |-> cItems[s][i].name, data |-> Content(cItems[s][i])]
        : i \in DOMAIN cItems[s]}

\* EnvFor copies pointers and values into the strings of the environment.
EnvFor ==
    /\ cpc = "env"
    /\ env' = EnvOf(2) \cup EnvOf(3)
    /\ cpc' = "look"
    /\ UNCHANGED <<sourceVars, daemonVars, connVars, decodeVars, ai, files, manifest>>

DestroyClient ==
    /\ cLive' = cLive \ cLocked /\ cLocked' = {} /\ cItems' = Cleared(cItems)
    /\ UNCHANGED <<sourceVars, daemonVars, connVars, section, left, field, cBuf, cAlloc,
                   containerVars>>

\* lookPath found the program: Destroy, then execve.
ExecDestroys ==
    /\ cpc = "look" /\ cpc' = "execve"
    /\ DestroyClient

Execve ==
    /\ cpc = "execve" /\ cpc' = "app"
    /\ UNCHANGED <<sourceVars, daemonVars, connVars, decodeVars, containerVars>>

\* The deferred Destroy of berm-client fetch and of the hook.
Exit ==
    /\ cpc = "exit" /\ cpc' = "ok"
    /\ DestroyClient

\* The mount namespace, a write, lookPath or execve fails: the deferred or
\* explicit Destroy runs, for the second time after a failed execve.
ApplyFails ==
    /\ cpc \in {"apply", "look", "execve"}
    /\ cpc' = "failed"
    /\ DestroyClient

-----------------------------------------------------------------------------
Build == OpenSource \/ captureDecrypt \/ Keys \/ Value \/ Payload \/ CloseHandle
         \/ BuildFails \/ BuildManifest
Respond == EncodeBundle \/ EncodeFails \/ RecordAndDestroy \/ WriteError
Decode == ReadHeader \/ ReadCount \/ ReadField \/ ReadBytes \/ ReadFails
ApplyBundle == ApplyFile \/ ApplyManifest \/ EnvFor \/ ExecDestroys \/ Execve \/ Exit
               \/ ApplyFails

Next == Rotate \/ Build \/ Respond \/ Decode \/ ApplyBundle

Spec == Init /\ [][Next]_vars

-----------------------------------------------------------------------------
\* Properties.

Name == Nat \X AnyKey
Slice == {"empty", "intact", "wiped"}
Field(kinds) == [name : Name, size : kinds, data : Nat]
BundleOf(kinds) == [Sections -> Seq(Field(kinds))]
Place == [section : 0..5, field : Nat, part : Nat]
Unit == [unit : {"bundle", "error"}] \cup [unit : {"count"}, n : Nat]
        \cup [unit : {"field"}, name : Name, size : Size]
        \cup [unit : {"bytes"}, data : Slice]

DaemonType ==
    /\ plan \in Plans /\ form \in {"fetch", "exec", "hook"} /\ version \in Version
    /\ dpc \in {"open", "capture", "use", "encode", "error", "done"}
    /\ ti \in 1..(Len(plan) + 1) /\ decrypted \in Version
    /\ listed \in BOOLEAN /\ want \in Seq(AnyKey) /\ render \in Size
    /\ items \in BundleOf(Size)
    /\ recorded \in BOOLEAN

MemoryType ==
    /\ alloc \in Nat /\ plain \in 0..alloc
    /\ retained \subseteq 1..alloc /\ locked \subseteq 1..alloc /\ live \subseteq 1..alloc

ConnType ==
    /\ at \in Place
    /\ pipe \in Seq(Unit) /\ Len(pipe) <= PipeCap
    /\ dOpen \in BOOLEAN

ClientType ==
    /\ cpc \in Reading \cup {"apply", "env", "look", "execve", "exit", "ok", "failed", "app"}
    /\ cOpen \in BOOLEAN
    /\ section \in 0..4 /\ left \in Nat
    /\ field \in [name : Name, size : Size]
    /\ cItems \in BundleOf(Slice)
    /\ ai \in Nat \ {0} /\ manifest \in BOOLEAN

ClientMemoryType ==
    /\ cAlloc \in Nat /\ cBuf \in 0..cAlloc
    /\ cLocked \subseteq 1..cAlloc /\ cLive \subseteq 1..cAlloc

\* The type invariant: no target is skipped past the last, no buffer is
\* unknown, the socket holds no more than it can, and no count runs below zero.
TypeOK == DaemonType /\ MemoryType /\ ConnType /\ ClientType /\ ClientMemoryType

\* However the build, the transfer and the delivery end, each program has
\* wiped every buffer of plaintext it made: the handler before it answers an
\* error and when it is done, and the receiver before it runs the application
\* or exits.
NothingStranded ==
    /\ dpc \in {"error", "done"} => live = {}
    /\ cpc \in {"ok", "failed", "execve", "app"} => cLive = {}

Names(S, i) == {e.name[2] : e \in {f \in S : f.name[1] = i}}
KeySets == {{dotenvKeys(v)[i] : i \in DOMAIN dotenvKeys(v)} : v \in Version}

\* The files of target i are in place, all of one listing for an envdir.
FilesComplete(i) ==
    CASE plan[i].kind \in {"file", "whole", "dotenv"} -> Names(files, i) = {NoKey}
      [] plan[i].kind = "envdir" -> Names(files, i) \in KeySets
      [] OTHER -> TRUE

\* So are its variables, all of one listing for env all, and its pointer.
EnvComplete(i) ==
    CASE plan[i].kind = "env" -> Names(env, i) = {NoKey}
      [] plan[i].kind = "envall" -> Names(env, i) \in KeySets
      [] OTHER -> plan[i].pointer => Names(env, i) = {NoKey}

\* The ready signal can be trusted: once the manifest is there, or the
\* program exited with success, every file of the plan is in place and none of
\* them was copied from a buffer already wiped; and an application that runs
\* also has every variable and pointer. A source rotated half-way fails the
\* whole build or is delivered complete.
ReadyIsComplete ==
    /\ manifest \/ cpc = "ok" =>
          /\ \A i \in DOMAIN plan : FilesComplete(i)
          /\ \A f \in files : f.data # "wiped"
    /\ cpc = "app" =>
          /\ manifest
          /\ \A i \in DOMAIN plan : EnvComplete(i)
          /\ \A e \in env : e.data # "wiped"

\* A bundle the receiver cannot take never counts as delivered: with a value
\* above maxField, which decodeBundle refuses, or a name above 16 bits, which
\* cuts the frame, EncodeBundle cannot come to its end.
RefusedIsNeverRecorded ==
    recorded => \A s \in Sections : \A i \in DOMAIN items[s] :
        items[s][i].size # "big" /\ items[s][i].name[2] \notin LongKeys
=============================================================================
