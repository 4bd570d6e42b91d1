---------------------------- MODULE UploadsProofs ----------------------------
(***************************************************************************)
(* Proofs about Uploads and ProjectKeys, for any number of files, chunks,  *)
(* requests, processes, key versions and faults.                           *)
(*                                                                         *)
(* The keys: versions are numbered without a gap and only the last one may *)
(* be active (KeyOrder).  Whatever has been sealed names a version whose   *)
(* row holds its key (SealedInv), since rows are never removed.            *)
(*                                                                         *)
(* The files: while the one request that creates a file is under way, the  *)
(* file has no row and nobody else can be busy with it; an object is there *)
(* before the row that points at it, and goes after it (FileInv).  Until a *)
(* second completion reads the chunks its one writer opens an empty object *)
(* and leaves it whole before the row points at it (Sound).                *)
(*                                                                         *)
(* The chunks: what was answered is on disk, open to nobody, until the     *)
(* first completion reads it; from then on until a second one does, all    *)
(* content of the file, on its way or stored, covers what had been         *)
(* answered and not sent again meanwhile (WholeFile).                      *)
(***************************************************************************)
EXTENDS Uploads, FiniteSetTheorems, TLAPS

\* The steps of a request that concern its file.
FileSteps == Steps \ {"idle", "ensuring", "rotating", "dropping"}
Creation  == {"encoding", "caching", "writing", "filling", "inserting",
              "discarding"}

\* What a request's step says of its other fields.
RecordOK(r) ==
  /\ r.step \in FileSteps => r.file \in Ids
  /\ r.step \in {"encoding", "caching", "writing", "filling"} =>
       r.op \in {"create", "complete"}
  /\ r.step \in {"inserting", "discarding"} => r.op = "create"
  /\ r.step \in {"listing", "reading", "removing", "checking", "updating"} =>
       r.op = "complete"

StepInv == \A c \in Callers : RecordOK(req[c])

\* Versions are numbered from 1, each has one key, and the active one is the
\* last.
KeyOrder ==
  /\ \A k \in keys : k.version # 0
  /\ \A j, k \in keys : j.version = k.version => j = k
  /\ \A k \in keys : \A v \in 1 .. k.version : HasVersion(v)
  /\ \A k \in Active : ~HasVersion(k.version + 1)

\* A key that opens what it has sealed, or none.
Known(key) == key = NoKey \/ Opens(key)

\* A request holds no key until it has one that opens what it seals.
Holds(r) ==
  /\ r.step \in {"listing", "reading", "removing", "checking", "encoding"} =>
       r.key = NoKey
  /\ r.step \in {"caching", "writing", "filling"} => Known(r.key)
  /\ r.step = "rotating" => HasVersion(r.key.version)

SealedInv ==
  /\ \A o \in objects : o.state = "whole" => Decodes(o)
  /\ \A p \in Procs : Known(cache[p])
  /\ \A c \in Callers : Holds(req[c])

\* Busy with a file, and creating it.
On(c, f) == req[c].file = f /\ req[c].step \in FileSteps
Creating(c, f) ==
  /\ On(c, f)
  /\ \/ req[c].step \in Creation /\ req[c].op = "create"
     \/ req[c].step = "registering"

Stored(f, p) == \E o \in objects : o.file = f /\ o.path = p

\* A file nobody has begun to create.
Unused(f) ==
  /\ at[f] = "none"
  /\ \A p : ~Stored(f, p)
  /\ \A c \in Callers : ~On(c, f)

\* A file that one request creates or has created, and a request that is busy
\* with it.
SingleBusy(c, f) ==
  /\ Creating(c, f) =>
       at[f] = "none" /\ \A d \in Callers : On(d, f) => d = c
  /\ req[c].step \in {"filling", "inserting", "updating"}
     /\ (req[c].op = "create" \/ at[f] # "none")
       => Stored(f, EncodedPath(c))
  /\ req[c].step = "erasing" => at[f] = "none"

Single(f) ==
  /\ at[f] = "final" => Stored(f, path[f])
  /\ \A c \in Callers : On(c, f) => SingleBusy(c, f)

FileInv(f) ==
  /\ claims[f] = 0 => Unused(f)
  /\ claims[f] = 1 /\ f \notin damaged => Single(f)

-----------------------------------------------------------------------------
(* Requests.                                                               *)

LEMMA IdleType == Idle \in Request /\ Idle.step = "idle"
  BY DEF Idle, Request, Steps, NoKey, NoSetting, Key, Plain, Path

\* What a step of a request may do to its record keeps the types.
LEMMA GoType ==
  ASSUME TypeOK, NEW c \in Callers, NEW r \in Request,
         req' = [req EXCEPT ![c] = r]
  PROVE  /\ req' \in [Callers -> Request]
         /\ req'[c] = r
         /\ \A d \in Callers \ {c} : req'[d] = req[d]
  BY DEF TypeOK

\* The record of a request that only moves on.
LEMMA GoStep ==
  ASSUME TypeOK, NEW c \in Callers, NEW s \in Steps, Go(c, s)
  PROVE  /\ req' \in [Callers -> Request]
         /\ req'[c].step = s
         /\ req'[c] = [req[c] EXCEPT !.step = s]
         /\ req'[c].op = req[c].op /\ req'[c].file = req[c].file
         /\ req'[c].set = req[c].set /\ req'[c].data = req[c].data
         /\ req'[c].todo = req[c].todo
         /\ req'[c].key = req[c].key
         /\ req'[c].was = req[c].was /\ req'[c].path = req[c].path
         /\ \A d \in Callers \ {c} : req'[d] = req[d]
<1>1. req' = [req EXCEPT ![c] = [req[c] EXCEPT !.step = s]]
  BY DEF Go
<1>2. req[c] \in Request
  BY DEF TypeOK
<1>3. [req[c] EXCEPT !.step = s] \in Request
  BY <1>2 DEF Request
<1>4. /\ req' \in [Callers -> Request]
      /\ req'[c] = [req[c] EXCEPT !.step = s]
      /\ \A d \in Callers \ {c} : req'[d] = req[d]
  BY <1>1, <1>3, GoType
<1> QED
  BY <1>2, <1>4 DEF Request

LEMMA AnswerStep ==
  ASSUME TypeOK, NEW c \in Callers, Answer(c)
  PROVE  /\ req' \in [Callers -> Request]
         /\ req'[c] = Idle
         /\ req'[c].step = "idle"
         /\ \A d \in Callers \ {c} : req'[d] = req[d]
  BY IdleType, GoType DEF Answer

LEMMA StartStep ==
  ASSUME TypeOK, NEW c \in Callers, NEW r \in Request, Start(c, r)
  PROVE  /\ req' \in [Callers -> Request]
         /\ req[c].step = "idle"
         /\ req'[c] = r
         /\ \A d \in Callers \ {c} : req'[d] = req[d]
  BY GoType DEF Start, At

-----------------------------------------------------------------------------
(* Types.                                                                  *)

LEMMA InitType == Init => TypeOK
<1> SUFFICES ASSUME Init PROVE TypeOK
  OBVIOUS
<1>1. KeysTypeOK
  BY DEF Init, KeysInit, KeysTypeOK, NoKey, Key
<1> QED
  BY <1>1, IdleType DEF Init, TypeOK, Plain, Path

\* The part of the types that is not about requests or keys.
StateType ==
  /\ bucket \in BOOLEAN /\ setting \in Settings \cup {NoSetting}
  /\ at \in [Ids -> {"none", "staged", "final"}] /\ path \in [Ids -> Path]
  /\ objects \in SUBSET OnDisk(Path)
  /\ staged \in SUBSET OnDisk(Chunks) /\ dir \in SUBSET Ids
  /\ claims \in [Ids -> Nat] /\ completes \in [Ids -> Nat]
  /\ acked \in [Ids -> SUBSET Chunks] /\ damaged \in SUBSET Ids
  /\ faults \in Nat

LEMMA TypeParts ==
  TypeOK <=> KeysTypeOK /\ StateType /\ req \in [Callers -> Request]
  BY DEF TypeOK, StateType

LEMMA EncodedPathType ==
  ASSUME TypeOK, NEW c \in Callers
  PROVE  EncodedPath(c) \in Path
  BY DEF TypeOK, Request, EncodedPath, Path, Key

LEMMA SettingType ==
  ASSUME TypeOK
  PROVE  setting \in [gz : BOOLEAN, enc : BOOLEAN]
<1>1. NoSetting \in [gz : BOOLEAN, enc : BOOLEAN]
  BY DEF NoSetting
<1>2. setting \in Settings \cup {NoSetting}
  BY DEF TypeOK
<1> QED
  BY <1>1, <1>2, SettingsAssumption

LEMMA KeyStateType ==
  ASSUME KeysTypeOK, UNCHANGED keyVars
  PROVE  KeysTypeOK'
  BY DEF KeysTypeOK, keyVars

LEMMA FaultType ==
  ASSUME faults \in Nat, Fault
  PROVE  faults' \in Nat
  BY DEF Fault

\* What the operations on files do to the types, for objects and for chunks.
LEMMA TruncatedType ==
  ASSUME NEW P, NEW disk \in SUBSET OnDisk(P), NEW f \in Ids, NEW q \in P,
         NEW c \in Callers
  PROVE  Truncated(disk, f, q, c) \in SUBSET OnDisk(P)
<1> DEFINE new == [file |-> f, path |-> q, data |-> {}, sealed |-> 0,
                   state |-> IF OpenAt(disk, f, q) = {} THEN "empty" ELSE "torn",
                   open |-> OpenAt(disk, f, q) \cup {c}]
<1>1. OpenAt(disk, f, q) \subseteq Callers
  BY DEF OpenAt, Named, OnDisk
<1>2. new \in OnDisk(P)
  BY <1>1 DEF OnDisk
<1>3. Truncated(disk, f, q, c) = Without(disk, f, q) \cup {new}
  BY DEF Truncated
<1> HIDE DEF new
<1> QED
  BY <1>2, <1>3 DEF Without

LEMMA FilledType ==
  ASSUME NEW P, NEW disk \in SUBSET OnDisk(P), NEW f, NEW q, NEW c,
         NEW data \in SUBSET Chunks, NEW sealed \in Nat, NEW whole \in BOOLEAN
  PROVE  Filled(disk, f, q, c, data, sealed, whole) \in SUBSET OnDisk(P)
<1>1. \A o \in OnDisk(P) : WrittenBy(o, c, data, sealed, whole) \in OnDisk(P)
  BY DEF WrittenBy, OnDisk
<1>2. OpenBy(disk, f, q, c) \subseteq OnDisk(P)
  BY DEF OpenBy, Named
<1> QED
  BY <1>1, <1>2 DEF Filled

LEMMA ClosedType ==
  ASSUME NEW P, NEW disk \in SUBSET OnDisk(P), NEW cs, NEW torn
  PROVE  Closed(disk, cs, torn) \in SUBSET OnDisk(P)
<1>1. \A o \in OnDisk(P) : ClosedBy(o, cs, torn) \in OnDisk(P)
  BY DEF ClosedBy, OnDisk
<1> QED
  BY <1>1 DEF Closed

-----------------------------------------------------------------------------
(* The step of one request keeps the types when its record is well-formed. *)

LEMMA IdleOK == RecordOK(Idle)
  BY DEF RecordOK, Idle, FileSteps

LEMMA OneRequest ==
  ASSUME TypeOK, StepInv, NEW c \in Callers, KeysTypeOK', StateType',
         req' \in [Callers -> Request], RecordOK(req'[c]),
         \A d \in Callers \ {c} : req'[d] = req[d]
  PROVE  TypeOK' /\ StepInv'
<1>1. \A d \in Callers : RecordOK(req'[d])
  BY DEF StepInv
<1> QED
  BY <1>1 DEF TypeOK, StateType, StepInv

LEMMA CreateFileType ==
  ASSUME TypeOK, StepInv, NEW c \in Callers, NEW f \in Ids, CreateFile(c, f)
  PROVE  TypeOK' /\ StepInv'
<1> DEFINE r == [Idle EXCEPT !.step = "encoding", !.op = "create", !.file = f,
                             !.set = setting, !.data = Chunks]
<1>1. r \in Request /\ RecordOK(r)
  BY SettingType
     DEF Idle, Request, Steps, NoKey, NoSetting, Key, Plain, Path, RecordOK
<1>2. Start(c, r)
  BY DEF CreateFile
<1> HIDE DEF r
<1>3. /\ req' \in [Callers -> Request] /\ req'[c] = r
      /\ \A d \in Callers \ {c} : req'[d] = req[d]
  BY <1>1, <1>2, StartStep
<1>4. KeysTypeOK'
  BY KeyStateType DEF CreateFile, TypeOK
<1>5. StateType'
  BY DEF CreateFile, StateType, TypeOK, bucketVars, rowVars, dirVars
<1> QED
  BY <1>1, <1>3, <1>4, <1>5, OneRequest

LEMMA EncodeType ==
  ASSUME TypeOK, StepInv, NEW c \in Callers, Encode(c)
  PROVE  TypeOK' /\ StepInv'
<1>1. KeysTypeOK'
  BY KeyStateType DEF Encode, TypeOK
<1>2. StateType'
  BY DEF Encode, StateType, TypeOK, bucketVars, rowVars, dirVars, ghosts
<1>3. req[c] \in Request /\ RecordOK(req[c]) /\ req[c].step = "encoding"
  BY DEF TypeOK, StepInv, Encode, At
<1>4. ASSUME NEW s \in {"writing", "caching"}, NEW key \in Key,
             req' = [req EXCEPT ![c].step = s, ![c].key = key]
      PROVE  TypeOK' /\ StepInv'
  <2> DEFINE r == [req[c] EXCEPT !.step = s, !.key = key]
  <2>1. r \in Request
    BY <1>3 DEF Request, Steps
  <2>2. RecordOK(r)
    BY <1>3 DEF Request, RecordOK, FileSteps, Steps
  <2>3. req' = [req EXCEPT ![c] = r]
    BY <1>4
  <2> HIDE DEF r
  <2> QED
    BY <2>1, <2>2, <2>3, <1>1, <1>2, GoType, OneRequest
<1>5. CASE Go(c, "writing")
  <2>1. RecordOK(req'[c])
    BY <1>5, <1>3, GoStep DEF RecordOK, FileSteps, Steps
  <2> QED
    BY <2>1, <1>5, <1>1, <1>2, GoStep, OneRequest DEF Steps
<1>6. CASE Answer(c)
  BY <1>6, <1>1, <1>2, AnswerStep, IdleOK, OneRequest
<1>7. CASE req' = [req EXCEPT ![c].step = "writing", ![c].key = cache[ProcOf[c]]]
  <2>1. cache[ProcOf[c]] \in Key
    BY CallersAssumption DEF TypeOK, KeysTypeOK
  <2> QED
    BY <2>1, <1>4, <1>7
<1>8. CASE \E k \in Active : req' = [req EXCEPT ![c].step = "caching",
                                               ![c].key = KeyOf(k)]
  <2>1. PICK k \in Active : req' = [req EXCEPT ![c].step = "caching",
                                              ![c].key = KeyOf(k)]
    BY <1>8
  <2>2. KeyOf(k) \in Key
    BY DEF TypeOK, KeysTypeOK, Active, KeyRow, KeyOf, Key
  <2> QED
    BY <2>1, <2>2, <1>4
<1> QED
  BY <1>5, <1>6, <1>7, <1>8 DEF Encode

LEMMA Moves ==
  ASSUME TypeOK, StepInv, NEW c \in Callers, NEW s \in Steps, Go(c, s),
         KeysTypeOK', StateType', RecordOK([req[c] EXCEPT !.step = s])
  PROVE  TypeOK' /\ StepInv'
  BY GoStep, OneRequest

LEMMA Ends ==
  ASSUME TypeOK, StepInv, NEW c \in Callers, Answer(c), KeysTypeOK', StateType'
  PROVE  TypeOK' /\ StepInv'
  BY AnswerStep, IdleOK, OneRequest

LEMMA Begins ==
  ASSUME TypeOK, StepInv, NEW c \in Callers, NEW r \in Request, RecordOK(r),
         Start(c, r), KeysTypeOK', StateType'
  PROVE  TypeOK' /\ StepInv'
  BY StartStep, OneRequest

\* What is known of the request that takes a step.
LEMMA Mine ==
  ASSUME TypeOK, StepInv, NEW c \in Callers
  PROVE  /\ req[c] \in Request /\ RecordOK(req[c])
         /\ KeysTypeOK /\ StateType
  BY DEF TypeOK, StateType, StepInv

LEMMA CacheKeyType ==
  ASSUME TypeOK, StepInv, NEW c \in Callers, CacheKey(c)
  PROVE  TypeOK' /\ StepInv'
<1>1. req[c].key \in Key /\ ProcOf[c] \in Procs
  BY Mine, CallersAssumption DEF Request
<1>2. KeysTypeOK'
  BY <1>1, Mine DEF CacheKey, SetCached, KeysTypeOK
<1>3. StateType'
  BY Mine DEF CacheKey, StateType, bucketVars, rowVars, dirVars, ghosts
<1>4. RecordOK([req[c] EXCEPT !.step = "writing"])
  BY Mine DEF CacheKey, At, RecordOK, FileSteps, Steps, Request
<1> QED
  BY <1>2, <1>3, <1>4, Moves DEF CacheKey, Steps

LEMMA WriteType ==
  ASSUME TypeOK, StepInv, NEW c \in Callers, Write(c)
  PROVE  TypeOK' /\ StepInv'
<1>1. req[c].file \in Ids /\ req[c].step = "writing"
  BY Mine DEF Write, At, RecordOK, FileSteps, Steps
<1>2. objects' \in SUBSET OnDisk(Path)
  BY <1>1, Mine, EncodedPathType, TruncatedType DEF Write, StateType
<1>3. StateType'
  BY <1>2, Mine DEF Write, StateType, bucketVars, rowVars, dirVars, ghosts
<1>4. KeysTypeOK'
  BY Mine, KeyStateType DEF Write
<1>5. RecordOK([req[c] EXCEPT !.step = "filling"])
  BY <1>1, Mine DEF RecordOK, FileSteps, Steps, Request
<1> QED
  BY <1>3, <1>4, <1>5, Moves DEF Steps, Write

LEMMA FillType ==
  ASSUME TypeOK, StepInv, NEW c \in Callers, Fill(c)
  PROVE  TypeOK' /\ StepInv'
<1>1. req[c].file \in Ids /\ req[c].step = "filling"
  BY Mine DEF Fill, At, RecordOK, FileSteps, Steps
<1>2. objects' \in SUBSET OnDisk(Path)
  <2>1. req[c].data \in SUBSET Chunks /\ req[c].key.dek \in Nat
    BY Mine DEF Request, Key
  <2>2. objects \in SUBSET OnDisk(Path)
    BY Mine DEF StateType
  <2> QED
    BY <2>1, <2>2, FilledType DEF Fill
<1>3. StateType'
  BY <1>2, Mine DEF Fill, StateType, bucketVars, rowVars, dirVars, ghosts
<1>4. KeysTypeOK'
  BY Mine, KeyStateType DEF Fill
<1>5. req[c].op = "create" => RecordOK([req[c] EXCEPT !.step = "inserting"])
  BY <1>1, Mine DEF RecordOK, FileSteps, Steps, Request
<1>6. req[c].op # "create" => RecordOK([req[c] EXCEPT !.step = "updating"])
  BY <1>1, Mine DEF RecordOK, FileSteps, Steps, Request
<1>7. \/ req[c].op = "create" /\ Go(c, "inserting")
      \/ req[c].op # "create" /\ Go(c, "updating")
  BY DEF Fill
<1> QED
  BY <1>3, <1>4, <1>5, <1>6, <1>7, Moves DEF Steps

LEMMA WriteFailsType ==
  ASSUME TypeOK, StepInv, NEW c \in Callers, WriteFails(c)
  PROVE  TypeOK' /\ StepInv'
<1>1. objects' \in SUBSET OnDisk(Path) /\ staged' \in SUBSET OnDisk(Chunks)
  BY Mine, ClosedType DEF WriteFails, StateType
<1>2. faults' \in Nat
  BY Mine, FaultType DEF WriteFails, StateType
<1>3. StateType'
  BY <1>1, <1>2, Mine
     DEF WriteFails, StateType, bucketVars, rowVars, ghosts
<1>4. KeysTypeOK'
  BY Mine, KeyStateType DEF WriteFails
<1> QED
  BY <1>3, <1>4, Ends DEF WriteFails

LEMMA InsertType ==
  ASSUME TypeOK, StepInv, NEW c \in Callers, Insert(c)
  PROVE  TypeOK' /\ StepInv'
<1>1. KeysTypeOK'
  BY Mine, KeyStateType DEF Insert
<1>2. EncodedPath(c) \in Path
  BY EncodedPathType
<1>3. at' \in [Ids -> {"none", "staged", "final"}] /\ path' \in [Ids -> Path]
  BY <1>2, Mine DEF Insert, StateType, rowVars
<1>4. faults' \in Nat
  BY Mine, FaultType DEF Insert, StateType
<1>5. StateType'
  BY <1>3, <1>4, Mine DEF Insert, StateType, bucketVars, dirVars, ghosts
<1>6. RecordOK([req[c] EXCEPT !.step = "discarding"])
  BY Mine DEF Insert, At, RecordOK, FileSteps, Steps, Request
<1>7. Answer(c) \/ Go(c, "discarding")
  BY DEF Insert
<1> QED
  BY <1>1, <1>5, <1>6, <1>7, Moves, Ends DEF Steps

LEMMA DiscardType ==
  ASSUME TypeOK, StepInv, NEW c \in Callers, Discard(c)
  PROVE  TypeOK' /\ StepInv'
<1>1. KeysTypeOK'
  BY Mine, KeyStateType DEF Discard
<1>2. StateType'
  BY Mine DEF Discard, Without, StateType, bucketVars, rowVars, dirVars, ghosts
<1> QED
  BY <1>1, <1>2, Ends DEF Discard

LEMMA InitChunkedUploadType ==
  ASSUME TypeOK, StepInv, NEW c \in Callers, NEW f \in Ids,
         InitChunkedUpload(c, f)
  PROVE  TypeOK' /\ StepInv'
<1> DEFINE r == [Idle EXCEPT !.step = "registering", !.op = "other", !.file = f]
<1>1. r \in Request /\ RecordOK(r)
  BY DEF Idle, Request, Steps, NoKey, NoSetting, Key, Plain, Path, RecordOK
<1>2. KeysTypeOK'
  BY Mine, KeyStateType DEF InitChunkedUpload
<1>3. StateType'
  BY Mine DEF InitChunkedUpload, StateType, bucketVars, rowVars
<1>4. Start(c, r)
  BY DEF InitChunkedUpload
<1> QED
  BY <1>1, <1>2, <1>3, <1>4, Begins

LEMMA RegisterType ==
  ASSUME TypeOK, StepInv, NEW c \in Callers, Register(c)
  PROVE  TypeOK' /\ StepInv'
<1>1. KeysTypeOK'
  BY Mine, KeyStateType DEF Register
<1>2. StateType'
  BY Mine DEF Register, StateType, bucketVars, dirVars, ghosts
<1> QED
  BY <1>1, <1>2, Ends DEF Register

LEMMA UploadChunkType ==
  ASSUME TypeOK, StepInv, NEW c \in Callers, NEW f \in Ids, NEW i \in Chunks,
         UploadChunk(c, f, i)
  PROVE  TypeOK' /\ StepInv'
<1> DEFINE r == [Idle EXCEPT !.step = "staging", !.op = "other", !.file = f,
                             !.data = {i}]
<1>1. r \in Request /\ RecordOK(r)
  BY DEF Idle, Request, Steps, NoKey, NoSetting, Key, Plain, Path, RecordOK
<1>2. KeysTypeOK'
  BY Mine, KeyStateType DEF UploadChunk
<1>3. StateType'
  BY Mine DEF UploadChunk, StateType, bucketVars, rowVars, dirVars, ghosts
<1>4. Start(c, r)
  BY DEF UploadChunk
<1> QED
  BY <1>1, <1>2, <1>3, <1>4, Begins

LEMMA MakeDirType ==
  ASSUME TypeOK, StepInv, NEW c \in Callers, MakeDir(c)
  PROVE  TypeOK' /\ StepInv'
<1>1. KeysTypeOK'
  BY Mine, KeyStateType DEF MakeDir
<1>2. req[c].file \in Ids
  BY Mine DEF MakeDir, At, RecordOK, FileSteps, Steps
<1>3. StateType'
  BY <1>2, Mine DEF MakeDir, StateType, bucketVars, rowVars, ghosts
<1>4. RecordOK([req[c] EXCEPT !.step = "opening"])
  BY <1>2, Mine DEF RecordOK, FileSteps, Steps, Request
<1> QED
  BY <1>1, <1>3, <1>4, Moves DEF MakeDir, Steps

LEMMA OpenChunkType ==
  ASSUME TypeOK, StepInv, NEW c \in Callers, OpenChunk(c)
  PROVE  TypeOK' /\ StepInv'
<1>1. KeysTypeOK'
  BY Mine, KeyStateType DEF OpenChunk
<1>2. req[c].file \in Ids /\ req[c].data \subseteq Chunks
  BY Mine DEF OpenChunk, At, RecordOK, FileSteps, Steps, Request
<1>3. staged' \in SUBSET OnDisk(Chunks) /\ acked' \in [Ids -> SUBSET Chunks]
  <2>1. CASE UNCHANGED <<staged, acked>>
    BY <2>1, Mine DEF StateType
  <2>2. ASSUME NEW i \in req[c].data, staged' = Truncated(staged, req[c].file, i, c),
               acked' = [acked EXCEPT ![req[c].file] =
                           IF Unread(req[c].file, i) THEN acked[req[c].file] \ {i}
                           ELSE acked[req[c].file]]
        PROVE  staged' \in SUBSET OnDisk(Chunks) /\ acked' \in [Ids -> SUBSET Chunks]
    BY <2>2, <1>2, Mine, TruncatedType DEF StateType
  <2> QED
    BY <2>1, <2>2 DEF OpenChunk
<1>4. StateType'
  BY <1>3, Mine DEF OpenChunk, StateType, bucketVars, rowVars
<1>5. RecordOK([req[c] EXCEPT !.step = "storing"])
  BY <1>2, Mine DEF RecordOK, FileSteps, Steps, Request
<1>6. Answer(c) \/ Go(c, "storing")
  BY DEF OpenChunk
<1> QED
  BY <1>1, <1>4, <1>5, <1>6, Moves, Ends DEF Steps

LEMMA FillChunkType ==
  ASSUME TypeOK, StepInv, NEW c \in Callers, FillChunk(c)
  PROVE  TypeOK' /\ StepInv'
<1>1. KeysTypeOK'
  BY Mine, KeyStateType DEF FillChunk
<1>2. req[c].file \in Ids /\ req[c].data \subseteq Chunks
  BY Mine DEF FillChunk, At, RecordOK, FileSteps, Steps, Request
<1>3. PICK i \in req[c].data, whole \in BOOLEAN :
        /\ staged' = Filled(staged, req[c].file, i, c, {i}, 0, whole)
        /\ acked' = [acked EXCEPT ![req[c].file] =
             IF /\ completes[req[c].file] = 0 /\ Alone(staged, req[c].file, i, c)
                /\ OpenBy(staged, req[c].file, i, c) # {}
             THEN acked[req[c].file] \cup {i} ELSE acked[req[c].file]]
  BY DEF FillChunk
<1>4. {i} \in SUBSET Chunks /\ 0 \in Nat
  BY <1>2, <1>3
<1>5. staged' \in SUBSET OnDisk(Chunks)
  BY <1>3, <1>4, Mine, FilledType DEF StateType
<1>6. acked' \in [Ids -> SUBSET Chunks]
  BY <1>2, <1>3, <1>4, Mine DEF StateType
<1>7. StateType'
  BY <1>5, <1>6, Mine DEF FillChunk, StateType, bucketVars, rowVars
<1> QED
  BY <1>1, <1>7, Ends DEF FillChunk

LEMMA CompleteType ==
  ASSUME TypeOK, StepInv, NEW c \in Callers, NEW f \in Ids,
         CompleteChunkedUpload(c, f)
  PROVE  TypeOK' /\ StepInv'
<1> DEFINE r == [Idle EXCEPT !.step = "listing", !.op = "complete",
                             !.file = f]
<1>1. r \in Request /\ RecordOK(r)
  BY DEF Idle, Request, Steps, NoKey, NoSetting, Key, Plain, Path, RecordOK
<1>2. KeysTypeOK'
  BY Mine, KeyStateType DEF CompleteChunkedUpload
<1>3. StateType'
  BY Mine
     DEF CompleteChunkedUpload, StateType, bucketVars, rowVars, dirVars, ghosts
<1>4. Start(c, r)
  BY DEF CompleteChunkedUpload
<1> QED
  BY <1>1, <1>2, <1>3, <1>4, Begins

LEMMA ListType ==
  ASSUME TypeOK, StepInv, NEW c \in Callers, List(c)
  PROVE  TypeOK' /\ StepInv'
<1>1. KeysTypeOK'
  BY Mine, KeyStateType DEF List
<1>2. req[c].file \in Ids /\ req[c].op = "complete"
  BY Mine DEF List, At, RecordOK, FileSteps, Steps
<1>3. completes' \in [Ids -> Nat]
  BY <1>2, Mine DEF List, StateType
<1>4. StateType'
  BY <1>3, Mine DEF List, StateType, bucketVars, rowVars, dirVars
<1>5. CASE Answer(c)
  BY <1>1, <1>4, <1>5, Ends
<1>6. CASE ~Answer(c)
  <2> DEFINE t == {i \in Chunks : Named(staged, req[c].file, i) # {}}
             r == [req[c] EXCEPT !.step = "reading", !.todo = t]
  <2>1. req' = [req EXCEPT ![c] = r]
    BY <1>6 DEF List
  <2>2. t \in SUBSET Chunks
    OBVIOUS
  <2> HIDE DEF t
  <2>3. req[c] \in Request /\ "reading" \in Steps
    BY Mine DEF Steps
  <2>4. r \in Request /\ r.step = "reading" /\ r.op = req[c].op /\ r.file = req[c].file
    BY <2>2, <2>3 DEF Request
  <2> HIDE DEF r
  <2>5. RecordOK(r)
    BY <1>2, <2>4 DEF RecordOK, FileSteps
  <2> QED
    BY <2>1, <2>4, <2>5, <1>1, <1>4, GoType, OneRequest
<1> QED
  BY <1>5, <1>6

LEMMA ReadChunkType ==
  ASSUME TypeOK, StepInv, NEW c \in Callers, ReadChunk(c)
  PROVE  TypeOK' /\ StepInv'
<1>1. KeysTypeOK'
  BY Mine, KeyStateType DEF ReadChunk
<1>2. req[c].file \in Ids /\ req[c].op = "complete" /\ req[c].step = "reading"
  BY Mine DEF ReadChunk, At, RecordOK, FileSteps, Steps
<1>3. StateType'
  BY Mine DEF ReadChunk, StateType, bucketVars, rowVars, dirVars, ghosts
<1>4. RecordOK([req[c] EXCEPT !.step = "removing"])
  BY <1>2, Mine DEF RecordOK, FileSteps, Steps, Request
<1>5. ASSUME NEW i \in req[c].todo, NEW o \in Named(staged, req[c].file, i),
             req' = [req EXCEPT ![c].todo = req[c].todo \ {i},
                                ![c].data = req[c].data \cup o.data]
      PROVE  TypeOK' /\ StepInv'
  <2> DEFINE r == [req[c] EXCEPT !.todo = req[c].todo \ {i},
                                 !.data = req[c].data \cup o.data]
  <2>1. req' = [req EXCEPT ![c] = r]
    BY <1>5
  <2>2. o.data \in SUBSET Chunks
    BY Mine DEF StateType, Named, OnDisk
  <2>3. r \in Request /\ r.step = "reading" /\ r.op = req[c].op /\ r.file = req[c].file
    <3>1. req[c] \in Request
      BY Mine
    <3>2. /\ req[c].todo \ {i} \in SUBSET Chunks
          /\ req[c].data \cup o.data \in SUBSET Chunks
      BY <2>2, <3>1 DEF Request
    <3> QED
      BY <1>2, <3>1, <3>2 DEF Request
  <2> HIDE DEF r
  <2>4. RecordOK(r)
    BY <1>2, <2>3 DEF RecordOK, FileSteps
  <2> QED
    BY <2>1, <2>3, <2>4, <1>1, <1>3, GoType, OneRequest
<1>6. \/ Answer(c) \/ Go(c, "removing")
      \/ \E i \in req[c].todo : \E o \in Named(staged, req[c].file, i) :
            req' = [req EXCEPT ![c].todo = req[c].todo \ {i},
                               ![c].data = req[c].data \cup o.data]
  BY DEF ReadChunk
<1> QED
  BY <1>1, <1>3, <1>4, <1>5, <1>6, Moves, Ends DEF Steps

LEMMA RemoveType ==
  ASSUME TypeOK, StepInv, NEW c \in Callers, Remove(c)
  PROVE  TypeOK' /\ StepInv'
<1>1. KeysTypeOK'
  BY Mine, KeyStateType DEF Remove
<1>2. req[c].file \in Ids
  BY Mine DEF Remove, At, RecordOK, FileSteps, Steps
<1>3. dir' \in SUBSET Ids /\ staged' \in SUBSET OnDisk(Chunks)
  BY <1>2, Mine DEF Remove, StateType, dirVars
<1>4. StateType'
  BY <1>3, Mine DEF Remove, StateType, bucketVars, rowVars, ghosts
<1>5. RecordOK([req[c] EXCEPT !.step = "checking"])
  BY Mine DEF Remove, At, RecordOK, FileSteps, Steps, Request
<1>6. CASE UNCHANGED req
  BY <1>1, <1>4, <1>6, Mine DEF TypeOK, StateType, StepInv
<1>7. CASE Go(c, "checking")
  BY <1>1, <1>4, <1>5, <1>7, Moves DEF Steps
<1> QED
  BY <1>6, <1>7 DEF Remove

LEMMA CheckType ==
  ASSUME TypeOK, StepInv, NEW c \in Callers, Check(c)
  PROVE  TypeOK' /\ StepInv'
<1>1. KeysTypeOK'
  BY Mine, KeyStateType DEF Check
<1>2. StateType'
  BY Mine DEF Check, StateType, bucketVars, rowVars, dirVars, ghosts
<1>3. CASE Answer(c)
  BY <1>1, <1>2, <1>3, Ends
<1>4. CASE req' = [req EXCEPT ![c].step = "encoding", ![c].set = setting]
  <2> DEFINE r == [req[c] EXCEPT !.step = "encoding", !.set = setting]
  <2>1. setting \in [gz : BOOLEAN, enc : BOOLEAN]
    BY SettingType
  <2>2. r \in Request
    <3>1. req[c] \in Request
      BY Mine
    <3>2. "encoding" \in Steps
      BY DEF Steps
    <3> QED
      BY <2>1, <3>1, <3>2 DEF Request
  <2>3. /\ r.step = "encoding" /\ r.op = req[c].op
        /\ r.file = req[c].file
    BY Mine DEF Request
  <2>4. req' = [req EXCEPT ![c] = r]
    BY <1>4
  <2>5. req[c].op = "complete" /\ req[c].file \in Ids
    BY Mine DEF Check, At, RecordOK, FileSteps, Steps
  <2> HIDE DEF r
  <2>6. RecordOK(r)
    BY <2>3, <2>5 DEF RecordOK, FileSteps
  <2> QED
    BY <2>2, <2>4, <2>6, <1>1, <1>2, GoType, OneRequest
<1> QED
  BY <1>3, <1>4 DEF Check

LEMMA UpdateType ==
  ASSUME TypeOK, StepInv, NEW c \in Callers, Update(c)
  PROVE  TypeOK' /\ StepInv'
<1>1. KeysTypeOK'
  BY Mine, KeyStateType DEF Update
<1>2. EncodedPath(c) \in Path
  BY EncodedPathType
<1>3. at' \in [Ids -> {"none", "staged", "final"}] /\ path' \in [Ids -> Path]
  BY <1>2, Mine DEF Update, StateType, rowVars
<1>4. faults' \in Nat
  BY Mine, FaultType DEF Update, StateType
<1>5. StateType'
  BY <1>3, <1>4, Mine DEF Update, StateType, bucketVars, dirVars, ghosts
<1> QED
  BY <1>1, <1>5, Ends DEF Update

LEMMA DeleteFileType ==
  ASSUME TypeOK, StepInv, NEW c \in Callers, NEW f \in Ids, DeleteFile(c, f)
  PROVE  TypeOK' /\ StepInv'
<1> DEFINE r == [Idle EXCEPT !.step = "unlinking", !.op = "other", !.file = f,
                             !.was = at[f], !.path = path[f]]
<1>1. at[f] \in {"none", "staged", "final"} /\ path[f] \in Path
  BY Mine DEF StateType
<1>2. r \in Request /\ RecordOK(r)
  BY <1>1 DEF Idle, Request, Steps, NoKey, NoSetting, Key, Plain, Path, RecordOK
<1>3. KeysTypeOK'
  BY Mine, KeyStateType DEF DeleteFile
<1>4. StateType'
  BY Mine DEF DeleteFile, StateType, bucketVars, rowVars, dirVars, ghosts
<1>5. Start(c, r)
  BY DEF DeleteFile
<1> QED
  BY <1>2, <1>3, <1>4, <1>5, Begins

LEMMA UnlinkType ==
  ASSUME TypeOK, StepInv, NEW c \in Callers, Unlink(c)
  PROVE  TypeOK' /\ StepInv'
<1>1. KeysTypeOK'
  BY Mine, KeyStateType DEF Unlink
<1>2. req[c].file \in Ids
  BY Mine DEF Unlink, At, RecordOK, FileSteps, Steps
<1>3. /\ at' \in [Ids -> {"none", "staged", "final"}]
      /\ path' \in [Ids -> Path] /\ damaged' \in SUBSET Ids
  <2>1. Plain \in Path
    BY DEF Plain, Path
  <2>2. path' \in [Ids -> Path]
    BY <1>2, <2>1, Mine DEF Unlink, StateType, rowVars
  <2>3. at' \in [Ids -> {"none", "staged", "final"}]
    BY <1>2, Mine DEF Unlink, StateType, rowVars
  <2>4. damaged' \in SUBSET Ids
    BY <1>2, Mine DEF Unlink, StateType
  <2> QED
    BY <2>2, <2>3, <2>4
<1>4. faults' \in Nat
  BY Mine, FaultType DEF Unlink, StateType
<1>5. StateType'
  BY <1>3, <1>4, Mine DEF Unlink, StateType, bucketVars, dirVars
<1>6. RecordOK([req[c] EXCEPT !.step = "erasing"])
  BY <1>2, Mine DEF RecordOK, FileSteps, Steps, Request
<1> QED
  BY <1>1, <1>5, <1>6, Moves DEF Unlink, Steps

LEMMA EraseType ==
  ASSUME TypeOK, StepInv, NEW c \in Callers, Erase(c)
  PROVE  TypeOK' /\ StepInv'
<1>1. KeysTypeOK'
  BY Mine, KeyStateType DEF Erase
<1>2. dir' \in SUBSET Ids /\ objects' \in SUBSET OnDisk(Path)
  BY Mine DEF Erase, StateType, Without
<1>3. StateType'
  BY <1>2, Mine DEF Erase, StateType, bucketVars, rowVars, ghosts
<1> QED
  BY <1>1, <1>3, Ends DEF Erase

LEMMA EnsureProjectKeyType ==
  ASSUME TypeOK, StepInv, NEW c \in Callers, EnsureProjectKey(c)
  PROVE  TypeOK' /\ StepInv'
<1> DEFINE r == [Idle EXCEPT !.step = "ensuring", !.op = "other"]
<1>1. r \in Request /\ RecordOK(r)
  BY DEF Idle, Request, Steps, NoKey, NoSetting, Key, Plain, Path, RecordOK, FileSteps
<1>2. KeysTypeOK'
  BY Mine, KeyStateType DEF EnsureProjectKey
<1>3. StateType'
  BY Mine
     DEF EnsureProjectKey, StateType, bucketVars, rowVars, dirVars, ghosts
<1>4. Start(c, r)
  BY DEF EnsureProjectKey
<1> QED
  BY <1>1, <1>2, <1>3, <1>4, Begins

LEMMA EnsureType ==
  ASSUME TypeOK, StepInv, NEW c \in Callers, Ensure(c)
  PROVE  TypeOK' /\ StepInv'
<1>1. KeysTypeOK'
  BY Mine DEF Ensure, InsertFirstKey, KeysTypeOK, KeyRow
<1>2. StateType'
  BY Mine DEF Ensure, StateType, bucketVars, rowVars, dirVars, ghosts
<1> QED
  BY <1>1, <1>2, Ends DEF Ensure

LEMMA RotateProjectKeyType ==
  ASSUME TypeOK, StepInv, NEW c \in Callers, RotateProjectKey(c)
  PROVE  TypeOK' /\ StepInv'
<1>1. PICK k \in Active :
        Start(c, [Idle EXCEPT !.step = "rotating", !.op = "other",
                              !.key = KeyOf(k)])
  BY DEF RotateProjectKey
<1> DEFINE r == [Idle EXCEPT !.step = "rotating", !.op = "other",
                             !.key = KeyOf(k)]
<1>2. KeyOf(k) \in Key
  BY Mine DEF KeysTypeOK, Active, KeyRow, KeyOf, Key
<1>3. r \in Request /\ RecordOK(r)
  BY <1>2 DEF Idle, Request, Steps, NoKey, NoSetting, Plain, Path, RecordOK, FileSteps
<1>4. KeysTypeOK'
  BY Mine, KeyStateType DEF RotateProjectKey
<1>5. StateType'
  BY Mine
     DEF RotateProjectKey, StateType, bucketVars, rowVars, dirVars, ghosts
<1> QED
  BY <1>1, <1>3, <1>4, <1>5, Begins

LEMMA RotateType ==
  ASSUME TypeOK, StepInv, NEW c \in Callers, Rotate(c)
  PROVE  TypeOK' /\ StepInv'
<1> DEFINE v == req[c].key.version
<1>1. v \in Nat
  BY Mine DEF Request, Key
<1>2. Retired(keys, v) \in SUBSET KeyRow
  BY <1>1, Mine DEF Retired, KeysTypeOK, KeyRow
<1>3. KeysTypeOK'
  BY <1>1, <1>2, Mine DEF Rotate, RotateFrom, KeysTypeOK, KeyRow
<1>4. StateType'
  BY Mine DEF Rotate, StateType, bucketVars, rowVars, dirVars, ghosts
<1>5. RecordOK([req[c] EXCEPT !.step = "dropping"])
  BY Mine DEF RecordOK, FileSteps, Steps, Request
<1> QED
  BY <1>3, <1>4, <1>5, Moves, Ends DEF Rotate, Steps

LEMMA DropType ==
  ASSUME TypeOK, StepInv, NEW c \in Callers, Drop(c)
  PROVE  TypeOK' /\ StepInv'
<1>1. KeysTypeOK'
  BY Mine DEF Drop, DropCached, KeysTypeOK, NoKey, Key
<1>2. StateType'
  BY Mine DEF Drop, StateType, bucketVars, rowVars, dirVars, ghosts
<1> QED
  BY <1>1, <1>2, Ends DEF Drop

LEMMA CrashType ==
  ASSUME TypeOK, StepInv, NEW p \in Procs, Crash(p)
  PROVE  TypeOK' /\ StepInv'
<1>1. KeysTypeOK'
  BY DEF TypeOK, Crash, DropCached, KeysTypeOK, NoKey, Key
<1>2. objects' \in SUBSET OnDisk(Path) /\ staged' \in SUBSET OnDisk(Chunks)
  BY ClosedType DEF Crash, TypeOK
<1>3. faults' \in Nat
  BY FaultType DEF Crash, TypeOK
<1>4. StateType'
  BY <1>2, <1>3
     DEF Crash, TypeOK, StateType, bucketVars, rowVars, ghosts
<1>5. req' = [c \in Callers |-> IF c \in Served(p) THEN Idle ELSE req[c]]
  BY DEF Crash
<1>6. req' \in [Callers -> Request] /\ StepInv'
  BY <1>5, IdleType, IdleOK DEF TypeOK, StepInv
<1> QED
  BY <1>1, <1>4, <1>6 DEF TypeOK, StateType

LEMMA BucketType ==
  ASSUME TypeOK, StepInv,
         DeleteBucket \/ \E s \in Settings : UpdateBucket(s)
  PROVE  TypeOK' /\ StepInv'
<1>1. KeysTypeOK'
  BY KeyStateType DEF DeleteBucket, UpdateBucket, TypeOK
<1>2. CASE DeleteBucket
  <2>1. Plain \in Path
    BY DEF Plain, Path
  <2>2. StateType'
    BY <1>2, <2>1 DEF DeleteBucket, TypeOK, StateType, dirVars, ghosts
  <2> QED
    BY <1>1, <1>2, <2>2 DEF DeleteBucket, TypeOK, StateType, StepInv
<1>3. CASE \E s \in Settings : UpdateBucket(s)
  BY <1>1, <1>3
     DEF UpdateBucket, TypeOK, StepInv, rowVars, dirVars, ghosts
<1> QED
  BY <1>2, <1>3

LEMMA ExpireKeyType ==
  ASSUME TypeOK, StepInv, NEW p \in Procs, ExpireKey(p)
  PROVE  TypeOK' /\ StepInv'
<1>1. KeysTypeOK'
  BY DEF ExpireKey, Expire, DropCached, KeysTypeOK, TypeOK, NoKey, Key
<1> QED
  BY <1>1
     DEF ExpireKey, TypeOK, StepInv, bucketVars, rowVars, dirVars, ghosts

LEMMA StepType ==
  ASSUME TypeOK, StepInv, NEW c \in Callers, Step(c)
  PROVE  TypeOK' /\ StepInv'
  BY EncodeType, CacheKeyType, WriteType, FillType, WriteFailsType,
     InsertType, DiscardType, RegisterType, MakeDirType, OpenChunkType,
     FillChunkType, ListType, ReadChunkType, RemoveType, CheckType, UpdateType, UnlinkType, EraseType, EnsureProjectKeyType,
     EnsureType, RotateProjectKeyType, RotateType, DropType
  DEF Step

LEMMA AnyRequestType ==
  ASSUME TypeOK, StepInv, NEW c \in Callers, NEW f \in Ids, AnyRequest(c, f)
  PROVE  TypeOK' /\ StepInv'
  BY CreateFileType, InitChunkedUploadType, DeleteFileType, CompleteType,
     UploadChunkType
  DEF AnyRequest

LEMMA NextType ==
  ASSUME TypeOK, StepInv, [Next]_vars
  PROVE  TypeOK' /\ StepInv'
<1>1. CASE UNCHANGED vars
  BY <1>1 DEF vars, keyVars, bucketVars, rowVars, dirVars, ghosts, TypeOK,
              KeysTypeOK, StepInv
<1> QED
  BY <1>1, StepType, AnyRequestType, BucketType, ExpireKeyType, CrashType
  DEF Next

\* Every reachable state has the declared types, and a request's record says
\* what its step needs.
THEOREM TypeTheorem == Spec => []TypeOK
<1>1. Init => TypeOK /\ StepInv
  BY InitType, IdleOK DEF Init, StepInv
<1>2. (TypeOK /\ StepInv) /\ [Next]_vars => (TypeOK /\ StepInv)'
  BY NextType
<1> QED
  BY <1>1, <1>2, PTL DEF Spec

-----------------------------------------------------------------------------
(* The keys.                                                               *)

\* Only two steps change the rows.
LEMMA KeysKept ==
  ASSUME [Next]_vars
  PROVE  \/ keys' = keys
         \/ \E c \in Callers : Ensure(c) \/ Rotate(c)
<1>1. CASE UNCHANGED vars
  BY <1>1 DEF vars, keyVars
<1>2. ASSUME NEW c \in Callers, Step(c)
      PROVE  keys' = keys \/ Ensure(c) \/ Rotate(c)
  BY <1>2 DEF Step, Encode, CacheKey, Write, Fill, WriteFails, Insert,
     Discard, Register, MakeDir, OpenChunk, FillChunk, List, ReadChunk,
     Remove, Check, Update, Unlink, Erase,
     EnsureProjectKey, RotateProjectKey, Drop, SetCached, DropCached, keyVars
<1>3. ASSUME NEW c \in Callers, NEW f \in Ids, AnyRequest(c, f)
      PROVE  keys' = keys
  BY <1>3 DEF AnyRequest, CreateFile, InitChunkedUpload, DeleteFile,
     CompleteChunkedUpload, UploadChunk, keyVars
<1>4. CASE DeleteBucket \/ \E s \in Settings : UpdateBucket(s)
  BY <1>4 DEF DeleteBucket, UpdateBucket, keyVars
<1>5. CASE \E p \in Procs : ExpireKey(p) \/ Crash(p)
  BY <1>5 DEF ExpireKey, Expire, Crash, DropCached
<1> QED
  BY <1>1, <1>2, <1>3, <1>4, <1>5 DEF Next

\* Retiring a version keeps every row's version and key.
LEMMA RetiredRows ==
  ASSUME NEW rows \in SUBSET KeyRow, NEW v \in Nat
  PROVE  /\ \A k \in rows : \E r \in Retired(rows, v) :
              r.version = k.version /\ r.dek = k.dek
         /\ \A r \in Retired(rows, v) : r \in KeyRow /\ \E k \in rows :
              /\ r.version = k.version /\ r.dek = k.dek
              /\ r = IF k.version = v THEN [k EXCEPT !.status = "retired"]
                     ELSE k
<1> DEFINE ret(k) == IF k.version = v THEN [k EXCEPT !.status = "retired"]
                     ELSE k
<1>1. \A k \in rows : /\ ret(k).version = k.version /\ ret(k).dek = k.dek
                      /\ ret(k) \in KeyRow
  BY DEF KeyRow
<1>2. Retired(rows, v) = {ret(k) : k \in rows}
  BY DEF Retired
<1> QED
  BY <1>1, <1>2

\* A version with a key keeps it.
LEMMA KeysGrow ==
  ASSUME TypeOK, [Next]_vars
  PROVE  /\ \A v \in Nat : HasVersion(v) => HasVersion(v)'
         /\ \A k \in keys : \E r \in keys' :
              r.version = k.version /\ r.dek = k.dek
<1>1. CASE keys' = keys
  BY <1>1 DEF HasVersion, Opens
<1>2. ASSUME NEW c \in Callers, Ensure(c)
      PROVE  keys \subseteq keys'
  BY <1>2 DEF Ensure, InsertFirstKey
<1>3. ASSUME NEW c \in Callers, Rotate(c)
      PROVE  \A k \in keys : \E r \in keys' :
               r.version = k.version /\ r.dek = k.dek
  <2> DEFINE v == req[c].key.version
  <2>1. v \in Nat /\ keys \in SUBSET KeyRow
    BY DEF TypeOK, KeysTypeOK, Request, Key
  <2>2. keys' = keys \/ Retired(keys, v) \subseteq keys'
    BY <1>3 DEF Rotate, RotateFrom
  <2> HIDE DEF v
  <2> QED
    BY <2>1, <2>2, RetiredRows
<1>4. \A k \in keys : \E r \in keys' : r.version = k.version /\ r.dek = k.dek
  BY <1>1, <1>2, <1>3, KeysKept
<1> QED
  BY <1>4 DEF HasVersion

LEMMA EnsureOrder ==
  ASSUME TypeOK, KeyOrder, NEW c \in Callers, Ensure(c)
  PROVE  KeyOrder'
<1> DEFINE new == [version |-> 1, dek |-> minted + 1, status |-> "active"]
<1>1. CASE keys' = keys
  BY <1>1 DEF KeyOrder, Active, HasVersion
<1>2. CASE ~HasVersion(1) /\ keys' = keys \cup {new}
  <2>1. \A k \in keys : k.version \in Nat
    BY DEF TypeOK, KeysTypeOK, KeyRow
  <2>2. \A k \in keys : 1 \in 1 .. k.version
    BY <2>1 DEF KeyOrder
  <2>3. keys' = {new}
    BY <1>2, <2>2 DEF KeyOrder
  <2>4. new.version = 1
    OBVIOUS
  <2> HIDE DEF new
  <2>5. \A v \in 1 .. 1 : v = 1
    OBVIOUS
  <2> QED
    BY <2>3, <2>4, <2>5 DEF KeyOrder, Active, HasVersion
<1> QED
  BY <1>1, <1>2 DEF Ensure, InsertFirstKey

LEMMA RotateOrder ==
  ASSUME TypeOK, KeyOrder, NEW c \in Callers, Rotate(c),
         HasVersion(req[c].key.version)
  PROVE  KeyOrder'
<1> DEFINE v   == req[c].key.version
           new == [version |-> v + 1, dek |-> minted + 1, status |-> "active"]
<1>1. CASE keys' = keys
  BY <1>1 DEF KeyOrder, Active, HasVersion
<1>2. CASE ~HasVersion(v + 1) /\ keys' = Retired(keys, v) \cup {new}
  <2>1. v \in Nat /\ keys \in SUBSET KeyRow
    BY DEF TypeOK, KeysTypeOK, Request, Key
  <2>2. \A k \in keys : k.version \in Nat
    BY <2>1 DEF KeyRow
  <2>3. new.version = v + 1 /\ new.status = "active"
    OBVIOUS
  <2>4. HasVersion(v) /\ v # 0
    BY DEF KeyOrder, HasVersion
  <2>5. \A k \in keys : k.version <= v
    <3>1. SUFFICES ASSUME NEW k \in keys, ~(k.version <= v) PROVE FALSE
      OBVIOUS
    <3>2. v + 1 \in 1 .. k.version
      BY <2>1, <2>2, <3>1
    <3> QED
      BY <3>2, <1>2 DEF KeyOrder
  <2> HIDE DEF v, new
  <2>6. \A r \in Retired(keys, v) : \E k \in keys :
          /\ r.version = k.version
          /\ r = IF k.version = v THEN [k EXCEPT !.status = "retired"] ELSE k
    BY <2>1, RetiredRows
  <2>7. \A k \in keys : \E r \in keys' : r.version = k.version
    BY <1>2, <2>1, RetiredRows
  <2>8. \A r \in Retired(keys, v) :
          r.version \in Nat /\ r.version # 0 /\ r.version <= v
    BY <2>2, <2>5, <2>6 DEF KeyOrder
  <2>9. \A r \in Retired(keys, v) : r.version = v => r.status = "retired"
    BY <2>1, <2>6 DEF KeyRow
  <2>10. \A j, k \in keys' : j.version = k.version => j = k
    <3>1. \A j, k \in Retired(keys, v) : j.version = k.version => j = k
      BY <2>6 DEF KeyOrder
    <3> QED
      BY <3>1, <1>2, <2>1, <2>3, <2>8
  <2>11. \A w \in 1 .. v + 1 : \E r \in keys' : r.version = w
    <3>1. \A w \in 1 .. v : \E k \in keys : k.version = w
      BY <2>4 DEF KeyOrder, HasVersion
    <3> QED
      BY <3>1, <2>7, <2>1, <2>3, <1>2
  <2>12. \A k \in keys' : k.version \in 1 .. v + 1
    BY <1>2, <2>1, <2>3, <2>8
  <2>13. \A k \in keys' : k.status = "active" => k.version = v + 1
    <3>1. \A r \in Retired(keys, v) : r.status # "active"
      <4>1. SUFFICES ASSUME NEW r \in Retired(keys, v), r.status = "active"
                     PROVE  FALSE
        OBVIOUS
      <4>2. PICK k \in keys :
              /\ r.version = k.version
              /\ r = IF k.version = v THEN [k EXCEPT !.status = "retired"]
                     ELSE k
        BY <2>6
      <4>3. k.version # v
        BY <2>9, <4>1, <4>2
      <4>4. k \in Active
        BY <4>1, <4>2, <4>3 DEF Active
      <4>5. k.version + 1 \in 1 .. v
        BY <4>3, <2>5, <2>2, <2>1
      <4>6. HasVersion(k.version + 1)
        BY <4>5, <2>4 DEF KeyOrder, HasVersion
      <4> QED
        BY <4>4, <4>6 DEF KeyOrder
    <3> QED
      BY <3>1, <1>2, <2>3
  <2>14. \A k \in keys' : k.version # 0 /\ k.version \in Nat
    BY <2>12, <2>1
  <2>15. \A k \in keys' : \A w \in 1 .. k.version : \E r \in keys' : r.version = w
    BY <2>11, <2>12, <2>1
  <2>16. \A k \in keys' : k.status = "active" =>
           ~\E r \in keys' : r.version = k.version + 1
    BY <2>12, <2>13, <2>1
  <2> QED
    BY <2>10, <2>14, <2>15, <2>16 DEF KeyOrder, Active, HasVersion
<1> QED
  BY <1>1, <1>2 DEF Rotate, RotateFrom

\* At most one row is active, and a version names one row.
LEMMA OrderOneActive ==
  ASSUME TypeOK, KeyOrder
  PROVE  OneActiveKey
<1>1. \A k \in keys : k.version \in Nat
  BY DEF TypeOK, KeysTypeOK, KeyRow
<1>2. \A j, k \in Active : j = k
  <2>1. ASSUME NEW j \in Active, NEW k \in Active, j.version < k.version
        PROVE  FALSE
    <3>1. j \in keys /\ k \in keys
      BY DEF Active
    <3>2. j.version + 1 \in 1 .. k.version
      BY <2>1, <3>1, <1>1
    <3> QED
      BY <3>1, <3>2 DEF KeyOrder
  <2>2. \A j, k \in Active : j.version = k.version
    BY <2>1, <1>1 DEF Active
  <2> QED
    BY <2>2 DEF KeyOrder, Active
<1>3. Cardinality(Active) <= 1
  <2>1. CASE Active = {}
    BY <2>1, FS_EmptySet
  <2>2. CASE \E k \in Active : TRUE
    <3>1. PICK k \in Active : TRUE
      BY <2>2
    <3>2. Active = {k}
      BY <1>2
    <3> QED
      BY <3>2, FS_Singleton
  <2> QED
    BY <2>1, <2>2
<1> QED
  BY <1>3 DEF KeyOrder, OneActiveKey

-----------------------------------------------------------------------------
(* What is sealed can be opened.                                           *)

\* A step after which every whole object is one that was whole before.
NoNewContent ==
  \A n \in objects' : n.state = "whole" =>
    \E o \in objects : /\ o.state = "whole" /\ o.file = n.file
                       /\ o.path = n.path /\ o.data = n.data
                       /\ o.sealed = n.sealed

\* Truncating and closing make no file whole.
LEMMA TruncatedNew ==
  ASSUME NEW disk, NEW f, NEW q, NEW c, NEW n \in Truncated(disk, f, q, c)
  PROVE  n \in disk \/ n.state # "whole"
  BY DEF Truncated, Without

LEMMA ClosedNew ==
  ASSUME NEW P, NEW disk \in SUBSET OnDisk(P), NEW cs, NEW torn,
         NEW n \in Closed(disk, cs, torn)
  PROVE  \E o \in disk :
           /\ n = ClosedBy(o, cs, torn)
           /\ n.file = o.file /\ n.path = o.path /\ n.data = o.data
           /\ n.sealed = o.sealed /\ n.open = o.open \ cs
           /\ n.state \in {o.state, "torn"}
           /\ o.open = {} /\ torn \subseteq cs => n.state = o.state
           /\ n.state = "empty" => o.state = "empty" /\ o.open \cap cs = {}
<1>1. PICK o \in disk : n = ClosedBy(o, cs, torn)
  BY DEF Closed
<1>2. o \in OnDisk(P)
  OBVIOUS
<1> QED
  BY <1>1, <1>2 DEF ClosedBy, OnDisk

\* Every step but Fill adds no content.
LEMMA ClosedKept ==
  ASSUME TypeOK, NEW cs, NEW torn, objects' = Closed(objects, cs, torn)
  PROVE  NoNewContent
<1>1. objects \in SUBSET OnDisk(Path)
  BY DEF TypeOK
<1> SUFFICES ASSUME NEW n \in objects', n.state = "whole"
             PROVE  \E o \in objects :
                      /\ o.state = "whole" /\ o.file = n.file
                      /\ o.path = n.path /\ o.data = n.data
                      /\ o.sealed = n.sealed
  BY DEF NoNewContent
<1>2. PICK o \in objects :
        /\ n.file = o.file /\ n.path = o.path /\ n.data = o.data
        /\ n.sealed = o.sealed /\ n.state \in {o.state, "torn"}
  BY <1>1, ClosedNew
<1> QED
  BY <1>2

LEMMA SubsetKept ==
  ASSUME objects' \subseteq objects
  PROVE  NoNewContent
  BY DEF NoNewContent

LEMMA StaysKnown ==
  ASSUME TypeOK, [Next]_vars
  PROVE  /\ \A o : Decodes(o) => Decodes(o)'
         /\ \A p \in Procs : cache'[p] = cache[p] /\ Known(cache[p]) =>
              Known(cache[p])'
         /\ \A c \in Callers : req'[c] = req[c] /\ Holds(req[c]) =>
              Holds(req[c])'
<1>1. \A k \in keys : \E r \in keys' : r.version = k.version /\ r.dek = k.dek
  BY KeysGrow
<1>2. \A o : Decodes(o) => Decodes(o)'
  BY <1>1 DEF Decodes, Opens
<1>3. ASSUME NEW p \in Procs, cache'[p] = cache[p], Known(cache[p])
      PROVE  Known(cache[p])'
  BY <1>1, <1>3 DEF Known, Opens
<1>4. ASSUME NEW c \in Callers, req'[c] = req[c], Holds(req[c])
      PROVE  Holds(req[c])'
  <2>1. req[c].step \in {"caching", "writing", "filling"} => Known(req[c].key)'
    BY <1>1, <1>4 DEF Known, Opens, Holds
  <2>2. req[c].step = "rotating" => HasVersion(req[c].key.version)'
    BY <1>1, <1>4 DEF HasVersion, Holds
  <2> QED
    BY <1>4, <2>1, <2>2 DEF Holds
<1> QED
  BY <1>2, <1>3, <1>4

\* What a step must show: new objects, cached keys and records are in order.
LEMMA SealedStep ==
  ASSUME TypeOK, SealedInv, [Next]_vars, TypeOK',
         \A n \in objects' : n.state = "whole" /\ ~Decodes(n)' =>
           \E o \in objects : /\ o.state = "whole" /\ o.path = n.path
                              /\ o.sealed = n.sealed,
         \A p \in Procs : cache'[p] = cache[p] \/ Known(cache[p])',
         \A c \in Callers : req'[c] = req[c] \/ Holds(req[c])'
  PROVE  SealedInv'
<1>1. \A n \in objects' : n.state = "whole" => Decodes(n)'
  <2>1. SUFFICES ASSUME NEW n \in objects', n.state = "whole", ~Decodes(n)'
                 PROVE  FALSE
    OBVIOUS
  <2>2. PICK o \in objects : /\ o.state = "whole" /\ o.path = n.path
                             /\ o.sealed = n.sealed
    BY <2>1
  <2>3. Decodes(o)'
    BY <2>2, StaysKnown DEF SealedInv
  <2> QED
    BY <2>1, <2>2, <2>3 DEF Decodes
<1>2. \A p \in Procs : Known(cache[p])'
  BY StaysKnown DEF SealedInv
<1>3. \A c \in Callers : Holds(req[c])'
  BY StaysKnown DEF SealedInv
<1> QED
  BY <1>1, <1>2, <1>3 DEF SealedInv

\* A step of one request that seals nothing and takes no key.
LEMMA SealedQuiet ==
  ASSUME TypeOK, SealedInv, [Next]_vars, TypeOK', NEW c \in Callers,
         NoNewContent, UNCHANGED cache,
         req'[c].step \notin {"listing", "reading", "removing", "checking",
                              "encoding", "caching", "writing", "filling",
                              "rotating"},
         \A d \in Callers \ {c} : req'[d] = req[d]
  PROVE  SealedInv'
<1>1. Holds(req[c])'
  BY DEF Holds
<1> QED
  BY <1>1, SealedStep DEF NoNewContent

\* A request that ends, or begins without a key.
LEMMA SealedAnswer ==
  ASSUME TypeOK, SealedInv, [Next]_vars, TypeOK', NEW c \in Callers,
         Answer(c), NoNewContent, UNCHANGED cache
  PROVE  SealedInv'
  BY AnswerStep, SealedQuiet

LEMMA SealedGo ==
  ASSUME TypeOK, SealedInv, [Next]_vars, TypeOK', NEW c \in Callers,
         NEW s \in {"inserting", "discarding", "opening", "storing",
                    "updating", "erasing", "dropping"},
         Go(c, s), NoNewContent, UNCHANGED cache
  PROVE  SealedInv'
<1>1. s \in Steps
  BY DEF Steps
<1>2. /\ req'[c].step = s
      /\ \A d \in Callers \ {c} : req'[d] = req[d]
  BY <1>1, GoStep
<1> QED
  BY <1>2, SealedQuiet

LEMMA SealedStart ==
  ASSUME TypeOK, SealedInv, [Next]_vars, TypeOK', NEW c \in Callers,
         NEW r \in Request, Start(c, r),
         r.step \notin {"caching", "writing", "filling", "rotating"},
         r.step \in {"listing", "reading", "removing", "checking", "encoding"}
           => r.key = NoKey,
         UNCHANGED <<objects, cache>>
  PROVE  SealedInv'
<1>1. /\ req'[c] = r
      /\ \A d \in Callers \ {c} : req'[d] = req[d]
  BY StartStep
<1>2. Holds(req[c])'
  BY <1>1 DEF Holds
<1> QED
  BY <1>1, <1>2, SealedStep

LEMMA SealedRequests ==
  ASSUME TypeOK, StepInv, SealedInv, [Next]_vars, TypeOK',
         NEW c \in Callers, NEW f \in Ids, AnyRequest(c, f)
  PROVE  SealedInv'
<1>1. UNCHANGED <<objects, cache>>
  BY DEF AnyRequest, CreateFile, InitChunkedUpload, DeleteFile,
         CompleteChunkedUpload, UploadChunk, keyVars
<1>2. ASSUME NEW r \in Request, Start(c, r), r.key = NoKey,
             r.step \notin {"caching", "writing", "filling", "rotating"}
      PROVE  SealedInv'
  BY <1>1, <1>2, SealedStart
<1>3. setting \in [gz : BOOLEAN, enc : BOOLEAN]
  BY SettingType
<1>4. at[f] \in {"none", "staged", "final"} /\ path[f] \in Path
  BY DEF TypeOK
<1>5. CASE CreateFile(c, f)
  <2> DEFINE r == [Idle EXCEPT !.step = "encoding", !.op = "create",
                               !.file = f, !.set = setting, !.data = Chunks]
  <2>1. r \in Request /\ r.step = "encoding" /\ r.key = NoKey
    BY <1>3 DEF Idle, Request, Steps, NoKey, NoSetting, Key, Plain, Path
  <2>2. Start(c, r)
    BY <1>5 DEF CreateFile
  <2> QED
    BY <2>1, <2>2, <1>2
<1>6. CASE InitChunkedUpload(c, f)
  <2> DEFINE r == [Idle EXCEPT !.step = "registering", !.op = "other",
                               !.file = f]
  <2>1. r \in Request /\ r.step = "registering" /\ r.key = NoKey
    BY DEF Idle, Request, Steps, NoKey, NoSetting, Key, Plain, Path
  <2>2. Start(c, r)
    BY <1>6 DEF InitChunkedUpload
  <2> QED
    BY <2>1, <2>2, <1>2
<1>7. CASE DeleteFile(c, f)
  <2> DEFINE r == [Idle EXCEPT !.step = "unlinking", !.op = "other",
                               !.file = f, !.was = at[f], !.path = path[f]]
  <2>1. r \in Request /\ r.step = "unlinking" /\ r.key = NoKey
    BY <1>4 DEF Idle, Request, Steps, NoKey, NoSetting, Key, Plain, Path
  <2>2. Start(c, r)
    BY <1>7 DEF DeleteFile
  <2> QED
    BY <2>1, <2>2, <1>2
<1>8. CASE CompleteChunkedUpload(c, f)
  <2> DEFINE r == [Idle EXCEPT !.step = "listing", !.op = "complete",
                               !.file = f]
  <2>1. r \in Request /\ r.step = "listing" /\ r.key = NoKey
    BY DEF Idle, Request, Steps, NoKey, NoSetting, Key, Plain, Path
  <2>2. Start(c, r)
    BY <1>8 DEF CompleteChunkedUpload
  <2> QED
    BY <2>1, <2>2, <1>2
<1>9. ASSUME NEW i \in Chunks, UploadChunk(c, f, i)
      PROVE  SealedInv'
  <2> DEFINE r == [Idle EXCEPT !.step = "staging", !.op = "other",
                               !.file = f, !.data = {i}]
  <2>1. r \in Request /\ r.step = "staging" /\ r.key = NoKey
    BY DEF Idle, Request, Steps, NoKey, NoSetting, Key, Plain, Path
  <2>2. Start(c, r)
    BY <1>9 DEF UploadChunk
  <2> QED
    BY <2>1, <2>2, <1>2
<1> QED
  BY <1>5, <1>6, <1>7, <1>8, <1>9 DEF AnyRequest

LEMMA EncodeSealed ==
  ASSUME TypeOK, KeyOrder, SealedInv, [Next]_vars, TypeOK',
         NEW c \in Callers, Encode(c)
  PROVE  SealedInv'
<1>1. UNCHANGED <<objects, keys, cache>> /\ req[c].step = "encoding"
  BY DEF Encode, keyVars, At
<1>2. req[c] \in Request /\ req[c].key = NoKey
  BY <1>1 DEF TypeOK, SealedInv, Holds
<1>3. CASE Answer(c)
  BY <1>1, <1>3, SealedAnswer, SubsetKept
<1>4. CASE Go(c, "writing")
  <2>1. /\ req'[c].step = "writing" /\ req'[c].key = NoKey
        /\ \A d \in Callers \ {c} : req'[d] = req[d]
    BY <1>2, <1>4, GoStep DEF Steps
  <2>2. Holds(req[c])'
    BY <2>1 DEF Holds, Known
  <2> QED
    BY <1>1, <2>1, <2>2, SealedStep
<1>5. ASSUME NEW s \in {"writing", "caching"}, NEW key \in Key, Known(key),
             req' = [req EXCEPT ![c].step = s, ![c].key = key]
      PROVE  SealedInv'
  <2>1. /\ req'[c].step = s /\ req'[c].key = key
        /\ \A d \in Callers \ {c} : req'[d] = req[d]
    BY <1>2, <1>5 DEF TypeOK, Request
  <2>2. Known(req[c].key)'
    BY <2>1, <1>1, <1>5 DEF Known, Opens
  <2>3. Holds(req[c])'
    BY <2>1, <2>2 DEF Holds
  <2> QED
    BY <1>1, <2>1, <2>3, SealedStep
<1>6. CASE req' = [req EXCEPT ![c].step = "writing", ![c].key = cache[ProcOf[c]]]
  <2>1. cache[ProcOf[c]] \in Key /\ Known(cache[ProcOf[c]])
    BY CallersAssumption DEF TypeOK, KeysTypeOK, SealedInv
  <2> QED
    BY <2>1, <1>5, <1>6
<1>7. CASE \E k \in Active : req' = [req EXCEPT ![c].step = "caching",
                                               ![c].key = KeyOf(k)]
  <2>1. PICK k \in Active : req' = [req EXCEPT ![c].step = "caching",
                                              ![c].key = KeyOf(k)]
    BY <1>7
  <2>2. KeyOf(k) \in Key
    BY DEF TypeOK, KeysTypeOK, Active, KeyRow, KeyOf, Key
  <2>3. Known(KeyOf(k))
    BY DEF Known, Opens, KeyOf, Active
  <2> QED
    BY <2>1, <2>2, <2>3, <1>5
<1> QED
  BY <1>3, <1>4, <1>6, <1>7 DEF Encode

LEMMA CacheKeySealed ==
  ASSUME TypeOK, SealedInv, [Next]_vars, TypeOK', NEW c \in Callers,
         CacheKey(c)
  PROVE  SealedInv'
<1>1. /\ req[c].step = "caching" /\ UNCHANGED <<objects, keys>>
      /\ Go(c, "writing")
      /\ cache' = [cache EXCEPT ![ProcOf[c]] = req[c].key]
  BY DEF CacheKey, SetCached, At
<1>2. Known(req[c].key)
  BY <1>1 DEF SealedInv, Holds
<1>3. /\ req'[c].step = "writing" /\ req'[c].key = req[c].key
      /\ \A d \in Callers \ {c} : req'[d] = req[d]
  BY <1>1, GoStep DEF Steps
<1>4. Holds(req[c])'
  BY <1>1, <1>2, <1>3 DEF Holds, Known, Opens
<1>5. ASSUME NEW p \in Procs
      PROVE  cache'[p] = cache[p] \/ cache'[p] = req[c].key
  BY <1>1 DEF TypeOK, KeysTypeOK
<1>6. \A p \in Procs : cache'[p] = cache[p] \/ Known(cache[p])'
  BY <1>1, <1>2, <1>5 DEF Known, Opens
<1> QED
  BY <1>1, <1>3, <1>4, <1>6, SealedStep

LEMMA WriteSealed ==
  ASSUME TypeOK, SealedInv, [Next]_vars, TypeOK', NEW c \in Callers, Write(c)
  PROVE  SealedInv'
<1>1. /\ req[c].step = "writing" /\ Go(c, "filling")
      /\ UNCHANGED <<keys, cache>>
      /\ objects' = Truncated(objects, req[c].file, EncodedPath(c), c)
  BY DEF Write, At, keyVars
<1>2. \A n \in objects' : n \in objects \/ n.state # "whole"
  BY <1>1, TruncatedNew
<1>3. /\ req'[c].step = "filling" /\ req'[c].key = req[c].key
      /\ \A d \in Callers \ {c} : req'[d] = req[d]
  BY <1>1, GoStep DEF Steps
<1>4. Known(req[c].key)
  BY <1>1 DEF SealedInv, Holds
<1>5. Holds(req[c])'
  BY <1>1, <1>3, <1>4 DEF Holds, Known, Opens
<1> QED
  BY <1>1, <1>2, <1>3, <1>5, SealedStep

\* A file that was filled, whole or not.
LEMMA WrittenFields ==
  ASSUME NEW P, NEW o \in OnDisk(P), NEW c, NEW data, NEW sealed
  PROVE  \A whole \in BOOLEAN :
           LET n == WrittenBy(o, c, data, sealed, whole)
           IN  /\ n.file = o.file /\ n.path = o.path /\ n.open = o.open \ {c}
               /\ n.state \in {"whole", "torn"}
               /\ whole => n.state = "whole"
               /\ n.state = "whole" => n.data = data /\ n.sealed = sealed
<1>1. SUFFICES ASSUME NEW whole \in BOOLEAN, NEW n,
                      n = WrittenBy(o, c, data, sealed, whole)
               PROVE  /\ n.file = o.file /\ n.path = o.path
                      /\ n.open = o.open \ {c}
                      /\ n.state \in {"whole", "torn"}
                      /\ whole => n.state = "whole"
                      /\ n.state = "whole" => n.data = data /\ n.sealed = sealed
  OBVIOUS
<1>2. CASE whole
  BY <1>1, <1>2 DEF WrittenBy, OnDisk
<1>3. CASE ~whole
  BY <1>1, <1>3 DEF WrittenBy, OnDisk
<1> QED
  BY <1>2, <1>3

\* What is filled has what the request carries, sealed with its key. It is
\* whole if nobody else had opened it since.
LEMMA FillNew ==
  ASSUME TypeOK, NEW c \in Callers, Fill(c), NEW n \in objects',
         NEW f, f = req[c].file, NEW q, q = EncodedPath(c)
  PROVE  \/ n \in objects \ OpenBy(objects, f, q, c)
         \/ \E o \in OpenBy(objects, f, q, c) :
              /\ n.file = f /\ n.path = q /\ n.open = o.open \ {c}
              /\ n.state \in {"whole", "torn"}
              /\ Alone(objects, f, q, c) => n.state = "whole"
              /\ n.state = "whole" => /\ n.data = req[c].data
                                      /\ n.sealed = req[c].key.dek
<1> DEFINE data == req[c].data
           dek == req[c].key.dek
<1>1. PICK whole \in BOOLEAN :
        /\ Alone(objects, f, q, c) => whole
        /\ objects' = (objects \ OpenBy(objects, f, q, c)) \cup
              {WrittenBy(o, c, data, dek, whole) : o \in OpenBy(objects, f, q, c)}
  BY DEF Fill, Filled
<1> HIDE DEF data, dek
<1>2. CASE n \in objects \ OpenBy(objects, f, q, c)
  BY <1>2
<1>3. ASSUME NEW o \in OpenBy(objects, f, q, c),
             n = WrittenBy(o, c, data, dek, whole)
      PROVE  /\ n.file = f /\ n.path = q /\ n.open = o.open \ {c}
             /\ n.state \in {"whole", "torn"}
             /\ Alone(objects, f, q, c) => n.state = "whole"
             /\ n.state = "whole" => n.data = data /\ n.sealed = dek
  <2>1. o \in OnDisk(Path) /\ o.file = f /\ o.path = q
    BY DEF OpenBy, Named, TypeOK
  <2> QED
    BY <1>1, <1>3, <2>1, WrittenFields
<1> QED
  BY <1>1, <1>2, <1>3 DEF data, dek

LEMMA FillSealed ==
  ASSUME TypeOK, KeyOrder, SealedInv, [Next]_vars, TypeOK',
         NEW c \in Callers, Fill(c)
  PROVE  SealedInv'
<1> DEFINE s == IF req[c].op = "create" THEN "inserting" ELSE "updating"
<1>1. /\ req[c].step = "filling" /\ UNCHANGED <<keys, cache>> /\ Go(c, s)
      /\ objects \in SUBSET OnDisk(Path)
  BY DEF Fill, At, keyVars, TypeOK
<1>3. Known(req[c].key)
  BY <1>1 DEF SealedInv, Holds
<1>4. ASSUME NEW n \in objects', n.state = "whole", n \notin objects
      PROVE  Decodes(n)'
  <2>1. n.path = EncodedPath(c) /\ n.sealed = req[c].key.dek
    <3> DEFINE g == req[c].file
               q == EncodedPath(c)
    <3>1. \/ n \in objects \ OpenBy(objects, g, q, c)
          \/ n.path = q /\ (n.state = "whole" => n.sealed = req[c].key.dek)
      BY FillNew
    <3> QED
      BY <3>1, <1>4
  <2>2. n.path.version = req[c].key.version
    BY <2>1 DEF EncodedPath
  <2>3. CASE req[c].key = NoKey
    BY <2>1, <2>2, <2>3 DEF Decodes, NoKey
  <2>4. CASE Opens(req[c].key)
    BY <1>1, <2>1, <2>2, <2>4 DEF Decodes, Opens, KeyOrder
  <2> QED
    BY <1>3, <2>3, <2>4 DEF Known
<1>5. /\ req'[c].step = s
      /\ \A d \in Callers \ {c} : req'[d] = req[d]
  <2>1. s \in Steps
    BY DEF Steps
  <2> HIDE DEF s
  <2> QED
    BY <1>1, <2>1, GoStep
<1>6. Holds(req[c])'
  BY <1>5 DEF Holds
<1> QED
  BY <1>1, <1>4, <1>5, <1>6, SealedStep

LEMMA AssembleSealed ==
  ASSUME TypeOK, StepInv, SealedInv, [Next]_vars, TypeOK',
         NEW c \in Callers, List(c) \/ ReadChunk(c) \/ Remove(c) \/ Check(c)
  PROVE  SealedInv'
<1>1. UNCHANGED <<objects, cache>>
  BY DEF List, ReadChunk, Remove, Check, keyVars
<1>2. req[c] \in Request /\ req[c].key = NoKey
  BY DEF List, ReadChunk, Remove, Check, At, TypeOK, SealedInv, Holds
<1>3. CASE Answer(c)
  BY <1>1, <1>3, SealedAnswer, SubsetKept
<1>4. CASE UNCHANGED req
  BY <1>1, <1>4, SealedStep
<1>5. ASSUME req'[c].key = NoKey, \A d \in Callers \ {c} : req'[d] = req[d],
             req'[c].step \in {"reading", "removing", "checking", "encoding"}
      PROVE  SealedInv'
  <2>1. Holds(req[c])'
    BY <1>5 DEF Holds
  <2> QED
    BY <1>1, <1>5, <2>1, SealedStep
<1>6. ASSUME NEW s \in {"removing", "checking"}, Go(c, s)
      PROVE  SealedInv'
  <2>1. /\ req'[c].step = s /\ req'[c].key = NoKey
        /\ \A d \in Callers \ {c} : req'[d] = req[d]
    BY <1>2, <1>6, GoStep DEF Steps
  <2> QED
    BY <2>1, <1>5
<1>7. CASE Check(c) /\ ~Answer(c)
  <2>1. req' = [req EXCEPT ![c].step = "encoding", ![c].set = setting]
    BY <1>7 DEF Check
  <2>2. /\ req'[c].step = "encoding" /\ req'[c].key = NoKey
        /\ \A d \in Callers \ {c} : req'[d] = req[d]
    BY <2>1, <1>2 DEF TypeOK, Request
  <2> QED
    BY <2>2, <1>5
<1>8. CASE List(c) /\ ~Answer(c)
  <2>1. PICK t : req' = [req EXCEPT ![c].step = "reading", ![c].todo = t]
    BY <1>8 DEF List
  <2>2. /\ req'[c].step = "reading" /\ req'[c].key = NoKey
        /\ \A d \in Callers \ {c} : req'[d] = req[d]
    BY <2>1, <1>2 DEF TypeOK, Request
  <2> QED
    BY <2>2, <1>5
<1>9. CASE ReadChunk(c) /\ ~Answer(c) /\ ~Go(c, "removing")
  <2>1. PICK t, b : req' = [req EXCEPT ![c].todo = t, ![c].data = b]
    BY <1>9 DEF ReadChunk
  <2>2. req[c].step = "reading"
    BY <1>9 DEF ReadChunk, At
  <2>3. /\ req'[c].step = "reading" /\ req'[c].key = NoKey
        /\ \A d \in Callers \ {c} : req'[d] = req[d]
    BY <2>1, <2>2, <1>2 DEF TypeOK, Request
  <2> QED
    BY <2>3, <1>5
<1>10. CASE Remove(c)
  BY <1>10, <1>4, <1>6 DEF Remove
<1> QED
  BY <1>3, <1>6, <1>7, <1>8, <1>9, <1>10

LEMMA RotateProjectKeySealed ==
  ASSUME TypeOK, SealedInv, [Next]_vars, TypeOK', NEW c \in Callers,
         RotateProjectKey(c)
  PROVE  SealedInv'
<1>1. PICK k \in Active :
        Start(c, [Idle EXCEPT !.step = "rotating", !.op = "other",
                              !.key = KeyOf(k)])
  BY DEF RotateProjectKey
<1> DEFINE r == [Idle EXCEPT !.step = "rotating", !.op = "other",
                             !.key = KeyOf(k)]
<1>2. KeyOf(k) \in Key /\ KeyOf(k).version = k.version /\ k \in keys
  BY DEF TypeOK, KeysTypeOK, Active, KeyRow, KeyOf, Key
<1>3. r \in Request /\ r.step = "rotating" /\ r.key = KeyOf(k)
  BY <1>2 DEF Idle, Request, Steps, NoKey, NoSetting, Plain, Path
<1> HIDE DEF r
<1>4. req'[c] = r /\ \A d \in Callers \ {c} : req'[d] = req[d]
  BY <1>1, <1>3, StartStep DEF r
<1>5. UNCHANGED <<keys, objects, cache>>
  BY DEF RotateProjectKey, keyVars
<1>6. Holds(req[c])'
  BY <1>2, <1>3, <1>4, <1>5 DEF Holds, HasVersion
<1> QED
  BY <1>4, <1>5, <1>6, SealedStep

LEMMA ForgetSealed ==
  ASSUME TypeOK, SealedInv, [Next]_vars, TypeOK', NoNewContent,
         NEW p \in Procs, cache' = [cache EXCEPT ![p] = NoKey],
         \A c \in Callers : req'[c] = req[c] \/ req'[c].step = "idle"
  PROVE  SealedInv'
<1>1. \A q \in Procs : cache'[q] = cache[q] \/ Known(cache[q])'
  BY DEF TypeOK, KeysTypeOK, Known
<1>2. \A c \in Callers : req'[c] = req[c] \/ Holds(req[c])'
  BY DEF Holds
<1> QED
  BY <1>1, <1>2, SealedStep DEF NoNewContent

LEMMA StepSealed ==
  ASSUME TypeOK, StepInv, KeyOrder, SealedInv, [Next]_vars, TypeOK',
         NEW c \in Callers, Step(c)
  PROVE  SealedInv'
<1>1. CASE Encode(c) \/ CacheKey(c) \/ Write(c) \/ Fill(c)
  BY <1>1, EncodeSealed, CacheKeySealed, WriteSealed, FillSealed
<1>2. CASE WriteFails(c)
  BY <1>2, ClosedKept, SealedAnswer DEF WriteFails, keyVars
<1>3. CASE Insert(c)
  <2>1. UNCHANGED <<objects, cache>> /\ (Answer(c) \/ Go(c, "discarding"))
    BY <1>3 DEF Insert, keyVars
  <2> QED
    BY <2>1, SealedAnswer, SealedGo, SubsetKept
<1>4. CASE Discard(c) \/ Erase(c)
  <2>1. objects' \subseteq objects /\ UNCHANGED cache /\ Answer(c)
    BY <1>4 DEF Discard, Erase, Without, keyVars
  <2> QED
    BY <2>1, SealedAnswer, SubsetKept
<1>5. CASE Register(c) \/ FillChunk(c) \/ Update(c)
  BY <1>5, SealedAnswer, SubsetKept DEF Register, FillChunk, Update, keyVars
<1>13. CASE MakeDir(c) \/ OpenChunk(c)
  <2>1. /\ UNCHANGED <<objects, cache>>
        /\ Answer(c) \/ Go(c, "opening") \/ Go(c, "storing")
    BY <1>13 DEF MakeDir, OpenChunk, keyVars
  <2> QED
    BY <2>1, SealedAnswer, SealedGo, SubsetKept
<1>6. CASE List(c) \/ ReadChunk(c) \/ Remove(c) \/ Check(c)
  BY <1>6, AssembleSealed
<1>7. CASE Unlink(c)
  <2>1. UNCHANGED <<objects, cache>> /\ Go(c, "erasing")
    BY <1>7 DEF Unlink, keyVars
  <2> QED
    BY <2>1, SealedGo, SubsetKept
<1>8. CASE EnsureProjectKey(c)
  <2> DEFINE r == [Idle EXCEPT !.step = "ensuring", !.op = "other"]
  <2>1. r \in Request /\ r.step = "ensuring"
    BY DEF Idle, Request, Steps, NoKey, NoSetting, Key, Plain, Path
  <2>2. Start(c, r) /\ UNCHANGED <<objects, cache>>
    BY <1>8 DEF EnsureProjectKey, keyVars
  <2> QED
    BY <2>1, <2>2, SealedStart
<1>9. CASE Ensure(c)
  BY <1>9, SealedAnswer, SubsetKept DEF Ensure, InsertFirstKey
<1>10. CASE RotateProjectKey(c)
  BY <1>10, RotateProjectKeySealed
<1>11. CASE Rotate(c)
  <2>1. UNCHANGED <<objects, cache>> /\ (Answer(c) \/ Go(c, "dropping"))
    BY <1>11 DEF Rotate, RotateFrom
  <2> QED
    BY <2>1, SealedAnswer, SealedGo, SubsetKept
<1>12. CASE Drop(c)
  <2>1. /\ UNCHANGED objects /\ Answer(c)
        /\ cache' = [cache EXCEPT ![ProcOf[c]] = NoKey]
    BY <1>12 DEF Drop, DropCached
  <2> QED
    BY <2>1, AnswerStep, ForgetSealed, CallersAssumption, SubsetKept
<1> QED
  BY <1>1, <1>2, <1>3, <1>4, <1>5, <1>6, <1>7, <1>8, <1>9, <1>10, <1>11,
     <1>12, <1>13 DEF Step

LEMMA NextSealed ==
  ASSUME TypeOK, StepInv, KeyOrder, SealedInv, [Next]_vars
  PROVE  SealedInv'
<1>1. TypeOK'
  BY NextType
<1>2. CASE UNCHANGED vars
  BY <1>1, <1>2, SealedStep DEF vars, keyVars
<1>3. ASSUME NEW p \in Procs, ExpireKey(p)
      PROVE  SealedInv'
  BY <1>1, <1>3, ForgetSealed, SubsetKept DEF ExpireKey, Expire, DropCached
<1>4. ASSUME NEW p \in Procs, Crash(p)
      PROVE  SealedInv'
  <2>2. NoNewContent
    BY <1>4, ClosedKept DEF Crash
  <2>3. cache' = [cache EXCEPT ![p] = NoKey]
    BY <1>4 DEF Crash, DropCached
  <2>4. \A c \in Callers : req'[c] = req[c] \/ req'[c].step = "idle"
    BY <1>4, IdleType DEF Crash
  <2> QED
    BY <1>1, <2>2, <2>3, <2>4, ForgetSealed
<1>5. CASE DeleteBucket \/ \E s \in Settings : UpdateBucket(s)
  BY <1>1, <1>5, SealedStep DEF DeleteBucket, UpdateBucket, keyVars
<1> QED
  BY <1>1, <1>2, <1>3, <1>4, <1>5, StepSealed, SealedRequests DEF Next

LEMMA NextOrder ==
  ASSUME TypeOK, KeyOrder, SealedInv, [Next]_vars
  PROVE  KeyOrder'
<1>1. CASE keys' = keys
  BY <1>1 DEF KeyOrder, Active, HasVersion
<1>2. ASSUME NEW c \in Callers, Rotate(c)
      PROVE  KeyOrder'
  <2>1. HasVersion(req[c].key.version)
    BY <1>2 DEF Rotate, At, SealedInv, Holds
  <2> QED
    BY <1>2, <2>1, RotateOrder
<1> QED
  BY <1>1, <1>2, EnsureOrder, KeysKept

-----------------------------------------------------------------------------
\* Types, the requests' records, the order of the keys and what they open.
Base == TypeOK /\ StepInv /\ KeyOrder /\ SealedInv

LEMMA InitBase == Init => Base
<1> SUFFICES ASSUME Init PROVE Base
  OBVIOUS
<1>1. TypeOK /\ StepInv
  BY InitType, IdleOK DEF Init, StepInv
<1>2. KeyOrder
  BY DEF Init, KeysInit, KeyOrder, Active, HasVersion
<1>3. SealedInv
  BY IdleType DEF Init, KeysInit, SealedInv, Known, Holds
<1> QED
  BY <1>1, <1>2, <1>3 DEF Base

LEMMA NextBase == Base /\ [Next]_vars => Base'
  BY NextType, NextOrder, NextSealed DEF Base

\* However creations and rotations of the project's key interleave, in any
\* number of processes, no version gets two keys and at most one row is
\* active: the check-then-insert of dek.go is decided by the primary key.
THEOREM OneActiveKeyTheorem == Spec => []OneActiveKey
<1>1. Base => OneActiveKey
  BY OrderOneActive DEF Base
<1> QED
  BY <1>1, InitBase, NextBase, PTL DEF Spec

\* Every object that has all the bytes of a write can be decoded from its path,
\* at any time after it was sealed: the row of the key version its path names
\* is still there and holds the key that sealed it, though another process may
\* have rotated the key while this one sealed with a cached copy.
AllDecode == \A o \in objects : o.state = "whole" => Decodes(o)
THEOREM AllDecodeTheorem == Spec => []AllDecode
<1>1. Base => AllDecode
  BY DEF Base, SealedInv, AllDecode
<1> QED
  BY <1>1, InitBase, NextBase, PTL DEF Spec

-----------------------------------------------------------------------------
(* Requests that go on.                                                    *)

\* The steps that follow each other without touching rows or objects.
Onward(s, t) ==
  \/ s = "encoding" /\ t \in {"caching", "writing"}
  \/ s = "caching" /\ t = "writing"
  \/ s = "staging" /\ t = "opening"
  \/ s = "opening" /\ t = "storing"
  \/ s \in {"listing", "reading"} /\ t = "reading"
  \/ s = "reading" /\ t = "removing"
  \/ s = "removing" /\ t = "checking"
  \/ s = "checking" /\ t = "encoding"

\* A request that goes on, with what it carries unless it is reading.
Continued(c) ==
  /\ req'[c].file = req[c].file /\ req'[c].op = req[c].op
  /\ Onward(req[c].step, req'[c].step)
  /\ req'[c].step # "reading" => req'[c].data = req[c].data

LEMMA Continues ==
  ASSUME TypeOK, StepInv, NEW c \in Callers,
         \/ Encode(c) \/ CacheKey(c) \/ MakeDir(c) \/ OpenChunk(c)
         \/ FillChunk(c) \/ List(c) \/ ReadChunk(c) \/ Remove(c) \/ Check(c)
  PROVE  /\ \A d \in Callers \ {c} : req'[d] = req[d]
         /\ req'[c].step = "idle" \/ req'[c] = req[c] \/ Continued(c)
<1> DEFINE Goal == /\ \A d \in Callers \ {c} : req'[d] = req[d]
                   /\ \/ req'[c].step = "idle" \/ req'[c] = req[c]
                      \/ Continued(c)
<1> SUFFICES Goal
  OBVIOUS
<1>1. req[c] \in Request /\ RecordOK(req[c])
  BY Mine
<1>2. CASE Answer(c)
  BY <1>2, AnswerStep
<1>3. CASE UNCHANGED req
  BY <1>3
<1>4. ASSUME NEW r, req' = [req EXCEPT ![c] = r],
             r.file = req[c].file, r.op = req[c].op,
             Onward(req[c].step, r.step),
             r.step # "reading" => r.data = req[c].data
      PROVE  Goal
  <2>1. req'[c] = r /\ \A d \in Callers \ {c} : req'[d] = req[d]
    BY <1>4 DEF TypeOK
  <2> QED
    BY <2>1, <1>4 DEF Continued
<1>5. ASSUME NEW s \in Steps, Go(c, s), Onward(req[c].step, s), s # "reading"
      PROVE  Goal
  BY <1>5, GoStep DEF Continued
<1> HIDE DEF Goal
<1>6. CASE Encode(c)
  <2>1. req[c].step = "encoding"
    BY <1>6 DEF Encode, At
  <2>2. ASSUME NEW s \in {"writing", "caching"}, NEW key,
               req' = [req EXCEPT ![c].step = s, ![c].key = key]
        PROVE  Goal
    <3> DEFINE r == [req[c] EXCEPT !.step = s, !.key = key]
    <3>1. /\ r.file = req[c].file /\ r.op = req[c].op /\ r.step = s
          /\ r.data = req[c].data
      BY <1>1 DEF Request
    <3>2. req' = [req EXCEPT ![c] = r]
      BY <2>2
    <3> HIDE DEF r
    <3> QED
      BY <3>1, <3>2, <2>1, <1>4 DEF Onward
  <2>3. CASE Go(c, "writing")
    BY <2>1, <2>3, <1>5 DEF Onward, Steps
  <2> QED
    BY <1>6, <1>2, <2>2, <2>3 DEF Encode
<1>7. CASE CacheKey(c)
  BY <1>7, <1>5 DEF CacheKey, At, Onward, Steps
<1>8. CASE MakeDir(c)
  BY <1>8, <1>5 DEF MakeDir, At, Onward, Steps
<1>9. CASE OpenChunk(c)
  BY <1>9, <1>2, <1>5 DEF OpenChunk, At, Onward, Steps
<1>10. CASE FillChunk(c)
  BY <1>10, <1>2 DEF FillChunk
<1>11. CASE List(c)
  <2>1. req[c].step = "listing"
    BY <1>11 DEF List, At
  <2>2. ASSUME NEW todo,
               req' = [req EXCEPT ![c].step = "reading", ![c].todo = todo]
        PROVE  Goal
    <3> DEFINE r == [req[c] EXCEPT !.step = "reading", !.todo = todo]
    <3>1. /\ r.file = req[c].file /\ r.op = req[c].op /\ r.step = "reading"
      BY <1>1 DEF Request
    <3>2. req' = [req EXCEPT ![c] = r]
      BY <2>2
    <3> HIDE DEF r
    <3> QED
      BY <3>1, <3>2, <2>1, <1>4 DEF Onward
  <2> QED
    BY <1>11, <1>2, <2>2 DEF List
<1>12. CASE ReadChunk(c)
  <2>1. req[c].step = "reading"
    BY <1>12 DEF ReadChunk, At
  <2>2. ASSUME NEW todo, NEW data,
               req' = [req EXCEPT ![c].todo = todo, ![c].data = data]
        PROVE  Goal
    <3> DEFINE r == [req[c] EXCEPT !.todo = todo, !.data = data]
    <3>1. /\ r.file = req[c].file /\ r.op = req[c].op /\ r.step = "reading"
      BY <1>1, <2>1 DEF Request
    <3>2. req' = [req EXCEPT ![c] = r]
      BY <2>2
    <3> HIDE DEF r
    <3> QED
      BY <3>1, <3>2, <2>1, <1>4 DEF Onward
  <2>3. CASE Go(c, "removing")
    BY <2>1, <2>3, <1>5 DEF Onward, Steps
  <2> QED
    BY <1>12, <1>2, <2>2, <2>3 DEF ReadChunk
<1>13. CASE Remove(c)
  BY <1>13, <1>3, <1>5 DEF Remove, At, Onward, Steps
<1>14. CASE Check(c)
  <2> DEFINE r == [req[c] EXCEPT !.step = "encoding", !.set = setting]
  <2>1. CASE req' = [req EXCEPT ![c] = r]
    <3>1. /\ r.file = req[c].file /\ r.op = req[c].op /\ r.step = "encoding"
          /\ r.data = req[c].data /\ req[c].step = "checking"
      BY <1>1, <1>14 DEF Request, Check, At
    <3> HIDE DEF r
    <3> QED
      BY <3>1, <2>1, <1>4 DEF Onward
  <2> QED
    BY <1>14, <1>2, <2>1 DEF Check
<1> QED
  BY <1>6, <1>7, <1>8, <1>9, <1>10, <1>11, <1>12, <1>13, <1>14

-----------------------------------------------------------------------------
(* Files.                                                                  *)

\* What a step does to the names of the objects.
LEMMA ClosedNames ==
  ASSUME TypeOK, NEW cs, NEW torn, objects' = Closed(objects, cs, torn)
  PROVE  \A f, p : Stored(f, p)' <=> Stored(f, p)
<1>1. \A o \in objects : /\ ClosedBy(o, cs, torn).file = o.file
                         /\ ClosedBy(o, cs, torn).path = o.path
  BY DEF TypeOK, ClosedBy, OnDisk
<1> QED
  BY <1>1 DEF Closed, Stored

LEMMA FilledNames ==
  ASSUME TypeOK, NEW c \in Callers, Fill(c)
  PROVE  \A f, p : Stored(f, p)' <=> Stored(f, p)
<1> DEFINE by == OpenBy(objects, req[c].file, EncodedPath(c), c)
<1>1. PICK whole \in BOOLEAN :
        objects' = (objects \ by) \cup
          {WrittenBy(o, c, req[c].data, req[c].key.dek, whole) : o \in by}
  BY DEF Fill, Filled
<1>2. by \subseteq objects
  BY DEF OpenBy, Named
<1>3. \A o \in by :
        /\ WrittenBy(o, c, req[c].data, req[c].key.dek, whole).file = o.file
        /\ WrittenBy(o, c, req[c].data, req[c].key.dek, whole).path = o.path
  BY <1>2, WrittenFields DEF TypeOK
<1> HIDE DEF by
<1> QED
  BY <1>1, <1>2, <1>3 DEF Stored

LEMMA TruncatedNames ==
  ASSUME NEW c, NEW g, NEW q, objects' = Truncated(objects, g, q, c)
  PROVE  \A f, p : Stored(f, p)' <=> Stored(f, p) \/ (f = g /\ p = q)
<1> DEFINE new == [file |-> g, path |-> q, data |-> {}, sealed |-> 0,
                   state |-> IF OpenAt(objects, g, q) = {} THEN "empty"
                             ELSE "torn",
                   open |-> OpenAt(objects, g, q) \cup {c}]
<1>1. new.file = g /\ new.path = q
  OBVIOUS
<1>2. objects' = Without(objects, g, q) \cup {new}
  BY DEF Truncated
<1> HIDE DEF new
<1> QED
  BY <1>1, <1>2 DEF Without, Named, Stored

LEMMA WithoutNames ==
  ASSUME NEW g, NEW q, objects' = Without(objects, g, q)
  PROVE  \A f, p : Stored(f, p)' <=> Stored(f, p) /\ ~(f = g /\ p = q)
  BY DEF Without, Named, Stored

\* A step that leaves a file's row and the names of its objects.
FileKept(f) ==
  /\ claims'[f] = claims[f] /\ at'[f] = at[f] /\ path'[f] = path[f]
  /\ damaged \subseteq damaged'
  /\ \A p : Stored(f, p)' <=> Stored(f, p)

\* A step after which a request is busy with a file only if it was, or if the
\* file has a row, and in no new step that the invariant speaks of.
ReqKept(c, f) ==
  On(c, f)' =>
    /\ On(c, f) \/ at[f] # "none"
    /\ Creating(c, f)' => Creating(c, f)
    /\ req'[c].step \in {"filling", "inserting", "updating", "erasing"} =>
         req'[c] = req[c]

LEMMA QuietFile ==
  ASSUME NEW f \in Ids, FileInv(f), FileKept(f),
         \A c \in Callers : ReqKept(c, f)
  PROVE  FileInv(f)'
<1>1. ASSUME claims[f] = 0
      PROVE  Unused(f)'
  BY <1>1 DEF FileInv, FileKept, ReqKept, Unused
<1>2. ASSUME claims[f] = 1, f \notin damaged'
      PROVE  Single(f)'
  <2>1. Single(f)
    BY <1>2 DEF FileInv, FileKept
  <2>2. (at[f] = "final" => Stored(f, path[f]))'
    <3>1. at'[f] = "final" => Stored(f, path'[f])
      BY <2>1 DEF FileKept, Single
    <3> QED
      BY <3>1 DEF FileKept, Stored
  <2>3. ASSUME NEW c \in Callers, On(c, f)'
        PROVE  SingleBusy(c, f)'
    <3>1. ASSUME Creating(c, f)'
          PROVE  at'[f] = "none" /\ \A d \in Callers : On(d, f)' => d = c
      <4>1. Creating(c, f) /\ On(c, f)
        BY <3>1, <2>3 DEF ReqKept, Creating
      <4>2. at[f] = "none" /\ \A d \in Callers : On(d, f) => d = c
        BY <4>1, <2>1 DEF Single, SingleBusy
      <4> QED
        BY <4>2 DEF ReqKept, FileKept
    <3>2. ASSUME req'[c].step \in {"filling", "inserting", "updating", "erasing"}
          PROVE  req'[c] = req[c] /\ On(c, f)
      BY <3>2, <2>3 DEF ReqKept, On
    <3>3. ASSUME req'[c] = req[c], Stored(f, EncodedPath(c))
          PROVE  Stored(f, EncodedPath(c))'
      <4>1. EncodedPath(c)' = EncodedPath(c)
        BY <3>3 DEF EncodedPath
      <4> QED
        BY <4>1, <3>3 DEF FileKept, Stored
    <3>4. ASSUME req'[c].step \in {"filling", "inserting", "updating"},
                 req'[c].op = "create" \/ at'[f] # "none"
          PROVE  Stored(f, EncodedPath(c))'
      <4>2. req'[c] = req[c] /\ On(c, f) /\ at'[f] = at[f]
        BY <3>2, <3>4 DEF FileKept
      <4> QED
        BY <3>4, <4>2, <3>3, <2>1 DEF Single, SingleBusy
    <3>5. req'[c].step = "erasing" => at'[f] = "none"
      BY <3>2, <2>1 DEF Single, SingleBusy, FileKept
    <3> QED
      BY <3>1, <3>4, <3>5 DEF SingleBusy
  <2> QED
    BY <2>2, <2>3 DEF Single
<1> QED
  BY <1>1, <1>2 DEF FileInv, FileKept

LEMMA SameState ==
  ASSUME UNCHANGED <<rowVars, objects, claims, damaged>>, NEW f \in Ids
  PROVE  FileKept(f)
  BY DEF FileKept, rowVars, Stored

\* Requests that are as they were, that have ended, or that are about keys or
\* other files.
LEMMA SameRequest ==
  ASSUME NEW c \in Callers, NEW f \in Ids,
         \/ req'[c] = req[c]
         \/ req'[c].step \notin FileSteps
         \/ req'[c].file # f
  PROVE  ReqKept(c, f)
  BY DEF ReqKept, On, Creating

\* A request that ends.
LEMMA QuietAnswer ==
  ASSUME TypeOK, NEW c \in Callers, Answer(c), NEW f \in Ids, FileInv(f),
         FileKept(f)
  PROVE  FileInv(f)'
<1>1. req'[c].step = "idle" /\ \A d \in Callers \ {c} : req'[d] = req[d]
  BY AnswerStep
<1>2. "idle" \notin FileSteps
  BY DEF FileSteps
<1> QED
  BY <1>1, <1>2, SameRequest, QuietFile

\* A step of one request to a step the invariant does not speak of.
LEMMA QuietMove ==
  ASSUME NEW c \in Callers, NEW f \in Ids, FileInv(f), FileKept(f),
         \A d \in Callers \ {c} : req'[d] = req[d],
         req[c].step \in FileSteps,
         req'[c].file = req[c].file, req'[c].op = req[c].op,
         req'[c].step \notin {"registering", "filling", "inserting",
                              "updating", "erasing"},
         req'[c].step \in Creation => req[c].step \in Creation
                                      \/ req[c].op # "create"
  PROVE  FileInv(f)'
<1>1. ReqKept(c, f)
  BY DEF ReqKept, On, Creating
<1> QED
  BY <1>1, SameRequest, QuietFile

\* Steps of a request that touch neither rows nor objects.
LEMMA QuietSteps ==
  ASSUME TypeOK, StepInv, NEW c \in Callers, NEW f \in Ids, FileInv(f),
         \/ Encode(c) \/ CacheKey(c) \/ MakeDir(c) \/ OpenChunk(c)
         \/ FillChunk(c) \/ List(c) \/ ReadChunk(c) \/ Remove(c) \/ Check(c)
  PROVE  FileInv(f)'
<1>1. FileKept(f)
  <2>1. UNCHANGED <<rowVars, objects, claims, damaged>>
    BY DEF Encode, CacheKey, MakeDir, OpenChunk, FillChunk, List, ReadChunk,
       Remove, Check, ghosts
  <2> QED
    BY <2>1, SameState
<1>2. /\ \A d \in Callers \ {c} : req'[d] = req[d]
      /\ req'[c].step = "idle" \/ req'[c] = req[c] \/ Continued(c)
  BY Continues
<1>3. CASE Continued(c)
  <2>1. RecordOK(req[c])
    BY Mine
  <2>2. /\ req[c].step \in FileSteps
        /\ req'[c].step \notin {"registering", "filling", "inserting",
                                "updating", "erasing"}
        /\ req'[c].step \in Creation => req[c].step \in Creation
                                        \/ req[c].op # "create"
    BY <1>3, <2>1 DEF Continued, Onward, FileSteps, Steps, Creation, RecordOK
  <2> QED
    BY <1>1, <1>2, <1>3, <2>2, QuietMove DEF Continued
<1>4. CASE req'[c].step = "idle" \/ req'[c] = req[c]
  <2>1. "idle" \notin FileSteps
    BY DEF FileSteps
  <2> QED
    BY <2>1, <1>1, <1>2, <1>4, SameRequest, QuietFile
<1> QED
  BY <1>2, <1>3, <1>4

\* Steps about the project's keys.
LEMMA KeySteps ==
  ASSUME TypeOK, NEW c \in Callers, NEW f \in Ids, FileInv(f),
         \/ EnsureProjectKey(c) \/ Ensure(c) \/ RotateProjectKey(c)
         \/ Rotate(c) \/ Drop(c)
  PROVE  FileInv(f)'
<1>1. FileKept(f)
  <2>1. UNCHANGED <<rowVars, objects, claims, damaged>>
    BY DEF EnsureProjectKey, Ensure, RotateProjectKey, Rotate, Drop, ghosts
  <2> QED
    BY <2>1, SameState
<1>2. ASSUME NEW r, req' = [req EXCEPT ![c] = r], r.step \notin FileSteps
      PROVE  FileInv(f)'
  <2>1. req'[c] = r /\ \A d \in Callers \ {c} : req'[d] = req[d]
    BY <1>2 DEF TypeOK
  <2> QED
    BY <2>1, <1>1, <1>2, SameRequest, QuietFile
<1>3. CASE Answer(c)
  BY <1>1, <1>3, QuietAnswer
<1>4. CASE EnsureProjectKey(c)
  <2> DEFINE r == [Idle EXCEPT !.step = "ensuring", !.op = "other"]
  <2>1. req' = [req EXCEPT ![c] = r] /\ r.step \notin FileSteps
    BY <1>4 DEF EnsureProjectKey, Start, Idle, FileSteps
  <2> QED
    BY <2>1, <1>2
<1>5. CASE RotateProjectKey(c)
  <2>1. PICK k \in Active :
          Start(c, [Idle EXCEPT !.step = "rotating", !.op = "other",
                                !.key = KeyOf(k)])
    BY <1>5 DEF RotateProjectKey
  <2> DEFINE r == [Idle EXCEPT !.step = "rotating", !.op = "other",
                               !.key = KeyOf(k)]
  <2>2. req' = [req EXCEPT ![c] = r] /\ r.step \notin FileSteps
    BY <2>1 DEF Start, Idle, FileSteps
  <2> QED
    BY <2>2, <1>2
<1>6. CASE Go(c, "dropping")
  <2>1. req'[c].step = "dropping" /\ \A d \in Callers \ {c} : req'[d] = req[d]
    BY <1>6, GoStep DEF Steps
  <2>2. req'[c].step \notin FileSteps
    BY <2>1 DEF FileSteps
  <2> QED
    BY <2>1, <2>2, <1>1, SameRequest, QuietFile
<1> QED
  BY <1>3, <1>4, <1>5, <1>6 DEF Ensure, Rotate, Drop

\* Requests on an upload or a file that is there begin.
LEMMA QuietBegins ==
  ASSUME TypeOK, NEW c \in Callers, NEW g \in Ids, NEW f \in Ids, FileInv(f),
         \/ DeleteFile(c, g) \/ CompleteChunkedUpload(c, g)
         \/ \E i \in Chunks : UploadChunk(c, g, i)
  PROVE  FileInv(f)'
<1>1. FileKept(f)
  <2>1. UNCHANGED <<rowVars, objects, claims, damaged>>
    BY DEF DeleteFile, CompleteChunkedUpload, UploadChunk, ghosts
  <2> QED
    BY <2>1, SameState
<1>2. at[g] # "none"
  BY DEF DeleteFile, CompleteChunkedUpload, UploadChunk, Pending
<1>3. ASSUME NEW r, req' = [req EXCEPT ![c] = r], r.file = g,
             r.step \in {"unlinking", "listing", "staging"}
      PROVE  FileInv(f)'
  <2>1. req'[c] = r /\ \A d \in Callers \ {c} : req'[d] = req[d]
    BY <1>3 DEF TypeOK
  <2>2. ReqKept(c, f)
    BY <2>1, <1>2, <1>3 DEF ReqKept, On, Creating, Creation
  <2> QED
    BY <2>1, <2>2, <1>1, SameRequest, QuietFile
<1>4. CASE DeleteFile(c, g)
  <2> DEFINE r == [Idle EXCEPT !.step = "unlinking", !.op = "other",
                               !.file = g, !.was = at[g], !.path = path[g]]
  <2>1. req' = [req EXCEPT ![c] = r] /\ r.file = g /\ r.step = "unlinking"
    BY <1>4 DEF DeleteFile, Start, Idle
  <2> HIDE DEF r
  <2> QED
    BY <2>1, <1>3
<1>5. CASE CompleteChunkedUpload(c, g)
  <2> DEFINE r == [Idle EXCEPT !.step = "listing", !.op = "complete",
                               !.file = g]
  <2>1. req' = [req EXCEPT ![c] = r] /\ r.file = g /\ r.step = "listing"
    BY <1>5 DEF CompleteChunkedUpload, Start, Idle
  <2> HIDE DEF r
  <2> QED
    BY <2>1, <1>3
<1>6. ASSUME NEW i \in Chunks, UploadChunk(c, g, i)
      PROVE  FileInv(f)'
  <2> DEFINE r == [Idle EXCEPT !.step = "staging", !.op = "other",
                               !.file = g, !.data = {i}]
  <2>1. req' = [req EXCEPT ![c] = r] /\ r.file = g /\ r.step = "staging"
    BY <1>6 DEF UploadChunk, Start, Idle
  <2> HIDE DEF r
  <2> QED
    BY <2>1, <1>3
<1> QED
  BY <1>4, <1>5, <1>6

\* Writes that fail leave the names as they are.
LEMMA WriteFailsFile ==
  ASSUME TypeOK, NEW c \in Callers, NEW f \in Ids, FileInv(f), WriteFails(c)
  PROVE  FileInv(f)'
<1>1. PICK torn \in {{}, {c}} : objects' = Closed(objects, {c}, torn)
  BY DEF WriteFails
<1>2. UNCHANGED <<rowVars, ghosts>> /\ Answer(c)
  BY DEF WriteFails
<1>3. FileKept(f)
  BY <1>1, <1>2, ClosedNames DEF FileKept, rowVars, ghosts
<1> QED
  BY <1>2, <1>3, QuietAnswer

LEMMA CrashFile ==
  ASSUME TypeOK, NEW p \in Procs, NEW f \in Ids, FileInv(f), Crash(p)
  PROVE  FileInv(f)'
<1>1. PICK torn \in SUBSET Served(p) :
        objects' = Closed(objects, Served(p), torn)
  BY DEF Crash
<1>2. /\ UNCHANGED <<rowVars, ghosts>>
      /\ req' = [c \in Callers |-> IF c \in Served(p) THEN Idle ELSE req[c]]
  BY DEF Crash
<1>3. FileKept(f)
  BY <1>1, <1>2, ClosedNames DEF FileKept, rowVars, ghosts
<1>4. \A c \in Callers : req'[c] = req[c] \/ req'[c].step \notin FileSteps
  BY <1>2, IdleType DEF FileSteps
<1> QED
  BY <1>3, <1>4, SameRequest, QuietFile

\* A file is left alone by a step of a request for another file.
LEMMA OtherFile ==
  ASSUME NEW c \in Callers, NEW f \in Ids, FileInv(f), FileKept(f),
         req'[c].file # f,
         \A d \in Callers \ {c} : req'[d] = req[d]
  PROVE  FileInv(f)'
  BY SameRequest, QuietFile

\* A request begins to create a file.
LEMMA BeginsFile ==
  ASSUME TypeOK, NEW c \in Callers, NEW g \in Ids, NEW f \in Ids, FileInv(f),
         NEW r, req' = [req EXCEPT ![c] = r], r.file = g,
         \/ r.step = "encoding" /\ r.op = "create"
         \/ r.step = "registering",
         claims' = [claims EXCEPT ![g] = @ + 1],
         UNCHANGED <<rowVars, objects, damaged>>
  PROVE  FileInv(f)'
<1>1. req'[c] = r /\ \A d \in Callers \ {c} : req'[d] = req[d]
  BY DEF TypeOK
<1>2. claims[f] \in Nat
  BY DEF TypeOK
<1>3. CASE f # g
  <2>1. FileKept(f)
    BY <1>3 DEF FileKept, TypeOK, rowVars, Stored
  <2> QED
    BY <1>1, <1>3, <2>1, OtherFile
<1>4. CASE f = g
  <2>1. claims'[f] = claims[f] + 1
    BY <1>4 DEF TypeOK
  <2>2. SUFFICES ASSUME claims[f] = 0 PROVE Single(f)'
    BY <1>2, <2>1 DEF FileInv
  <2>3. Unused(f)
    BY <2>2 DEF FileInv
  <2>4. at'[f] = "none" /\ \A d \in Callers : On(d, f)' => d = c
    BY <2>3, <1>1 DEF Unused, On, rowVars
  <2> QED
    BY <1>1, <2>4 DEF Single, SingleBusy, On, Creating
<1> QED
  BY <1>3, <1>4

LEMMA CreatesFile ==
  ASSUME TypeOK, NEW c \in Callers, NEW g \in Ids, NEW f \in Ids, FileInv(f),
         CreateFile(c, g) \/ InitChunkedUpload(c, g)
  PROVE  FileInv(f)'
<1>1. CASE CreateFile(c, g)
  <2> DEFINE r == [Idle EXCEPT !.step = "encoding", !.op = "create",
                               !.file = g, !.set = setting, !.data = Chunks]
  <2>1. /\ req' = [req EXCEPT ![c] = r]
        /\ r.file = g /\ r.step = "encoding" /\ r.op = "create"
    BY <1>1 DEF CreateFile, Start, Idle
  <2>2. /\ claims' = [claims EXCEPT ![g] = @ + 1]
        /\ UNCHANGED <<rowVars, objects, damaged>>
    BY <1>1 DEF CreateFile
  <2> HIDE DEF r
  <2> QED
    BY <2>1, <2>2, BeginsFile
<1>2. CASE InitChunkedUpload(c, g)
  <2> DEFINE r == [Idle EXCEPT !.step = "registering", !.op = "other",
                               !.file = g]
  <2>1. /\ req' = [req EXCEPT ![c] = r]
        /\ r.file = g /\ r.step = "registering"
    BY <1>2 DEF InitChunkedUpload, Start, Idle
  <2>2. /\ claims' = [claims EXCEPT ![g] = @ + 1]
        /\ UNCHANGED <<rowVars, objects, damaged>>
    BY <1>2 DEF InitChunkedUpload
  <2> HIDE DEF r
  <2> QED
    BY <2>1, <2>2, BeginsFile
<1> QED
  BY <1>1, <1>2

-----------------------------------------------------------------------------
(* The steps that change a file's row or object.                           *)

\* Whoever is busy with a file, somebody has created it.
LEMMA BusyClaimed ==
  ASSUME NEW c \in Callers, NEW f \in Ids, FileInv(f), On(c, f)
  PROVE  claims[f] # 0
  BY DEF FileInv, Unused

\* It is enough to look at a file that one request has created.
LEMMA BusyFile ==
  ASSUME NEW c \in Callers, NEW f \in Ids, FileInv(f), On(c, f),
         UNCHANGED claims, damaged \subseteq damaged',
         claims[f] = 1 /\ f \notin damaged' /\ Single(f) => Single(f)'
  PROVE  FileInv(f)'
  BY BusyClaimed DEF FileInv

\* A request writes its object: from the first half on it is there.
LEMMA AdvanceFile ==
  ASSUME TypeOK, StepInv, NEW c \in Callers, NEW f \in Ids, FileInv(f),
         NEW s \in {"filling", "inserting", "updating"}, Go(c, s),
         NEW g, g = req[c].file, NEW q, q = EncodedPath(c),
         req[c].step \in {"writing", "filling"},
         s = "inserting" => req[c].op = "create",
         UNCHANGED <<rowVars, claims, damaged>>,
         \A p : Stored(g, p)' <=> Stored(g, p) \/ p = q,
         \A p : f # g => (Stored(f, p)' <=> Stored(f, p))
  PROVE  FileInv(f)'
<1>1. /\ req'[c].step = s /\ req'[c].file = g
      /\ req'[c].op = req[c].op
      /\ req'[c].set = req[c].set /\ req'[c].key = req[c].key
      /\ \A d \in Callers \ {c} : req'[d] = req[d]
  BY GoStep DEF Steps
<1>2. EncodedPath(c)' = q
  BY <1>1 DEF EncodedPath
<1>3. \A p : Stored(g, p)' <=> Stored(g, p) \/ p = q
  OBVIOUS
<1>4. RecordOK(req[c])
  BY Mine
<1>5. CASE f # g
  <2>1. FileKept(f)
    BY <1>5 DEF FileKept, rowVars
  <2> QED
    BY <2>1, <1>1, <1>5, OtherFile
<1>6. CASE f = g
  <2>1. On(c, f)
    BY <1>6 DEF On, FileSteps, Steps
  <2>2. SUFFICES ASSUME Single(f) PROVE Single(f)'
    BY <2>1, BusyFile
  <2>3. \A p : Stored(f, p) => Stored(f, p)'
    BY <1>3, <1>6
  <2>4. Stored(f, EncodedPath(c))'
    <3>1. Stored(f, q)'
      BY <1>3, <1>6
    <3> QED
      BY <3>1, <1>2 DEF Stored
  <2>5. (at[f] = "final" => Stored(f, path[f]))'
    <3>1. at'[f] = "final" => Stored(f, path'[f])
      BY <2>2 DEF Single, rowVars
    <3> QED
      BY <2>3, <3>1 DEF rowVars, Stored
  <2>6. \A d \in Callers : On(d, f)' <=> On(d, f)
    BY <2>1, <1>1, <1>6 DEF On, FileSteps, Steps
  <2>7. Creating(c, f)' => Creating(c, f)
    BY <2>1, <1>1, <1>4 DEF Creating, Creation, RecordOK
  <2>8. ASSUME NEW d \in Callers, On(d, f)', d # c
        PROVE  SingleBusy(d, f)'
    <3>1. req'[d] = req[d] /\ On(d, f) /\ SingleBusy(d, f)
      BY <2>2, <2>8, <2>6, <1>1 DEF Single
    <3>2. Stored(f, EncodedPath(d)) => Stored(f, EncodedPath(d))'
      <4>1. EncodedPath(d)' = EncodedPath(d)
        BY <3>1 DEF EncodedPath
      <4> QED
        BY <4>1, <2>3 DEF Stored
    <3>3. Creating(d, f)' => Creating(d, f)
      BY <3>1 DEF Creating, On
    <3> QED
      BY <2>6, <3>1, <3>2, <3>3 DEF SingleBusy, rowVars
  <2>9. SingleBusy(c, f)'
    <3>1. SingleBusy(c, f)
      BY <2>1, <2>2 DEF Single
    <3> QED
      BY <3>1, <2>4, <2>6, <2>7, <1>1 DEF SingleBusy, rowVars
  <2> QED
    BY <2>5, <2>8, <2>9 DEF Single
<1> QED
  BY <1>5, <1>6

LEMMA WriteFile ==
  ASSUME TypeOK, StepInv, NEW c \in Callers, NEW f \in Ids, FileInv(f),
         Write(c)
  PROVE  FileInv(f)'
<1>1. /\ req[c].step = "writing" /\ Go(c, "filling")
      /\ objects' = Truncated(objects, req[c].file, EncodedPath(c), c)
      /\ UNCHANGED <<rowVars, claims, damaged>>
  BY DEF Write, At, ghosts
<1>2. PICK g, q : g = req[c].file /\ q = EncodedPath(c)
  OBVIOUS
<1>3. \A h, p : Stored(h, p)' <=> Stored(h, p) \/ (h = g /\ p = q)
  BY <1>1, <1>2, TruncatedNames
<1>4. /\ \A p : Stored(g, p)' <=> Stored(g, p) \/ p = q
      /\ \A p : f # g => (Stored(f, p)' <=> Stored(f, p))
  BY <1>3
<1> QED
  BY <1>1, <1>2, <1>4, AdvanceFile

LEMMA FillFile ==
  ASSUME TypeOK, StepInv, NEW c \in Callers, NEW f \in Ids, FileInv(f),
         Fill(c)
  PROVE  FileInv(f)'
<1> DEFINE s == IF req[c].op = "create" THEN "inserting" ELSE "updating"
<1>1. /\ req[c].step = "filling" /\ Go(c, s)
      /\ UNCHANGED <<rowVars, claims, damaged>>
  BY DEF Fill, At, ghosts
<1>2. s \in {"inserting", "updating"} /\ (s = "inserting" => req[c].op = "create")
  OBVIOUS
<1> HIDE DEF s
<1>3. /\ req'[c].step = s /\ req'[c].file = req[c].file
      /\ req'[c].op = req[c].op
      /\ req'[c].set = req[c].set /\ req'[c].key = req[c].key
      /\ \A d \in Callers \ {c} : req'[d] = req[d]
  BY <1>1, <1>2, GoStep DEF Steps
<1>4. FileKept(f)
  BY <1>1, FilledNames DEF FileKept, rowVars
<1>5. CASE f # req[c].file
  BY <1>3, <1>4, <1>5, OtherFile
<1>6. CASE f = req[c].file
  <2>1. On(c, f)
    BY <1>1, <1>6 DEF On, FileSteps, Steps
  <2>2. SUFFICES ASSUME Single(f) PROVE Single(f)'
    BY <1>1, <2>1, BusyFile
  <2>3. (at[f] = "final" => Stored(f, path[f]))'
    <3>1. at'[f] = "final" => Stored(f, path'[f])
      BY <2>2, <1>4 DEF Single, FileKept
    <3> QED
      BY <3>1, <1>4 DEF FileKept, Stored
  <2>4. \A d \in Callers : On(d, f)' <=> On(d, f)
    BY <2>1, <1>2, <1>3, <1>6 DEF On, FileSteps, Steps
  <2>5. ASSUME NEW d \in Callers, On(d, f)'
        PROVE  SingleBusy(d, f)'
    <3>1. SingleBusy(d, f) /\ at'[f] = at[f]
      BY <2>2, <2>4, <2>5, <1>4 DEF Single, FileKept
    <3>2. Stored(f, EncodedPath(d)) => Stored(f, EncodedPath(d))'
      <4>1. EncodedPath(d)' = EncodedPath(d)
        BY <1>3 DEF EncodedPath
      <4> QED
        BY <4>1, <1>4 DEF FileKept, Stored
    <3>3. Creating(d, f)' => Creating(d, f)
      BY <1>1, <1>2, <1>3, <2>4 DEF Creating, Creation
    <3>4. \/ req'[d].step = req[d].step /\ req'[d].op = req[d].op
          \/ /\ req[d].step = "filling" /\ req'[d].step \in {"inserting", "updating"}
             /\ req'[d].op = req[d].op
      BY <1>1, <1>2, <1>3
    <3> QED
      BY <2>4, <3>1, <3>2, <3>3, <3>4 DEF SingleBusy
  <2> QED
    BY <2>3, <2>5 DEF Single
<1> QED
  BY <1>5, <1>6

\* The request that creates a file has it to itself.
LEMMA CreatesAlone ==
  ASSUME NEW c \in Callers, NEW f \in Ids, Single(f), Creating(c, f)
  PROVE  /\ at[f] = "none" /\ \A d \in Callers \ {c} : ~On(d, f)
         /\ req[c].step = "inserting" /\ req[c].op = "create" =>
              Stored(f, EncodedPath(c))
  BY DEF Single, SingleBusy, Creating

\* Its last step leaves the file without a request.
LEMMA CreationEnds ==
  ASSUME NEW c \in Callers, NEW f \in Ids, Single(f), Creating(c, f),
         req'[c].step \notin FileSteps,
         \A d \in Callers \ {c} : req'[d] = req[d],
         (at[f] = "final" => Stored(f, path[f]))'
  PROVE  Single(f)'
<1>1. \A d \in Callers : ~On(d, f)'
  BY CreatesAlone DEF On
<1> QED
  BY <1>1 DEF Single

LEMMA InsertFile ==
  ASSUME TypeOK, StepInv, NEW c \in Callers, NEW f \in Ids, FileInv(f),
         Insert(c)
  PROVE  FileInv(f)'
<1> DEFINE g == req[c].file
<1>1. /\ req[c].step = "inserting" /\ UNCHANGED <<objects, claims, damaged>>
      /\ \/ /\ Answer(c) /\ at[g] = "none"
            /\ at' = [at EXCEPT ![g] = "final"]
            /\ path' = [path EXCEPT ![g] = EncodedPath(c)]
         \/ Go(c, "discarding") /\ UNCHANGED rowVars
  BY DEF Insert, At, ghosts
<1>2. g \in Ids /\ req[c].op = "create"
  BY <1>1, Mine DEF RecordOK, FileSteps, Steps
<1> HIDE DEF g
<1>3. /\ Answer(c) => req'[c].step = "idle"
      /\ Go(c, "discarding") => /\ req'[c].step = "discarding"
                                /\ req'[c].file = g /\ req'[c].op = "create"
      /\ \A d \in Callers \ {c} : req'[d] = req[d]
  BY <1>1, <1>2, AnswerStep, GoStep DEF Steps, g
<1>4. CASE f # g
  <2>1. FileKept(f)
    BY <1>1, <1>2, <1>4 DEF FileKept, TypeOK, rowVars, Stored
  <2>2. ReqKept(c, f)
    BY <1>1, <1>3, <1>4 DEF ReqKept, On, Creating, FileSteps
  <2> QED
    BY <1>3, <2>1, <2>2, SameRequest, QuietFile
<1>5. CASE f = g
  <2>1. On(c, f) /\ Creating(c, f)
    BY <1>1, <1>2, <1>5 DEF On, Creating, Creation, FileSteps, Steps, g
  <2>2. SUFFICES ASSUME Single(f) PROVE Single(f)'
    BY <1>1, <2>1, BusyFile
  <2>3. at[f] = "none" /\ \A d \in Callers \ {c} : ~On(d, f)
    BY <2>1, <2>2, CreatesAlone
  <2>4. Stored(f, EncodedPath(c))
    BY <1>1, <1>2, <2>1, <2>2, CreatesAlone
  <2>5. CASE Answer(c) /\ path' = [path EXCEPT ![g] = EncodedPath(c)]
    <3>1. path'[f] = EncodedPath(c)
      BY <1>2, <1>5, <2>5 DEF TypeOK
    <3>2. Stored(f, path[f])'
      BY <3>1, <2>4, <1>1 DEF Stored
    <3>3. req'[c].step \notin FileSteps
      BY <1>3, <2>5 DEF FileSteps
    <3> QED
      BY <3>2, <3>3, <1>3, <2>1, <2>2, CreationEnds
  <2>6. CASE Go(c, "discarding") /\ UNCHANGED rowVars
    <3>1. \A d \in Callers : On(d, f)' => d = c
      BY <1>3, <2>3 DEF On
    <3>2. at'[f] = "none" /\ req'[c].step = "discarding"
      BY <1>3, <2>3, <2>6 DEF rowVars
    <3> QED
      BY <3>1, <3>2 DEF Single, SingleBusy
  <2> QED
    BY <1>1, <2>5, <2>6
<1> QED
  BY <1>4, <1>5

LEMMA DiscardFile ==
  ASSUME TypeOK, StepInv, NEW c \in Callers, NEW f \in Ids, FileInv(f),
         Discard(c)
  PROVE  FileInv(f)'
<1> DEFINE g == req[c].file
<1>1. /\ req[c].step = "discarding" /\ Answer(c)
      /\ UNCHANGED <<rowVars, claims, damaged>>
      /\ objects' = Without(objects, g, EncodedPath(c))
  BY DEF Discard, At, ghosts
<1>2. req[c].op = "create"
  BY <1>1, Mine DEF RecordOK
<1>3. CASE f # g
  <2>1. FileKept(f)
    BY <1>1, <1>3, WithoutNames DEF FileKept, rowVars
  <2> QED
    BY <1>1, <2>1, QuietAnswer
<1>4. CASE f = g
  <2>1. On(c, f) /\ Creating(c, f)
    BY <1>1, <1>2, <1>4 DEF On, Creating, Creation, FileSteps, Steps
  <2>2. SUFFICES ASSUME Single(f) PROVE Single(f)'
    BY <1>1, <2>1, BusyFile
  <2>3. at'[f] = "none"
    BY <1>1, <2>1, <2>2, CreatesAlone DEF rowVars
  <2>4. /\ req'[c].step \notin FileSteps
        /\ \A d \in Callers \ {c} : req'[d] = req[d]
    BY <1>1, AnswerStep DEF FileSteps
  <2> QED
    BY <2>1, <2>2, <2>3, <2>4, CreationEnds
<1> QED
  BY <1>3, <1>4

LEMMA RegisterFile ==
  ASSUME TypeOK, StepInv, NEW c \in Callers, NEW f \in Ids, FileInv(f),
         Register(c)
  PROVE  FileInv(f)'
<1> DEFINE g == req[c].file
<1>1. /\ req[c].step = "registering" /\ Answer(c)
      /\ UNCHANGED <<path, objects, claims, damaged>>
      /\ at' = at \/ at' = [at EXCEPT ![g] = "staged"]
  BY DEF Register, At, ghosts
<1>2. g \in Ids
  BY <1>1, Mine DEF RecordOK, FileSteps, Steps
<1> HIDE DEF g
<1>3. CASE f # g
  <2>1. FileKept(f)
    BY <1>1, <1>2, <1>3 DEF FileKept, TypeOK, Stored
  <2> QED
    BY <1>1, <2>1, QuietAnswer
<1>4. CASE f = g
  <2>1. On(c, f) /\ Creating(c, f)
    BY <1>1, <1>4 DEF On, Creating, FileSteps, Steps, g
  <2>2. SUFFICES ASSUME Single(f) PROVE Single(f)'
    BY <1>1, <2>1, BusyFile
  <2>3. at'[f] # "final"
    BY <1>1, <1>2, <1>4, <2>1, <2>2, CreatesAlone DEF TypeOK
  <2>4. /\ req'[c].step \notin FileSteps
        /\ \A d \in Callers \ {c} : req'[d] = req[d]
    BY <1>1, AnswerStep DEF FileSteps
  <2> QED
    BY <2>1, <2>2, <2>3, <2>4, CreationEnds
<1> QED
  BY <1>3, <1>4

\* A step of a request that does not create the file, by which the file loses
\* its row or gets the path of an object that is there.
LEMMA RowChanges ==
  ASSUME StepInv, NEW c \in Callers, NEW f \in Ids, Single(f), On(c, f),
         ~Creating(c, f),
         \A d \in Callers \ {c} : req'[d] = req[d],
         \/ req'[c].step \notin FileSteps
         \/ req'[c].step = "erasing" /\ at'[f] = "none",
         at'[f] # "none" => at[f] # "none" /\ objects' = objects,
         (at[f] = "final" => Stored(f, path[f]))'
  PROVE  Single(f)'
<1>1. \A d \in Callers : ~Creating(d, f)
  BY DEF Single, SingleBusy, Creating
<1>2. (at[f] = "final" => Stored(f, path[f]))'
  OBVIOUS
<1>3. ASSUME NEW d \in Callers, d # c, On(d, f)'
      PROVE  SingleBusy(d, f)'
  <2>1. req'[d] = req[d] /\ On(d, f) /\ RecordOK(req[d])
    BY <1>3 DEF On, StepInv
  <2>2. ~Creating(d, f)'
    BY <2>1, <1>1 DEF Creating, On
  <2>3. ASSUME req'[d].step \in {"filling", "inserting", "updating"},
               req'[d].op = "create" \/ at'[f] # "none"
        PROVE  Stored(f, EncodedPath(d))'
    <3>1. req[d].op # "create"
      BY <2>1, <2>3, <1>1 DEF RecordOK, Creating, Creation
    <3>2. at[f] # "none" /\ objects' = objects
      BY <2>1, <2>3, <3>1
    <3> QED
      BY <2>1, <2>3, <3>2 DEF Single, SingleBusy, Stored, EncodedPath
  <2>4. req'[d].step = "erasing" => at'[f] = "none"
    BY <2>1 DEF Single, SingleBusy
  <2> QED
    BY <2>2, <2>3, <2>4 DEF SingleBusy
<1>4. ASSUME On(c, f)'
      PROVE  req'[c].step = "erasing" /\ at'[f] = "none"
  BY <1>4 DEF On
<1>5. On(c, f)' => ~Creating(c, f)'
  BY <1>4 DEF Creating, Creation
<1> QED
  BY <1>2, <1>3, <1>4, <1>5 DEF Single, SingleBusy

LEMMA UpdateFile ==
  ASSUME TypeOK, StepInv, NEW c \in Callers, NEW f \in Ids, FileInv(f),
         Update(c)
  PROVE  FileInv(f)'
<1> DEFINE g == req[c].file
<1>1. /\ req[c].step = "updating" /\ Answer(c)
      /\ UNCHANGED <<objects, claims, damaged>>
      /\ \/ UNCHANGED rowVars
         \/ /\ at[g] # "none" /\ at' = [at EXCEPT ![g] = "final"]
            /\ path' = [path EXCEPT ![g] = EncodedPath(c)]
  BY DEF Update, At, ghosts
<1>2. g \in Ids
  BY <1>1, Mine DEF RecordOK, FileSteps, Steps
<1> HIDE DEF g
<1>3. CASE UNCHANGED rowVars
  <2>1. FileKept(f)
    BY <1>1, <1>3, SameState
  <2> QED
    BY <1>1, <2>1, QuietAnswer
<1>4. CASE f # g
  <2>1. FileKept(f)
    BY <1>1, <1>2, <1>4 DEF FileKept, TypeOK, rowVars, Stored
  <2> QED
    BY <1>1, <2>1, QuietAnswer
<1>5. CASE f = g /\ ~UNCHANGED rowVars
  <2>1. On(c, f) /\ ~Creating(c, f)
    BY <1>1, <1>5 DEF On, Creating, Creation, FileSteps, Steps, g
  <2>2. SUFFICES ASSUME Single(f) PROVE Single(f)'
    BY <1>1, <2>1, BusyFile
  <2>3. at[f] # "none" /\ path'[f] = EncodedPath(c)
    BY <1>1, <1>2, <1>5 DEF TypeOK
  <2>4. Stored(f, EncodedPath(c))
    BY <1>1, <2>1, <2>2, <2>3 DEF Single, SingleBusy
  <2>5. Stored(f, path[f])'
    BY <1>1, <2>3, <2>4 DEF Stored
  <2>6. /\ req'[c].step \notin FileSteps
        /\ \A d \in Callers \ {c} : req'[d] = req[d]
    BY <1>1, AnswerStep DEF FileSteps
  <2>7. at'[f] # "none" => at[f] # "none" /\ objects' = objects
    BY <1>1, <2>3
  <2>8. (at[f] = "final" => Stored(f, path[f]))'
    BY <2>5
  <2> QED
    BY <2>1, <2>2, <2>6, <2>7, <2>8, RowChanges
<1> QED
  BY <1>3, <1>4, <1>5

LEMMA UnlinkFile ==
  ASSUME TypeOK, StepInv, NEW c \in Callers, NEW f \in Ids, FileInv(f),
         Unlink(c)
  PROVE  FileInv(f)'
<1> DEFINE g == req[c].file
<1>1. /\ req[c].step = "unlinking" /\ Go(c, "erasing")
      /\ UNCHANGED <<objects, claims>> /\ damaged \subseteq damaged'
      /\ \/ UNCHANGED rowVars /\ g \in damaged'
         \/ /\ at' = [at EXCEPT ![g] = "none"]
            /\ path' = [path EXCEPT ![g] = Plain]
  BY DEF Unlink, At
<1>2. g \in Ids
  BY <1>1, Mine DEF RecordOK, FileSteps, Steps
<1> HIDE DEF g
<1>3. /\ req'[c].step = "erasing" /\ req'[c].file = g
      /\ \A d \in Callers \ {c} : req'[d] = req[d]
  BY <1>1, GoStep DEF Steps, g
<1>4. CASE f # g
  <2>1. FileKept(f)
    BY <1>1, <1>2, <1>4 DEF FileKept, TypeOK, rowVars, Stored
  <2> QED
    BY <1>3, <1>4, <2>1, OtherFile
<1>5. CASE f = g
  <2>1. On(c, f) /\ ~Creating(c, f)
    BY <1>1, <1>5 DEF On, Creating, Creation, FileSteps, Steps, g
  <2>2. SUFFICES ASSUME Single(f), f \notin damaged' PROVE Single(f)'
    BY <1>1, <2>1, BusyFile
  <2>3. at'[f] = "none"
    BY <1>1, <1>2, <1>5, <2>2 DEF TypeOK
  <2> QED
    BY <1>3, <2>1, <2>2, <2>3, RowChanges
<1> QED
  BY <1>4, <1>5

LEMMA EraseFile ==
  ASSUME TypeOK, StepInv, NEW c \in Callers, NEW f \in Ids, FileInv(f),
         Erase(c)
  PROVE  FileInv(f)'
<1> DEFINE g == req[c].file
<1>1. /\ req[c].step = "erasing" /\ Answer(c)
      /\ UNCHANGED <<rowVars, claims, damaged>>
      /\ objects' = objects \/ objects' = Without(objects, g, req[c].path)
  BY DEF Erase, At, ghosts
<1>2. CASE f # g
  <2>1. FileKept(f)
    BY <1>1, <1>2, WithoutNames DEF FileKept, rowVars, Stored
  <2> QED
    BY <1>1, <2>1, QuietAnswer
<1>3. CASE f = g
  <2>1. On(c, f) /\ ~Creating(c, f)
    BY <1>1, <1>3 DEF On, Creating, Creation, FileSteps, Steps
  <2>2. SUFFICES ASSUME Single(f) PROVE Single(f)'
    BY <1>1, <2>1, BusyFile
  <2>3. at'[f] = "none"
    BY <1>1, <2>1, <2>2 DEF Single, SingleBusy, rowVars
  <2>4. /\ req'[c].step \notin FileSteps
        /\ \A d \in Callers \ {c} : req'[d] = req[d]
    BY <1>1, AnswerStep DEF FileSteps
  <2> QED
    BY <2>1, <2>2, <2>3, <2>4, RowChanges
<1> QED
  BY <1>2, <1>3

LEMMA BucketFile ==
  ASSUME TypeOK, NEW f \in Ids, FileInv(f),
         DeleteBucket \/ \E s \in Settings : UpdateBucket(s)
  PROVE  FileInv(f)'
<1>1. UNCHANGED <<objects, claims, damaged, req>>
  BY DEF DeleteBucket, UpdateBucket, ghosts
<1>2. CASE UNCHANGED rowVars
  <2>1. FileKept(f)
    BY <1>1, <1>2, SameState
  <2> QED
    BY <1>1, <2>1, SameRequest, QuietFile
<1>3. CASE at'[f] = "none"
  <2>1. \A p : Stored(f, p)' <=> Stored(f, p)
    BY <1>1 DEF Stored
  <2>2. Unused(f) => Unused(f)'
    BY <1>1, <1>3, <2>1 DEF Unused, On
  <2>3. Single(f) => Single(f)'
    BY <1>1, <1>3 DEF Single, SingleBusy, RecordOK, On, Creating, Creation,
       Stored, EncodedPath
  <2> QED
    BY <1>1, <2>2, <2>3 DEF FileInv
<1> QED
  BY <1>2, <1>3 DEF DeleteBucket, UpdateBucket

LEMMA NextFile ==
  ASSUME Base, NEW f \in Ids, FileInv(f), [Next]_vars
  PROVE  FileInv(f)'
<1> USE DEF Base
<1>1. CASE UNCHANGED vars
  <2>1. UNCHANGED <<rowVars, objects, claims, damaged, req>>
    BY <1>1 DEF vars, ghosts, rowVars
  <2> QED
    BY <2>1, SameState, SameRequest, QuietFile
<1>2. ASSUME NEW c \in Callers, Step(c)
      PROVE  FileInv(f)'
  BY <1>2, QuietSteps, WriteFile, FillFile, WriteFailsFile, InsertFile, DiscardFile,
     RegisterFile, UpdateFile, UnlinkFile, EraseFile, KeySteps DEF Step
<1>3. ASSUME NEW c \in Callers, NEW g \in Ids, AnyRequest(c, g)
      PROVE  FileInv(f)'
  BY <1>3, CreatesFile, QuietBegins DEF AnyRequest
<1>4. ASSUME NEW p \in Procs, ExpireKey(p)
      PROVE  FileInv(f)'
  <2>1. UNCHANGED <<rowVars, objects, claims, damaged, req>>
    BY <1>4 DEF ExpireKey, ghosts
  <2> QED
    BY <2>1, SameState, SameRequest, QuietFile
<1> QED
  BY <1>1, <1>2, <1>3, <1>4, CrashFile, BucketFile DEF Next

Files == \A f \in Ids : FileInv(f)

LEMMA InitFiles == Init => Files
  BY IdleType DEF Init, Files, FileInv, Unused, Single, On, FileSteps, Stored

-----------------------------------------------------------------------------
(* How the request of one caller changes.                                  *)

\* A request that begins, ends or goes on, and writes nothing.
Turns(d) ==
  \/ req'[d].step \in {"idle", "registering", "staging", "unlinking",
                       "erasing", "discarding", "ensuring", "rotating",
                       "dropping"}
  \/ req'[d].step = "listing" /\ at[req'[d].file] = "staged"
  \/ req'[d].step = "encoding" /\ req'[d].op = "create" /\ req'[d].data = Chunks
  \/ Continued(d) /\ req[d].step \notin {"listing", "reading"}

\* A request that is dropped.
Dropped(d) ==
  /\ req'[d].step = "idle"
  /\ WriteFails(d) \/ \E p \in Procs : Crash(p) /\ d \in Served(p)

Changed(d) ==
  \/ req'[d] = req[d]
  \/ Write(d) \/ Fill(d) \/ List(d) \/ ReadChunk(d)
  \/ Dropped(d)
  \/ req[d].step # "filling" /\ Turns(d)

LEMMA EndsTransition ==
  ASSUME TypeOK, NEW c \in Callers,
         \/ WriteFails(c) \/ Insert(c) \/ Discard(c) \/ Register(c)
         \/ Update(c) \/ Unlink(c) \/ Erase(c) \/ Ensure(c) \/ Rotate(c)
         \/ Drop(c)
  PROVE  /\ \A d \in Callers \ {c} : req'[d] = req[d]
         /\ Changed(c)
<1>1. \/ Answer(c)
      \/ Go(c, "discarding") \/ Go(c, "erasing") \/ Go(c, "dropping")
  BY DEF WriteFails, Insert, Discard, Register, Update, Unlink, Erase, Ensure,
     Rotate, Drop
<1>2. /\ \A d \in Callers \ {c} : req'[d] = req[d]
      /\ req'[c].step \in {"idle", "discarding", "erasing", "dropping"}
  BY <1>1, AnswerStep, GoStep DEF Steps
<1>3. CASE WriteFails(c)
  <2>1. Answer(c)
    BY <1>3 DEF WriteFails
  <2> QED
    BY <2>1, <1>2, <1>3, AnswerStep DEF Changed, Dropped
<1>4. CASE ~WriteFails(c)
  <2>1. req[c].step # "filling"
    BY <1>4 DEF Insert, Discard, Register, Update, Unlink, Erase, Ensure,
       Rotate, Drop, At
  <2> QED
    BY <2>1, <1>2 DEF Changed, Turns
<1> QED
  BY <1>2, <1>3, <1>4

LEMMA BeginsTransition ==
  ASSUME TypeOK, NEW c \in Callers,
         \/ EnsureProjectKey(c) \/ RotateProjectKey(c)
         \/ \E f \in Ids : AnyRequest(c, f)
  PROVE  /\ \A d \in Callers \ {c} : req'[d] = req[d]
         /\ Changed(c)
<1> DEFINE Goal == /\ \A d \in Callers \ {c} : req'[d] = req[d]
                   /\ Changed(c)
<1> SUFFICES Goal
  OBVIOUS
<1>1. ASSUME NEW r, Start(c, r),
             \/ r.step \in {"registering", "staging", "unlinking",
                            "ensuring", "rotating"}
             \/ r.step = "listing" /\ at[r.file] = "staged"
             \/ r.step = "encoding" /\ r.op = "create" /\ r.data = Chunks
      PROVE  Goal
  <2>1. /\ req[c].step = "idle" /\ req'[c] = r
        /\ \A d \in Callers \ {c} : req'[d] = req[d]
    BY <1>1 DEF Start, At, TypeOK
  <2> QED
    BY <2>1, <1>1 DEF Changed, Turns
<1> HIDE DEF Goal
<1>2. CASE EnsureProjectKey(c)
  <2> DEFINE r == [Idle EXCEPT !.step = "ensuring", !.op = "other"]
  <2>1. Start(c, r) /\ r.step = "ensuring"
    BY <1>2 DEF EnsureProjectKey, Idle
  <2> HIDE DEF r
  <2> QED
    BY <2>1, <1>1
<1>3. CASE RotateProjectKey(c)
  <2>1. PICK k \in Active :
          Start(c, [Idle EXCEPT !.step = "rotating", !.op = "other",
                                !.key = KeyOf(k)])
    BY <1>3 DEF RotateProjectKey
  <2> DEFINE r == [Idle EXCEPT !.step = "rotating", !.op = "other",
                               !.key = KeyOf(k)]
  <2>2. Start(c, r) /\ r.step = "rotating"
    BY <2>1 DEF Idle
  <2> HIDE DEF r
  <2> QED
    BY <2>2, <1>1
<1>4. ASSUME NEW f \in Ids, CreateFile(c, f)
      PROVE  Goal
  <2> DEFINE r == [Idle EXCEPT !.step = "encoding", !.op = "create",
                               !.file = f, !.set = setting, !.data = Chunks]
  <2>1. /\ Start(c, r) /\ r.step = "encoding" /\ r.op = "create"
        /\ r.data = Chunks
    BY <1>4 DEF CreateFile, Idle
  <2> HIDE DEF r
  <2> QED
    BY <2>1, <1>1
<1>5. ASSUME NEW f \in Ids, InitChunkedUpload(c, f)
      PROVE  Goal
  <2> DEFINE r == [Idle EXCEPT !.step = "registering", !.op = "other",
                               !.file = f]
  <2>1. Start(c, r) /\ r.step = "registering"
    BY <1>5 DEF InitChunkedUpload, Idle
  <2> HIDE DEF r
  <2> QED
    BY <2>1, <1>1
<1>6. ASSUME NEW f \in Ids, DeleteFile(c, f)
      PROVE  Goal
  <2> DEFINE r == [Idle EXCEPT !.step = "unlinking", !.op = "other",
                               !.file = f, !.was = at[f], !.path = path[f]]
  <2>1. Start(c, r) /\ r.step = "unlinking"
    BY <1>6 DEF DeleteFile, Idle
  <2> HIDE DEF r
  <2> QED
    BY <2>1, <1>1
<1>7. ASSUME NEW f \in Ids, CompleteChunkedUpload(c, f)
      PROVE  Goal
  <2> DEFINE r == [Idle EXCEPT !.step = "listing", !.op = "complete",
                               !.file = f]
  <2>1. Start(c, r) /\ r.step = "listing" /\ r.file = f /\ at[f] = "staged"
    BY <1>7 DEF CompleteChunkedUpload, Pending, Idle
  <2> HIDE DEF r
  <2> QED
    BY <2>1, <1>1
<1>8. ASSUME NEW f \in Ids, NEW i \in Chunks, UploadChunk(c, f, i)
      PROVE  Goal
  <2> DEFINE r == [Idle EXCEPT !.step = "staging", !.op = "other",
                               !.file = f, !.data = {i}]
  <2>1. Start(c, r) /\ r.step = "staging"
    BY <1>8 DEF UploadChunk, Idle
  <2> HIDE DEF r
  <2> QED
    BY <2>1, <1>1
<1> QED
  BY <1>2, <1>3, <1>4, <1>5, <1>6, <1>7, <1>8 DEF AnyRequest

LEMMA Transition ==
  ASSUME TypeOK, StepInv, [Next]_vars, NEW d \in Callers
  PROVE  Changed(d)
<1>1. CASE \/ UNCHANGED vars \/ DeleteBucket
           \/ \E s \in Settings : UpdateBucket(s)
           \/ \E p \in Procs : ExpireKey(p)
  <2>1. UNCHANGED req
    BY <1>1 DEF vars, DeleteBucket, UpdateBucket, ExpireKey
  <2> QED
    BY <2>1 DEF Changed
<1>2. ASSUME NEW p \in Procs, Crash(p)
      PROVE  Changed(d)
  BY <1>2, IdleType DEF Crash, Changed, Dropped
<1>3. ASSUME NEW c \in Callers,
             /\ \A e \in Callers \ {c} : req'[e] = req[e]
             /\ Changed(c)
      PROVE  Changed(d)
  BY <1>3 DEF Changed
<1>4. ASSUME NEW c \in Callers, \E f \in Ids : AnyRequest(c, f)
      PROVE  Changed(d)
  BY <1>3, <1>4, BeginsTransition
<1>5. ASSUME NEW c \in Callers, Step(c)
      PROVE  Changed(d)
  <2>1. CASE EnsureProjectKey(c) \/ RotateProjectKey(c)
    BY <1>3, <2>1, BeginsTransition
  <2>2. CASE \/ WriteFails(c) \/ Insert(c) \/ Discard(c) \/ Register(c)
             \/ Update(c) \/ Unlink(c) \/ Erase(c) \/ Ensure(c) \/ Rotate(c)
             \/ Drop(c)
    BY <1>3, <2>2, EndsTransition
  <2>3. CASE Write(c)
    <3>1. \A e \in Callers \ {c} : req'[e] = req[e]
      BY <2>3, GoStep DEF Write, Steps
    <3> QED
      BY <2>3, <3>1, <1>3 DEF Changed
  <2>4. CASE Fill(c)
    <3>1. Go(c, "inserting") \/ Go(c, "updating")
      BY <2>4 DEF Fill
    <3>2. \A e \in Callers \ {c} : req'[e] = req[e]
      BY <3>1, GoStep DEF Steps
    <3> QED
      BY <2>4, <3>2, <1>3 DEF Changed
  <2>5. CASE \/ Encode(c) \/ CacheKey(c) \/ MakeDir(c) \/ OpenChunk(c)
             \/ FillChunk(c) \/ Remove(c) \/ Check(c)
    <3>1. /\ \A e \in Callers \ {c} : req'[e] = req[e]
          /\ req'[c].step = "idle" \/ req'[c] = req[c] \/ Continued(c)
      BY <2>5, Continues
    <3>2. req[c].step \notin {"filling", "listing", "reading"}
      BY <2>5 DEF Encode, CacheKey, MakeDir, OpenChunk, FillChunk, Remove,
         Check, At
    <3> QED
      BY <3>1, <3>2, <1>3 DEF Changed, Turns
  <2>6. CASE List(c) \/ ReadChunk(c)
    <3>1. \A e \in Callers \ {c} : req'[e] = req[e]
      BY <2>6, Continues
    <3> QED
      BY <2>6, <3>1, <1>3 DEF Changed
  <2> QED
    BY <1>5, <2>1, <2>2, <2>3, <2>4, <2>5, <2>6 DEF Step
<1> QED
  BY <1>1, <1>2, <1>4, <1>5 DEF Next

\* What only some steps change.
LEMMA ObjectSteps ==
  ASSUME [Next]_vars
  PROVE  \/ objects' \subseteq objects
         \/ \E c \in Callers : Write(c) \/ Fill(c) \/ WriteFails(c)
         \/ \E p \in Procs : Crash(p)
<1>1. ASSUME NEW c \in Callers, Step(c), ~Write(c), ~Fill(c), ~WriteFails(c)
      PROVE  objects' \subseteq objects
  BY <1>1 DEF Step, Encode, CacheKey, Insert, Discard, Register, MakeDir,
     OpenChunk, FillChunk, List, ReadChunk, Remove, Check, Update, Unlink,
     Erase, EnsureProjectKey, Ensure, RotateProjectKey, Rotate, Drop, Without
<1>2. ASSUME NEW c \in Callers, NEW f \in Ids, AnyRequest(c, f)
      PROVE  objects' \subseteq objects
  BY <1>2 DEF AnyRequest, CreateFile, InitChunkedUpload, DeleteFile,
     CompleteChunkedUpload, UploadChunk
<1>3. CASE \/ UNCHANGED vars \/ DeleteBucket
           \/ \E s \in Settings : UpdateBucket(s)
           \/ \E p \in Procs : ExpireKey(p)
  BY <1>3 DEF vars, DeleteBucket, UpdateBucket, ExpireKey
<1> QED
  BY <1>1, <1>2, <1>3 DEF Next

LEMMA RowSteps ==
  ASSUME [Next]_vars, NEW f \in Ids, TypeOK, StepInv
  PROVE  \/ at'[f] = at[f] /\ path'[f] = path[f]
         \/ at'[f] # "final"
         \/ \E c \in Callers :
              /\ req[c].file = f /\ (Insert(c) \/ Update(c))
              /\ Answer(c) /\ path'[f] = EncodedPath(c)
<1>1. ASSUME NEW c \in Callers, Insert(c) \/ Update(c)
      PROVE  \/ at'[f] = at[f] /\ path'[f] = path[f]
             \/ req[c].file = f /\ Answer(c) /\ path'[f] = EncodedPath(c)
  <2>1. req[c].file \in Ids
    BY <1>1, Mine DEF Insert, Update, At, RecordOK, FileSteps, Steps
  <2>2. \/ UNCHANGED rowVars
        \/ /\ Answer(c)
           /\ path' = [path EXCEPT ![req[c].file] = EncodedPath(c)]
           /\ at' = [at EXCEPT ![req[c].file] = "final"]
    BY <1>1 DEF Insert, Update
  <2> QED
    BY <2>1, <2>2 DEF TypeOK, rowVars
<1>2. ASSUME NEW c \in Callers, Register(c) \/ Unlink(c)
      PROVE  (at'[f] = at[f] /\ path'[f] = path[f]) \/ at'[f] # "final"
  <2>1. req[c].file \in Ids
    BY <1>2, Mine DEF Register, Unlink, At, RecordOK, FileSteps, Steps
  <2>2. \/ UNCHANGED rowVars
        \/ path' = path /\ at' = [at EXCEPT ![req[c].file] = "staged"]
        \/ /\ path' = [path EXCEPT ![req[c].file] = Plain]
           /\ at' = [at EXCEPT ![req[c].file] = "none"]
    BY <1>2 DEF Register, Unlink, rowVars
  <2> QED
    BY <2>1, <2>2 DEF TypeOK, rowVars
<1>3. ASSUME NEW c \in Callers, Step(c), ~Insert(c), ~Update(c), ~Register(c),
             ~Unlink(c)
      PROVE  UNCHANGED rowVars
  BY <1>3 DEF Step, Encode, CacheKey, Write, Fill, WriteFails, Discard,
     MakeDir, OpenChunk, FillChunk, List, ReadChunk, Remove, Check, Erase,
     EnsureProjectKey, Ensure, RotateProjectKey, Rotate, Drop
<1>4. ASSUME NEW c \in Callers, NEW g \in Ids, AnyRequest(c, g)
      PROVE  UNCHANGED rowVars
  BY <1>4 DEF AnyRequest, CreateFile, InitChunkedUpload, DeleteFile,
     CompleteChunkedUpload, UploadChunk
<1>5. CASE \/ UNCHANGED vars \/ \E s \in Settings : UpdateBucket(s)
           \/ \E p \in Procs : ExpireKey(p) \/ Crash(p)
  BY <1>5 DEF vars, UpdateBucket, ExpireKey, Crash, rowVars
<1>6. CASE DeleteBucket
  BY <1>6 DEF DeleteBucket
<1> QED
  BY <1>1, <1>2, <1>3, <1>4, <1>5, <1>6 DEF Next, rowVars

LEMMA CountSteps ==
  ASSUME [Next]_vars
  PROVE  /\ damaged \subseteq damaged'
         /\ completes' = completes \/ \E c \in Callers : List(c)
         /\ \/ claims' = claims
            \/ \E c \in Callers, g \in Ids :
                 CreateFile(c, g) \/ InitChunkedUpload(c, g)
<1>1. ASSUME NEW c \in Callers, Step(c)
      PROVE  /\ damaged \subseteq damaged' /\ claims' = claims
             /\ completes' = completes \/ List(c)
  BY <1>1 DEF Step, Encode, CacheKey, Write, Fill, WriteFails, Insert,
     Discard, Register, MakeDir, OpenChunk, FillChunk, ReadChunk, List,
     Remove, Check, Update, Unlink, Erase, EnsureProjectKey, Ensure,
     RotateProjectKey, Rotate, Drop, ghosts
<1>2. ASSUME NEW c \in Callers, NEW f \in Ids, AnyRequest(c, f)
      PROVE  /\ damaged \subseteq damaged' /\ completes' = completes
             /\ \/ claims' = claims
                \/ CreateFile(c, f) \/ InitChunkedUpload(c, f)
  BY <1>2 DEF AnyRequest, CreateFile, InitChunkedUpload, DeleteFile,
     CompleteChunkedUpload, UploadChunk, ghosts
<1>3. CASE \/ UNCHANGED vars \/ DeleteBucket
           \/ \E s \in Settings : UpdateBucket(s)
           \/ \E p \in Procs : ExpireKey(p) \/ Crash(p)
  BY <1>3 DEF vars, DeleteBucket, UpdateBucket, ExpireKey, Crash, ghosts
<1> QED
  BY <1>1, <1>2, <1>3 DEF Next

-----------------------------------------------------------------------------
(* Who writes what.                                                        *)

\* Who has an object open is about to fill it.
OpenInv ==
  \A o \in objects : \A d \in o.open :
    req[d].step = "filling" /\ req[d].file = o.file /\ EncodedPath(d) = o.path

\* A completion that has begun to read the chunks of a file: none before the
\* first is counted, and one until the second is.
Assembly == {"reading", "removing", "checking", "encoding", "caching",
             "writing", "filling", "updating"}
Assembles(c, f) ==
  req[c].file = f /\ req[c].op = "complete" /\ req[c].step \in Assembly

Counted(f) ==
  /\ completes[f] = 0 => \A c \in Callers : ~Assembles(c, f)
  /\ completes[f] <= 1 =>
       \A c, d \in Callers : Assembles(c, f) /\ Assembles(d, f) => c = d

LEMMA OpenCallers ==
  ASSUME TypeOK, NEW o \in objects
  PROVE  o.open \subseteq Callers
  BY DEF TypeOK, OnDisk

\* What a Closed object was.
LEMMA ClosedWas ==
  ASSUME TypeOK, NEW cs, NEW torn \in SUBSET cs,
         objects' = Closed(objects, cs, torn), NEW n \in objects'
  PROVE  \E o \in objects :
           /\ n.file = o.file /\ n.path = o.path /\ n.open = o.open \ cs
           /\ o.open \cap cs = {} => n = o
<1>1. PICK o \in objects : n = ClosedBy(o, cs, torn)
  BY DEF Closed
<1>2. o \in OnDisk(Path)
  BY DEF TypeOK
<1>3. n.file = o.file /\ n.path = o.path /\ n.open = o.open \ cs
  BY <1>1, <1>2 DEF ClosedBy, OnDisk
<1>4. ASSUME o.open \cap cs = {}
      PROVE  n = o
  <2>1. o.open \ cs = o.open /\ o.open \cap torn = {}
    BY <1>4
  <2>2. n = [o EXCEPT !.open = o.open, !.state = o.state]
    BY <1>1, <1>4, <2>1 DEF ClosedBy
  <2> QED
    BY <1>2, <2>2 DEF OnDisk
<1> QED
  BY <1>3, <1>4

LEMMA NextOpen ==
  ASSUME TypeOK, StepInv, OpenInv, [Next]_vars
  PROVE  OpenInv'
<1> DEFINE Fills(d, f, q) ==
      /\ req'[d].step = "filling" /\ req'[d].file = f
      /\ EncodedPath(d)' = q
<1> SUFFICES ASSUME NEW n \in objects', NEW d \in n.open
             PROVE  Fills(d, n.file, n.path)
  BY DEF OpenInv
<1>1. ASSUME NEW o \in objects, d \in o.open, req'[d] = req[d],
             n.file = o.file, n.path = o.path
      PROVE  Fills(d, n.file, n.path)
  <2>1. EncodedPath(d)' = EncodedPath(d)
    BY <1>1 DEF EncodedPath
  <2> QED
    BY <1>1, <2>1 DEF OpenInv
<1> HIDE DEF Fills
<1>2. ASSUME NEW c \in Callers, Write(c)
      PROVE  Fills(d, n.file, n.path)
  <2> DEFINE f == req[c].file
             q == EncodedPath(c)
             new == [file |-> f, path |-> q, data |-> {}, sealed |-> 0,
                     state |-> IF OpenAt(objects, f, q) = {} THEN "empty"
                               ELSE "torn",
                     open |-> OpenAt(objects, f, q) \cup {c}]
  <2>1. /\ objects' = Without(objects, f, q) \cup {new}
        /\ req[c].step = "writing" /\ Go(c, "filling")
    BY <1>2 DEF Write, At, Truncated
  <2>2. /\ new.file = f /\ new.path = q
        /\ new.open = OpenAt(objects, f, q) \cup {c}
    OBVIOUS
  <2>3. /\ req'[c].step = "filling" /\ req'[c].file = f
        /\ req'[c].set = req[c].set /\ req'[c].key = req[c].key
        /\ \A e \in Callers \ {c} : req'[e] = req[e]
    BY <2>1, GoStep DEF Steps
  <2>4. Fills(c, f, q)
    BY <2>3 DEF Fills, EncodedPath
  <2> HIDE DEF new, f, q
  <2>5. ASSUME NEW o \in objects, d \in o.open, n.file = o.file, n.path = o.path
        PROVE  Fills(d, n.file, n.path)
    <3>1. d \in Callers /\ req[d].step = "filling"
      BY <2>5, OpenCallers DEF OpenInv
    <3>2. req'[d] = req[d]
      BY <3>1, <2>1, <2>3
    <3> QED
      BY <2>5, <3>2, <1>1
  <2>6. CASE n \in objects
    BY <2>5, <2>6
  <2>7. CASE n = new
    <3>1. CASE d = c
      BY <3>1, <2>2, <2>4, <2>7
    <3>2. CASE d \in OpenAt(objects, f, q)
      <4>1. PICK o \in objects : d \in o.open /\ o.file = f /\ o.path = q
        BY <3>2 DEF OpenAt, Named
      <4> QED
        BY <4>1, <2>2, <2>5, <2>7
    <3> QED
      BY <3>1, <3>2, <2>2, <2>7
  <2> QED
    BY <2>1, <2>6, <2>7 DEF Without
<1>3. ASSUME NEW c \in Callers, Fill(c)
      PROVE  Fills(d, n.file, n.path)
  <2>1. PICK f, q : f = req[c].file /\ q = EncodedPath(c)
    OBVIOUS
  <2>2. \/ n \in objects \ OpenBy(objects, f, q, c)
        \/ \E o \in OpenBy(objects, f, q, c) :
             n.file = f /\ n.path = q /\ n.open = o.open \ {c}
    BY <1>3, <2>1, FillNew
  <2>3. \A e \in Callers \ {c} : req'[e] = req[e]
    BY <1>3, GoStep DEF Fill, Steps
  <2>4. PICK o \in objects : /\ n.file = o.file /\ n.path = o.path
                             /\ d \in o.open /\ d # c
    <3>1. CASE n \in objects \ OpenBy(objects, f, q, c)
      <4>1. d # c
        BY <3>1, <2>1 DEF OpenInv, OpenBy, Named
      <4> QED
        BY <3>1, <4>1
    <3>2. CASE \E o \in OpenBy(objects, f, q, c) :
                 n.file = f /\ n.path = q /\ n.open = o.open \ {c}
      BY <3>2 DEF OpenBy, Named
    <3> QED
      BY <2>2, <3>1, <3>2
  <2>5. req'[d] = req[d]
    BY <2>3, <2>4, OpenCallers
  <2> QED
    BY <2>4, <2>5, <1>1
<1>4. ASSUME NEW c \in Callers, WriteFails(c)
      PROVE  Fills(d, n.file, n.path)
  <2>1. PICK torn \in {{}, {c}} : objects' = Closed(objects, {c}, torn)
    BY <1>4 DEF WriteFails
  <2>2. \A e \in Callers \ {c} : req'[e] = req[e]
    BY <1>4, AnswerStep DEF WriteFails
  <2>3. PICK o \in objects : /\ n.file = o.file /\ n.path = o.path
                             /\ n.open = o.open \ {c}
    BY <2>1, ClosedWas
  <2>4. req'[d] = req[d]
    BY <2>2, <2>3, OpenCallers
  <2> QED
    BY <2>3, <2>4, <1>1
<1>5. ASSUME NEW p \in Procs, Crash(p)
      PROVE  Fills(d, n.file, n.path)
  <2>1. PICK torn \in SUBSET Served(p) :
          objects' = Closed(objects, Served(p), torn)
    BY <1>5 DEF Crash
  <2>2. \A e \in Callers \ Served(p) : req'[e] = req[e]
    BY <1>5 DEF Crash
  <2>3. PICK o \in objects : /\ n.file = o.file /\ n.path = o.path
                             /\ n.open = o.open \ Served(p)
    BY <2>1, ClosedWas
  <2>4. req'[d] = req[d]
    BY <2>2, <2>3, OpenCallers
  <2> QED
    BY <2>3, <2>4, <1>1
<1>6. CASE /\ objects' \subseteq objects
           /\ \A c \in Callers : ~Fill(c) /\ ~WriteFails(c)
           /\ \A p \in Procs : ~Crash(p)
  <2>1. n \in objects /\ d \in Callers
    BY <1>6, OpenCallers
  <2>2. req[d].step = "filling"
    BY <2>1 DEF OpenInv
  <2>3. Changed(d)
    BY <2>1, Transition
  <2>4. req'[d] = req[d]
    BY <2>1, <2>2, <2>3, <1>6
       DEF Changed, Dropped, Write, List, ReadChunk, At
  <2> QED
    BY <2>1, <2>4, <1>1
<1> QED
  BY <1>2, <1>3, <1>4, <1>5, <1>6, ObjectSteps

LEMMA NextCounted ==
  ASSUME TypeOK, StepInv, [Next]_vars, NEW f \in Ids, Counted(f)
  PROVE  Counted(f)'
<1>1. ASSUME NEW d \in Callers, ~List(d)
      PROVE  Assembles(d, f)' => Assembles(d, f)
  <2>1. Changed(d) /\ RecordOK(req[d])
    BY Transition, Mine
  <2>2. CASE req'[d] = req[d]
    BY <2>2 DEF Assembles
  <2>3. CASE Write(d)
    <3>1. /\ req'[d].file = req[d].file /\ req'[d].op = req[d].op
          /\ req[d].step = "writing"
      BY <2>3, GoStep DEF Write, At, Steps
    <3> QED
      BY <3>1 DEF Assembles, Assembly
  <2>4. CASE Fill(d)
    <3>1. Go(d, "inserting") \/ Go(d, "updating")
      BY <2>4 DEF Fill
    <3>2. /\ req'[d].file = req[d].file /\ req'[d].op = req[d].op
          /\ req[d].step = "filling"
      BY <2>4, <3>1, GoStep DEF Fill, At, Steps
    <3> QED
      BY <3>2 DEF Assembles, Assembly
  <2>5. CASE ReadChunk(d)
    <3>1. /\ req[d].step = "reading"
          /\ req'[d].step = "idle" \/ req'[d] = req[d] \/ Continued(d)
      BY <2>5, Continues DEF ReadChunk, At
    <3> QED
      BY <3>1 DEF Assembles, Assembly, Continued
  <2>6. CASE Dropped(d)
    BY <2>6 DEF Dropped, Assembles, Assembly
  <2>7. CASE Turns(d)
    BY <2>1, <2>7 DEF Turns, Assembles, Assembly, Continued, Onward, RecordOK
  <2> QED
    BY <1>1, <2>1, <2>2, <2>3, <2>4, <2>5, <2>6, <2>7 DEF Changed
<1>2. CASE \A c \in Callers : ~List(c)
  <2>1. completes' = completes
    BY <1>2, CountSteps
  <2> QED
    BY <1>1, <1>2, <2>1 DEF Counted
<1>3. ASSUME NEW c \in Callers, List(c)
      PROVE  Counted(f)'
  <2>1. /\ req[c].step = "listing" /\ req[c].file \in Ids
        /\ \A d \in Callers \ {c} : req'[d] = req[d]
    BY <1>3, Continues, Mine DEF List, At, RecordOK, FileSteps, Steps
  <2>2. \A d \in Callers \ {c} : Assembles(d, f)' <=> Assembles(d, f)
    BY <2>1 DEF Assembles
  <2>3. CASE Answer(c) /\ completes' = completes
    <3>1. ~Assembles(c, f)'
      BY <2>3, AnswerStep DEF Assembles, Assembly
    <3> QED
      BY <2>2, <2>3, <3>1 DEF Counted
  <2>4. CASE completes' = [completes EXCEPT ![req[c].file] = @ + 1]
    <3>1. completes[f] \in Nat
      BY DEF TypeOK
    <3>2. CASE req[c].file # f
      <4>1. completes'[f] = completes[f]
        BY <3>2, <2>4
      <4>2. req'[c].file # f \/ req'[c].step = "idle"
        BY <1>3, <3>2, Continues DEF Continued
      <4>3. ~Assembles(c, f)'
        BY <4>2 DEF Assembles, Assembly
      <4> QED
        BY <2>2, <4>1, <4>3 DEF Counted
    <3>3. CASE req[c].file = f
      <4>1. completes'[f] = completes[f] + 1
        BY <3>3, <2>4 DEF TypeOK
      <4>2. completes'[f] # 0
        BY <4>1, <3>1
      <4>3. completes'[f] <= 1 => completes[f] = 0
        BY <4>1, <3>1
      <4>4. completes'[f] <= 1 => \A d \in Callers \ {c} : ~Assembles(d, f)'
        BY <4>3, <2>2 DEF Counted
      <4> QED
        BY <4>2, <4>4 DEF Counted
    <3> QED
      BY <3>2, <3>3
  <2> QED
    BY <1>3, <2>3, <2>4 DEF List
<1> QED
  BY <1>2, <1>3

-----------------------------------------------------------------------------
(* What a file's row points at is whole.                                   *)

\* A request that is to write an object of a file, or has written it.
Writes(c, f) ==
  \/ /\ req[c].file = f /\ req[c].op = "create"
     /\ req[c].step \in {"encoding", "caching", "writing", "filling",
                         "inserting"}
  \/ Assembles(c, f)

\* A file that one request creates or has created, until a second completion
\* reads its chunks: its writer opens an empty object and leaves it whole, and
\* when the row points at it nobody writes it any more.
SoundWriter(c, f) ==
  /\ req[c].step = "filling" =>
       \A o \in Named(objects, f, EncodedPath(c)) :
         o.state = "empty" /\ c \in o.open
  /\ req[c].step \in {"inserting", "updating"} =>
       \A o \in Named(objects, f, EncodedPath(c)) : o.state = "whole"

Sound(f) ==
  claims[f] = 1 /\ f \notin damaged /\ completes[f] <= 1 =>
    /\ \A c \in Callers : Writes(c, f) => SoundWriter(c, f)
    /\ at[f] = "final" =>
         /\ \A c \in Callers : ~Assembles(c, f)
         /\ completes[f] = 0 =>
              \A c \in Callers : ~(req[c].file = f /\ req[c].step = "listing")
         /\ \A o \in ObjectsOf(f) : o.state = "whole"

LEMMA SoleWriter ==
  ASSUME NEW f \in Ids, FileInv(f), Counted(f), claims[f] = 1, f \notin damaged,
         completes[f] <= 1
  PROVE  /\ \A c, d \in Callers : Writes(c, f) /\ Writes(d, f) => c = d
         /\ at[f] = "final" =>
              \A c \in Callers : Writes(c, f) => Assembles(c, f)
<1>1. Single(f)
  BY DEF FileInv
<1>2. ASSUME NEW c \in Callers, Writes(c, f), ~Assembles(c, f)
      PROVE  Creating(c, f)
  BY <1>2 DEF Writes, Creating, Creation, On, FileSteps, Steps
<1>3. \A c \in Callers : Writes(c, f) => On(c, f)
  BY DEF Writes, Assembles, Assembly, On, FileSteps, Steps
<1>4. \A c \in Callers : Creating(c, f) =>
        at[f] = "none" /\ \A d \in Callers : On(d, f) => d = c
  BY <1>1 DEF Single, SingleBusy, Creating
<1> QED
  BY <1>2, <1>3, <1>4 DEF Counted

\* Who has an object of a file open writes it.
LEMMA OpenWrites ==
  ASSUME TypeOK, StepInv, OpenInv, NEW o \in objects, NEW d \in o.open
  PROVE  /\ d \in Callers /\ Writes(d, o.file) /\ req[d].step = "filling"
         /\ EncodedPath(d) = o.path
<1>1. d \in Callers /\ RecordOK(req[d])
  BY OpenCallers, Mine
<1> QED
  BY <1>1 DEF OpenInv, Writes, Assembles, Assembly, RecordOK

\* A step that adds no writer, and leaves what it does not close.
Calm(f) ==
  /\ claims'[f] = claims[f] /\ completes'[f] = completes[f]
  /\ damaged \subseteq damaged'
  /\ \/ at'[f] = at[f] /\ path'[f] = path[f]
     \/ at'[f] # "final"
  /\ \A n \in objects' : n.file = f =>
       \E o \in objects :
         /\ o.file = f /\ o.path = n.path
         /\ (\A d \in o.open : req'[d] = req[d]) => n = o
  /\ \A d \in Callers :
       /\ Writes(d, f)'
          /\ req'[d].step \in {"filling", "inserting", "updating"} =>
            req'[d] = req[d]
       /\ Assembles(d, f)' => Assembles(d, f)
       /\ req'[d].file = f /\ req'[d].step = "listing" =>
            (req[d].file = f /\ req[d].step = "listing") \/ at[f] = "staged"

LEMMA CalmSound ==
  ASSUME TypeOK, StepInv, OpenInv, NEW f \in Ids, FileInv(f), Counted(f),
         Sound(f), Calm(f)
  PROVE  Sound(f)'
<1> SUFFICES ASSUME claims'[f] = 1, f \notin damaged', completes'[f] <= 1
             PROVE  /\ \A c \in Callers : Writes(c, f)' => SoundWriter(c, f)'
                    /\ at'[f] = "final" =>
                         /\ \A c \in Callers : ~Assembles(c, f)'
                         /\ completes'[f] = 0 => \A c \in Callers :
                              ~(req'[c].file = f /\ req'[c].step = "listing")
                         /\ \A o \in ObjectsOf(f)' : o.state = "whole"
  BY DEF Sound
<1>1. claims[f] = 1 /\ f \notin damaged /\ completes[f] <= 1
  BY DEF Calm
<1>2. /\ \A c \in Callers : Writes(c, f) => SoundWriter(c, f)
      /\ at[f] = "final" =>
           /\ \A c \in Callers : ~Assembles(c, f)
           /\ completes[f] = 0 => \A c \in Callers :
                ~(req[c].file = f /\ req[c].step = "listing")
           /\ \A o \in ObjectsOf(f) : o.state = "whole"
  BY <1>1 DEF Sound
<1>3. /\ \A c, d \in Callers : Writes(c, f) /\ Writes(d, f) => c = d
      /\ at[f] = "final" => \A c \in Callers : ~Writes(c, f)
  BY <1>1, <1>2, SoleWriter
<1>4. ASSUME NEW c \in Callers, Writes(c, f)'
      PROVE  SoundWriter(c, f)'
  <2>1. ASSUME req'[c].step \in {"filling", "inserting", "updating"}
        PROVE  /\ req'[c] = req[c] /\ Writes(c, f) /\ SoundWriter(c, f)
               /\ EncodedPath(c)' = EncodedPath(c)
    <3>1. req'[c] = req[c]
      BY <1>4, <2>1 DEF Calm
    <3>2. Writes(c, f)
      BY <1>4, <3>1 DEF Writes, Assembles
    <3> QED
      BY <3>1, <3>2, <1>2 DEF EncodedPath
  <2>2. ASSUME req'[c].step \in {"filling", "inserting", "updating"},
               NEW n \in Named(objects, f, EncodedPath(c))'
        PROVE  n \in Named(objects, f, EncodedPath(c))
    <3>1. n \in objects' /\ n.file = f /\ n.path = EncodedPath(c)
      BY <2>1, <2>2 DEF Named
    <3>2. PICK o \in objects :
            /\ o.file = f /\ o.path = n.path
            /\ (\A d \in o.open : req'[d] = req[d]) => n = o
      BY <3>1 DEF Calm
    <3>3. \A d \in o.open : d = c
      BY <2>1, <2>2, <3>2, <1>3, OpenWrites
    <3>4. \A d \in o.open : req'[d] = req[d]
      BY <3>3, <2>1, <2>2
    <3> QED
      BY <3>1, <3>2, <3>4 DEF Named
  <2>3. ASSUME req'[c].step = "filling",
               NEW n \in Named(objects, f, EncodedPath(c))'
        PROVE  n.state = "empty" /\ c \in n.open
    <3>1. n \in Named(objects, f, EncodedPath(c))
      BY <2>2, <2>3
    <3> QED
      BY <2>1, <2>3, <3>1 DEF SoundWriter
  <2>4. ASSUME req'[c].step \in {"inserting", "updating"},
               NEW n \in Named(objects, f, EncodedPath(c))'
        PROVE  n.state = "whole"
    <3>1. n \in Named(objects, f, EncodedPath(c))
      BY <2>2, <2>4
    <3> QED
      BY <2>1, <2>4, <3>1 DEF SoundWriter
  <2> QED
    BY <2>3, <2>4 DEF SoundWriter
<1>5. ASSUME at'[f] = "final"
      PROVE  /\ \A c \in Callers : ~Assembles(c, f)'
             /\ completes'[f] = 0 => \A c \in Callers :
                  ~(req'[c].file = f /\ req'[c].step = "listing")
             /\ \A n \in ObjectsOf(f)' : n.state = "whole"
  <2>1. at[f] = "final" /\ path'[f] = path[f]
    BY <1>5 DEF Calm
  <2>2. \A c \in Callers : ~Assembles(c, f)'
    BY <2>1, <1>2 DEF Calm
  <2>3. completes'[f] = 0 => \A c \in Callers :
          ~(req'[c].file = f /\ req'[c].step = "listing")
    BY <2>1, <1>2 DEF Calm
  <2>4. ASSUME NEW n \in ObjectsOf(f)'
        PROVE  n.state = "whole"
    <3>1. n \in objects' /\ n.file = f /\ n.path = path[f]
      BY <2>1, <2>4 DEF ObjectsOf, Named
    <3>2. PICK o \in objects :
            /\ o.file = f /\ o.path = n.path
            /\ (\A d \in o.open : req'[d] = req[d]) => n = o
      BY <3>1 DEF Calm
    <3>3. o.open = {}
      BY <2>1, <3>2, <1>3, OpenWrites
    <3> QED
      BY <2>1, <3>1, <3>2, <3>3, <1>2 DEF ObjectsOf, Named
  <2> QED
    BY <2>2, <2>3, <2>4
<1> QED
  BY <1>4, <1>5

\* The requests of a step in which nobody writes the file or begins to read
\* its chunks.
LEMMA CalmRequests ==
  ASSUME TypeOK, StepInv, [Next]_vars, NEW f \in Ids, NEW d \in Callers,
         Write(d) \/ Fill(d) \/ List(d) =>
           req'[d].file # f \/ req'[d].step = "idle"
  PROVE  /\ Writes(d, f)'
            /\ req'[d].step \in {"filling", "inserting", "updating"} =>
              req'[d] = req[d]
         /\ Assembles(d, f)' => Assembles(d, f)
         /\ req'[d].file = f /\ req'[d].step = "listing" =>
              (req[d].file = f /\ req[d].step = "listing") \/ at[f] = "staged"
<1>1. Changed(d) /\ RecordOK(req[d])
  BY Transition, Mine
<1>2. CASE req'[d] = req[d]
  BY <1>2 DEF Assembles
<1>3. CASE Write(d) \/ Fill(d) \/ List(d)
  BY <1>3 DEF Writes, Assembles, Assembly
<1>4. CASE ReadChunk(d)
  <2>1. /\ req[d].step = "reading"
        /\ req'[d].step = "idle" \/ req'[d] = req[d] \/ Continued(d)
    BY <1>4, Continues DEF ReadChunk, At
  <2> QED
    BY <2>1 DEF Assembles, Assembly, Continued, Onward
<1>5. CASE Dropped(d)
  BY <1>5 DEF Dropped, Assembles, Assembly
<1>6. CASE Turns(d)
  BY <1>1, <1>6 DEF Turns, Assembles, Assembly, Continued, Onward, RecordOK
<1> QED
  BY <1>1, <1>2, <1>3, <1>4, <1>5, <1>6 DEF Changed

LEMMA CalmObjects ==
  ASSUME TypeOK, StepInv, OpenInv, [Next]_vars, NEW f \in Ids,
         \A c \in Callers : Write(c) \/ Fill(c) => req[c].file # f,
         NEW n \in objects', n.file = f
  PROVE  \E o \in objects :
           /\ o.file = f /\ o.path = n.path
           /\ (\A d \in o.open : req'[d] = req[d]) => n = o
<1>1. CASE n \in objects
  BY <1>1
<1>2. CASE objects' \subseteq objects
  BY <1>1, <1>2
<1>3. ASSUME NEW c \in Callers, Write(c)
      PROVE  n \in objects
  <2> DEFINE g == req[c].file
             q == EncodedPath(c)
             new == [file |-> g, path |-> q, data |-> {}, sealed |-> 0,
                     state |-> IF OpenAt(objects, g, q) = {} THEN "empty"
                               ELSE "torn",
                     open |-> OpenAt(objects, g, q) \cup {c}]
  <2>1. objects' = Without(objects, g, q) \cup {new} /\ g # f
    BY <1>3 DEF Write, Truncated
  <2>2. new.file = g
    OBVIOUS
  <2> HIDE DEF new
  <2> QED
    BY <2>1, <2>2 DEF Without
<1>4. ASSUME NEW c \in Callers, Fill(c)
      PROVE  n \in objects
  <2>1. PICK g, q : g = req[c].file /\ q = EncodedPath(c)
    OBVIOUS
  <2>2. n \in objects \/ n.file = g
    BY <1>4, <2>1, FillNew
  <2> QED
    BY <1>4, <2>1, <2>2
<1>5. ASSUME NEW cs, NEW torn \in SUBSET cs,
             objects' = Closed(objects, cs, torn),
             \A d \in cs : req'[d].step = "idle"
      PROVE  \E o \in objects :
               /\ o.file = f /\ o.path = n.path
               /\ (\A d \in o.open : req'[d] = req[d]) => n = o
  <2>1. PICK o \in objects :
          /\ n.file = o.file /\ n.path = o.path
          /\ o.open \cap cs = {} => n = o
    BY <1>5, ClosedWas
  <2>2. ASSUME \A d \in o.open : req'[d] = req[d]
        PROVE  o.open \cap cs = {}
    BY <2>2, <1>5 DEF OpenInv
  <2> QED
    BY <2>1, <2>2
<1>6. ASSUME NEW c \in Callers, WriteFails(c)
      PROVE  \E o \in objects :
               /\ o.file = f /\ o.path = n.path
               /\ (\A d \in o.open : req'[d] = req[d]) => n = o
  <2>1. PICK torn \in {{}, {c}} : objects' = Closed(objects, {c}, torn)
    BY <1>6 DEF WriteFails
  <2>2. req'[c].step = "idle"
    BY <1>6, AnswerStep DEF WriteFails
  <2> QED
    BY <2>1, <2>2, <1>5
<1>7. ASSUME NEW p \in Procs, Crash(p)
      PROVE  \E o \in objects :
               /\ o.file = f /\ o.path = n.path
               /\ (\A d \in o.open : req'[d] = req[d]) => n = o
  <2>1. PICK torn \in SUBSET Served(p) :
          objects' = Closed(objects, Served(p), torn)
    BY <1>7 DEF Crash
  <2>2. \A d \in Served(p) : req'[d].step = "idle"
    BY <1>7, IdleType DEF Crash, Served
  <2> QED
    BY <2>1, <2>2, <1>5
<1> QED
  BY <1>1, <1>2, <1>3, <1>4, <1>6, <1>7, ObjectSteps

LEMMA ClaimSound ==
  ASSUME TypeOK, NEW c \in Callers, NEW g \in Ids, NEW f \in Ids, FileInv(f),
         CreateFile(c, g) \/ InitChunkedUpload(c, g), claims'[f] # claims[f]
  PROVE  Sound(f)'
<1>1. /\ claims' = [claims EXCEPT ![g] = @ + 1]
      /\ UNCHANGED <<rowVars, objects>>
  BY DEF CreateFile, InitChunkedUpload
<1>2. claims[f] \in Nat /\ claims'[f] = claims[f] + 1
  BY <1>1 DEF TypeOK
<1>3. ASSUME claims'[f] = 1
      PROVE  at'[f] = "none" /\ \A o \in objects' : o.file # f
  <2>1. claims[f] = 0
    BY <1>2, <1>3
  <2>2. Unused(f)
    BY <2>1 DEF FileInv
  <2> QED
    BY <2>2, <1>1 DEF Unused, Stored, rowVars
<1>4. ASSUME claims'[f] = 1
      PROVE  at'[f] = "none" /\ \A p : Named(objects', f, p) = {}
  BY <1>3, <1>4 DEF Named
<1>5. ASSUME claims'[f] = 1, NEW d \in Callers
      PROVE  Named(objects, f, EncodedPath(d))' = {}
  BY <1>4, <1>5 DEF Named
<1> QED
  BY <1>4, <1>5 DEF Sound, SoundWriter

\* While a file is created or assembled once, it is not committed.
LEMMA WriterUncommitted ==
  ASSUME NEW f \in Ids, FileInv(f), Counted(f), Sound(f), claims[f] = 1,
         f \notin damaged, completes[f] <= 1, NEW c \in Callers, Writes(c, f)
  PROVE  at[f] # "final"
  BY SoleWriter DEF Sound

LEMMA WriteSound ==
  ASSUME TypeOK, StepInv, OpenInv, NEW c \in Callers, NEW f \in Ids,
         FileInv(f), Counted(f), Sound(f), Write(c), req[c].file = f
  PROVE  Sound(f)'
<1> DEFINE q == EncodedPath(c)
           new == [file |-> f, path |-> q, data |-> {}, sealed |-> 0,
                   state |-> IF OpenAt(objects, f, q) = {} THEN "empty"
                             ELSE "torn",
                   open |-> OpenAt(objects, f, q) \cup {c}]
<1>1. /\ objects' = Without(objects, f, q) \cup {new}
      /\ req[c].step = "writing" /\ Go(c, "filling")
      /\ UNCHANGED <<rowVars, ghosts>>
  BY DEF Write, At, Truncated
<1>2. /\ new.file = f /\ new.path = q
      /\ new.open = OpenAt(objects, f, q) \cup {c}
      /\ OpenAt(objects, f, q) = {} => new.state = "empty"
  OBVIOUS
<1>3. /\ req'[c].step = "filling" /\ req'[c].set = req[c].set
      /\ req'[c].key = req[c].key
      /\ \A d \in Callers \ {c} : req'[d] = req[d]
  BY <1>1, GoStep DEF Steps
<1>4. EncodedPath(c)' = q
  BY <1>3 DEF EncodedPath
<1> HIDE DEF new, q
<1>5. SUFFICES ASSUME claims[f] = 1, f \notin damaged, completes[f] <= 1
               PROVE  Sound(f)'
  BY <1>1 DEF Sound, ghosts
<1>6. Writes(c, f)
  <2>1. RecordOK(req[c])
    BY Mine
  <2> QED
    BY <2>1, <1>1 DEF Writes, Assembles, Assembly, RecordOK
<1>7. at'[f] # "final"
  BY <1>1, <1>5, <1>6, WriterUncommitted DEF rowVars
<1>8. \A d \in Callers : Writes(d, f)' => d = c
  <2>1. \A d \in Callers : Writes(d, f) => d = c
    BY <1>5, <1>6, SoleWriter
  <2>2. \A d \in Callers \ {c} : Writes(d, f)' => Writes(d, f)
    BY <1>3 DEF Writes, Assembles
  <2> QED
    BY <2>1, <2>2
<1>9. OpenAt(objects, f, q) = {}
  <2>1. SUFFICES ASSUME NEW o \in Named(objects, f, q), NEW d \in o.open
                 PROVE  FALSE
    BY DEF OpenAt
  <2>2. d \in Callers /\ Writes(d, f) /\ req[d].step = "filling"
    BY <2>1, OpenWrites DEF Named
  <2>3. d = c
    BY <2>2, <1>5, <1>6, SoleWriter
  <2> QED
    BY <2>2, <2>3, <1>1
<1>10. \A o \in Named(objects, f, EncodedPath(c))' :
         o.state = "empty" /\ c \in o.open
  <2>1. \A o \in Named(objects', f, q) : o = new
    BY <1>1 DEF Named, Without
  <2> QED
    BY <2>1, <1>2, <1>4, <1>9 DEF Named
<1>11. SoundWriter(c, f)'
  BY <1>3, <1>10 DEF SoundWriter
<1> QED
  BY <1>7, <1>8, <1>11 DEF Sound

LEMMA FillSound ==
  ASSUME TypeOK, StepInv, OpenInv, NEW c \in Callers, NEW f \in Ids,
         FileInv(f), Counted(f), Sound(f), Fill(c), req[c].file = f
  PROVE  Sound(f)'
<1> DEFINE s == IF req[c].op = "create" THEN "inserting" ELSE "updating"
<1>1. /\ req[c].step = "filling" /\ Go(c, s)
      /\ UNCHANGED <<rowVars, ghosts>>
  BY DEF Fill, At
<1>2. s \in {"inserting", "updating"}
  OBVIOUS
<1> HIDE DEF s
<1>3. /\ req'[c].step = s /\ req'[c].set = req[c].set
      /\ req'[c].key = req[c].key
      /\ \A d \in Callers \ {c} : req'[d] = req[d]
  BY <1>1, <1>2, GoStep DEF Steps
<1>4. PICK q : q = EncodedPath(c)
  OBVIOUS
<1>5. EncodedPath(c)' = q
  BY <1>3, <1>4 DEF EncodedPath
<1>6. SUFFICES ASSUME claims[f] = 1, f \notin damaged, completes[f] <= 1
               PROVE  Sound(f)'
  BY <1>1 DEF Sound, ghosts
<1>7. Writes(c, f)
  <2>1. RecordOK(req[c])
    BY Mine
  <2> QED
    BY <2>1, <1>1 DEF Writes, Assembles, Assembly, RecordOK
<1>8. at'[f] # "final"
  BY <1>1, <1>6, <1>7, WriterUncommitted DEF rowVars
<1>9. \A d \in Callers : Writes(d, f)' => d = c
  <2>1. \A d \in Callers : Writes(d, f) => d = c
    BY <1>6, <1>7, SoleWriter
  <2>2. \A d \in Callers \ {c} : Writes(d, f)' => Writes(d, f)
    BY <1>3 DEF Writes, Assembles
  <2> QED
    BY <2>1, <2>2
<1>10. \A o \in Named(objects, f, q) : o.state = "empty" /\ c \in o.open
  BY <1>1, <1>4, <1>6, <1>7 DEF Sound, SoundWriter
<1>11. Alone(objects, f, q, c)
  BY <1>10 DEF Alone, OpenBy
<1>12. ASSUME NEW n \in objects', n.file = f, n.path = q
       PROVE  n.state = "whole"
  <2>1. \/ n \in objects \ OpenBy(objects, f, q, c)
        \/ \E o \in OpenBy(objects, f, q, c) : n.state = "whole"
    BY <1>4, <1>11, FillNew
  <2>2. n \in objects => n \in OpenBy(objects, f, q, c)
    BY <1>10, <1>12 DEF OpenBy, Named
  <2> QED
    BY <2>1, <2>2
<1>13. \A o \in Named(objects, f, EncodedPath(c))' : o.state = "whole"
  BY <1>5, <1>12 DEF Named
<1>14. SoundWriter(c, f)'
  BY <1>2, <1>3, <1>13 DEF SoundWriter
<1> QED
  BY <1>8, <1>9, <1>14 DEF Sound

\* The first completion begins to read: the file is not committed.
LEMMA ListSound ==
  ASSUME TypeOK, StepInv, NEW c \in Callers, NEW f \in Ids, Sound(f), List(c),
         completes'[f] # completes[f]
  PROVE  Sound(f)'
<1>1. /\ req[c].step = "listing" /\ req[c].file = f
      /\ completes' = [completes EXCEPT ![f] = @ + 1]
      /\ UNCHANGED <<rowVars, objects, claims, damaged>>
      /\ \E todo : req' = [req EXCEPT ![c].step = "reading", ![c].todo = todo]
  BY DEF List, At, TypeOK
<1>2. req'[c].step = "reading" /\ \A d \in Callers \ {c} : req'[d] = req[d]
  BY <1>1 DEF TypeOK, Request
<1>3. completes[f] \in Nat /\ completes'[f] = completes[f] + 1
  BY <1>1 DEF TypeOK
<1>4. SUFFICES ASSUME claims[f] = 1, f \notin damaged, completes'[f] <= 1
               PROVE  Sound(f)'
  BY <1>1 DEF Sound
<1>5. completes[f] = 0
  BY <1>3, <1>4
<1>6. at'[f] # "final"
  BY <1>1, <1>4, <1>5 DEF Sound, rowVars
<1>7. ASSUME NEW d \in Callers, Writes(d, f)'
      PROVE  SoundWriter(d, f)'
  <2>1. CASE d = c
    BY <2>1, <1>2 DEF SoundWriter
  <2>2. CASE d # c
    <3>1. req'[d] = req[d] /\ Writes(d, f)
      BY <1>2, <1>7, <2>2 DEF Writes, Assembles
    <3>2. SoundWriter(d, f)
      BY <3>1, <1>4, <1>5 DEF Sound
    <3> QED
      BY <3>1, <3>2, <1>1 DEF SoundWriter, Named, EncodedPath
  <2> QED
    BY <2>1, <2>2
<1> QED
  BY <1>6, <1>7 DEF Sound

\* The row gets the path of the object that the one writer has left whole.
LEMMA RowSound ==
  ASSUME TypeOK, StepInv, NEW c \in Callers, NEW f \in Ids, FileInv(f),
         Counted(f), Sound(f), Insert(c) \/ Update(c), req[c].file = f,
         Answer(c), path'[f] = EncodedPath(c)
  PROVE  Sound(f)'
<1>1. /\ req[c].step \in {"inserting", "updating"}
      /\ req[c].step = "inserting" => req[c].op = "create"
      /\ req[c].step = "updating" => req[c].op = "complete"
      /\ UNCHANGED <<objects, ghosts>>
  BY Mine DEF Insert, Update, At, RecordOK
<1>2. req'[c].step = "idle" /\ \A d \in Callers \ {c} : req'[d] = req[d]
  BY AnswerStep
<1>3. SUFFICES ASSUME claims[f] = 1, f \notin damaged, completes[f] <= 1
               PROVE  Sound(f)'
  BY <1>1 DEF Sound, ghosts
<1>4. Writes(c, f)
  BY <1>1 DEF Writes, Assembles, Assembly
<1>5. \A d \in Callers : ~Writes(d, f)'
  <2>1. \A d \in Callers : Writes(d, f) => d = c
    BY <1>3, <1>4, SoleWriter
  <2>2. \A d \in Callers \ {c} : Writes(d, f)' => Writes(d, f)
    BY <1>2 DEF Writes, Assembles
  <2>3. ~Writes(c, f)'
    BY <1>2 DEF Writes, Assembles, Assembly
  <2> QED
    BY <2>1, <2>2, <2>3
<1>6. completes[f] = 0 => \A d \in Callers :
        ~(req'[d].file = f /\ req'[d].step = "listing")
  <2>1. ASSUME completes[f] = 0
        PROVE  Creating(c, f)
    BY <2>1, <1>1, <1>4 DEF Counted, Writes, Creating, Creation, On, FileSteps,
       Steps
  <2>2. ASSUME Creating(c, f), NEW d \in Callers, d # c
        PROVE  ~On(d, f)
    BY <2>2, <1>3 DEF FileInv, Single, SingleBusy, Creating
  <2> QED
    BY <2>1, <2>2, <1>2 DEF On, FileSteps, Steps
<1>7. \A o \in ObjectsOf(f)' : o.state = "whole"
  <2>1. \A o \in Named(objects, f, EncodedPath(c)) : o.state = "whole"
    BY <1>1, <1>3, <1>4 DEF Sound, SoundWriter
  <2> QED
    BY <2>1, <1>1 DEF ObjectsOf, Named
<1>8. \A d \in Callers : ~Assembles(d, f)'
  BY <1>5 DEF Writes
<1>9. completes' = completes
  BY <1>1 DEF ghosts
<1> QED
  BY <1>5, <1>6, <1>7, <1>8, <1>9 DEF Sound

LEMMA NextSound ==
  ASSUME TypeOK, StepInv, OpenInv, [Next]_vars, NEW f \in Ids, FileInv(f),
         Counted(f), Sound(f)
  PROVE  Sound(f)'
<1>1. CASE claims'[f] # claims[f]
  BY <1>1, CountSteps, ClaimSound
<1>2. CASE \E c \in Callers : Write(c) /\ req[c].file = f
  BY <1>2, WriteSound
<1>3. CASE \E c \in Callers : Fill(c) /\ req[c].file = f
  BY <1>3, FillSound
<1>4. CASE completes'[f] # completes[f]
  BY <1>4, CountSteps, ListSound
<1>5. CASE \E c \in Callers :
             /\ req[c].file = f /\ (Insert(c) \/ Update(c))
             /\ Answer(c) /\ path'[f] = EncodedPath(c)
  BY <1>5, RowSound
<1>6. CASE /\ claims'[f] = claims[f] /\ completes'[f] = completes[f]
           /\ \A c \in Callers : Write(c) \/ Fill(c) => req[c].file # f
           /\ ~\E c \in Callers :
                 /\ req[c].file = f /\ (Insert(c) \/ Update(c))
                 /\ Answer(c) /\ path'[f] = EncodedPath(c)
  <2>1. /\ damaged \subseteq damaged'
        /\ \/ at'[f] = at[f] /\ path'[f] = path[f]
           \/ at'[f] # "final"
    BY <1>6, CountSteps, RowSteps
  <2>2. \A n \in objects' : n.file = f =>
          \E o \in objects :
            /\ o.file = f /\ o.path = n.path
            /\ (\A d \in o.open : req'[d] = req[d]) => n = o
    BY <1>6, CalmObjects
  <2>3. ASSUME NEW d \in Callers, Write(d) \/ Fill(d) \/ List(d)
        PROVE  req'[d].file # f \/ req'[d].step = "idle"
    <3>1. CASE Write(d)
      BY <3>1, <1>6, GoStep DEF Write, Steps
    <3>2. CASE Fill(d)
      <4>1. Go(d, "inserting") \/ Go(d, "updating")
        BY <3>2 DEF Fill
      <4> QED
        BY <4>1, <3>2, <1>6, GoStep DEF Steps
    <3>3. CASE List(d)
      <4>1. CASE Answer(d)
        BY <4>1, AnswerStep
      <4>2. CASE completes' = [completes EXCEPT ![req[d].file] = @ + 1]
        <5>1. completes[f] \in Nat /\ completes \in [Ids -> Nat]
          BY DEF TypeOK
        <5>2. req[d].file # f
          BY <4>2, <5>1, <1>6
        <5> QED
          BY <3>3, <5>2, Continues DEF Continued
      <4> QED
        BY <3>3, <4>1, <4>2 DEF List
    <3> QED
      BY <2>3, <3>1, <3>2, <3>3
  <2>4. Calm(f)
    BY <1>6, <2>1, <2>2, <2>3, CalmRequests DEF Calm
  <2> QED
    BY <2>4, CalmSound
<1> QED
  BY <1>1, <1>2, <1>3, <1>4, <1>5, <1>6

\* All of it.
FilesInv ==
  /\ OpenInv
  /\ \A f \in Ids : FileInv(f) /\ Counted(f) /\ Sound(f)

LEMMA InitFilesInv == Init => FilesInv
<1> SUFFICES ASSUME Init PROVE FilesInv
  OBVIOUS
<1>1. /\ objects = {} /\ \A c \in Callers : req[c] = Idle
      /\ \A f \in Ids : at[f] = "none"
  BY DEF Init
<1>2. OpenInv
  BY <1>1 DEF OpenInv
<1>3. \A f \in Ids, c \in Callers : ~Assembles(c, f)
  BY <1>1, IdleType DEF Assembles, Assembly
<1>4. \A f \in Ids, c \in Callers : ~Writes(c, f)
  BY <1>1, <1>3, IdleType DEF Writes
<1>5. \A f \in Ids : Counted(f) /\ Sound(f)
  BY <1>1, <1>3, <1>4 DEF Counted, Sound
<1>6. \A f \in Ids : FileInv(f)
  BY InitFiles DEF Files
<1> QED
  BY <1>2, <1>5, <1>6 DEF FilesInv

LEMMA NextFilesInv == Base /\ FilesInv /\ [Next]_vars => FilesInv'
<1> SUFFICES ASSUME Base, FilesInv, [Next]_vars PROVE FilesInv'
  OBVIOUS
<1>1. TypeOK /\ StepInv
  BY DEF Base
<1>2. OpenInv'
  BY <1>1, NextOpen DEF FilesInv
<1>3. \A f \in Ids : FileInv(f)'
  BY NextFile DEF FilesInv
<1>4. \A f \in Ids : Counted(f)'
  BY <1>1, NextCounted DEF FilesInv
<1>5. \A f \in Ids : Sound(f)'
  BY <1>1, NextSound DEF FilesInv
<1> QED
  BY <1>2, <1>3, <1>4, <1>5 DEF FilesInv

\* A file that was created once can be read back for as long as it has its
\* row: the object its row points at is there, has all its bytes and decodes,
\* whatever requests, rotations, crashes and failed statements overlap with its
\* creation, unless a failed DELETE took the object. Once two completions have
\* read the chunks one may be writing over what the other has committed: the
\* object is there, and decodes if it is whole.
THEOREM CommittedReadableTheorem == Spec => []CommittedReadable
<1> DEFINE Inv == Base /\ FilesInv
<1>1. Init => Inv
  BY InitBase, InitFilesInv
<1>2. Inv /\ [Next]_vars => Inv'
  BY NextBase, NextFilesInv
<1>3. Inv => CommittedReadable
  <2>1. SUFFICES ASSUME Inv, NEW f \in Ids \ damaged, at[f] = "final",
                        claims[f] = 1
                 PROVE  /\ ObjectsOf(f) # {}
                        /\ \A o \in ObjectsOf(f) :
                             /\ completes[f] <= 1 => o.state = "whole"
                             /\ o.state = "whole" => Decodes(o)
    BY DEF CommittedReadable
  <2>2. Stored(f, path[f])
    BY <2>1 DEF FilesInv, FileInv, Single
  <2>3. completes[f] <= 1 => \A o \in ObjectsOf(f) : o.state = "whole"
    BY <2>1 DEF FilesInv, Sound
  <2>4. \A o \in objects : o.state = "whole" => Decodes(o)
    BY <2>1 DEF Base, SealedInv
  <2> QED
    BY <2>2, <2>3, <2>4 DEF Stored, ObjectsOf, Named
<1> QED
  BY <1>1, <1>2, <1>3, PTL DEF Spec

-----------------------------------------------------------------------------
(* What a completion has read.                                             *)

\* A chunk that is on disk, and that nobody has open.
Kept(f, i) ==
  /\ Named(staged, f, i) # {}
  /\ \A o \in Named(staged, f, i) : o.data = {i} /\ o.open = {}

\* Chunk files have names, and an empty one is open to who has emptied it.
ChunksOK ==
  /\ \A o, n \in staged : o.file = n.file /\ o.path = n.path => o = n
  /\ \A o \in staged : o.state = "empty" => \E c \in Callers : o.open = {c}

\* A request that carries content on its way to an object.
Carrying == {"reading", "removing", "checking", "encoding", "caching",
             "writing", "filling"}
Carries(c, f) == req[c].file = f /\ req[c].step \in Carrying

\* Before the first completion reads them, the chunks that were answered are
\* kept, and only a whole upload in one request has put content anywhere.
\* Until a second one reads them, all content of the file covers what had been
\* answered, but for what the first has still to read, which is kept.
Carried(c, f) ==
  IF req[c].step = "reading"
  THEN /\ acked[f] \subseteq req[c].data \cup req[c].todo
       /\ \A i \in acked[f] \cap req[c].todo : Kept(f, i)
  ELSE acked[f] \subseteq req[c].data

WholeFile(f) ==
  /\ completes[f] = 0 =>
       /\ \A i \in acked[f] : Kept(f, i)
       /\ \A c \in Callers : Carries(c, f) =>
            req[c].step \notin {"reading", "removing"} /\ req[c].data = Chunks
       /\ \A o \in objects :
            o.file = f /\ o.state = "whole" => o.data = Chunks
  /\ completes[f] <= 1 =>
       /\ \A c \in Callers : Carries(c, f) => Carried(c, f)
       /\ \A o \in objects :
            o.file = f /\ o.state = "whole" => acked[f] \subseteq o.data

\* What a request carries for a file after a step that begins no completion.
SameCargo(d, f) ==
  Carries(d, f)' =>
    \/ req'[d] = req[d]
    \/ /\ req'[d].step \notin {"reading", "removing"} /\ req'[d].data = Chunks
    \/ /\ Carries(d, f) /\ req'[d].step # "reading"
       /\ req[d].step = "reading" => req[d].todo = {}
       /\ req'[d].step = "removing" => req[d].step = "reading"
       /\ req'[d].data = req[d].data
    \/ /\ Carries(d, f) /\ req[d].step = "reading"
       /\ req'[d].step = "reading"
       /\ req[d].data \subseteq req'[d].data /\ req'[d].todo \subseteq req[d].todo
       /\ \A i \in req[d].todo \ req'[d].todo : Kept(f, i) => i \in req'[d].data

\* A step that begins no completion of the file: what stays answered is still
\* kept, unless it has been read, and no content is there that was not.
LEMMA WholeCalm ==
  ASSUME TypeOK, NEW f \in Ids, WholeFile(f), completes'[f] = completes[f],
         acked'[f] \subseteq Chunks,
         \A i \in acked'[f] :
           \/ i \in acked[f] /\ (Kept(f, i) => Kept(f, i)')
           \/ i \in acked[f] /\ ~Unread(f, i)
           \/ completes[f] = 0 /\ Kept(f, i)',
         \A n \in objects' : n.file = f /\ n.state = "whole" =>
           \/ \E o \in objects :
                o.file = f /\ o.state = "whole" /\ o.data = n.data
           \/ \E c \in Callers :
                /\ Carries(c, f) /\ req[c].step # "reading"
                /\ n.data = req[c].data,
         \A d \in Callers : SameCargo(d, f)
  PROVE  WholeFile(f)'
<1>1. ASSUME completes[f] = 0
      PROVE  /\ \A i \in acked'[f] : Kept(f, i)'
             /\ \A c \in Callers : Carries(c, f)' =>
                  /\ req'[c].step \notin {"reading", "removing"}
                  /\ req'[c].data = Chunks
             /\ \A o \in objects' :
                  o.file = f /\ o.state = "whole" => o.data = Chunks
  <2>1. ASSUME NEW i \in acked'[f]
        PROVE  Kept(f, i)'
    BY <1>1, <2>1 DEF WholeFile, Unread
  <2>2. ASSUME NEW c \in Callers, Carries(c, f)'
        PROVE  /\ req'[c].step \notin {"reading", "removing"}
               /\ req'[c].data = Chunks
    BY <1>1, <2>2 DEF WholeFile, SameCargo, Carries
  <2>3. ASSUME NEW o \in objects', o.file = f, o.state = "whole"
        PROVE  o.data = Chunks
    BY <1>1, <2>3 DEF WholeFile
  <2> QED
    BY <2>1, <2>2, <2>3
<1>2. ASSUME completes[f] = 0
      PROVE  /\ \A c \in Callers : Carries(c, f)' => Carried(c, f)'
             /\ \A o \in objects' :
                  o.file = f /\ o.state = "whole" => acked'[f] \subseteq o.data
  BY <1>1, <1>2 DEF Carried
<1>3. ASSUME completes[f] <= 1, completes[f] # 0
      PROVE  /\ \A c \in Callers : Carries(c, f)' => Carried(c, f)'
             /\ \A o \in objects' :
                  o.file = f /\ o.state = "whole" => acked'[f] \subseteq o.data
  <2>1. /\ acked'[f] \subseteq acked[f]
        /\ \A i \in acked'[f] :
             (Kept(f, i) => Kept(f, i)') \/ ~Unread(f, i)
    BY <1>3
  <2>2. ASSUME NEW c \in Callers, Carries(c, f)', req'[c] = req[c]
        PROVE  Carried(c, f)'
    <3>1. Carries(c, f) /\ Carried(c, f)
      BY <1>3, <2>2 DEF WholeFile, Carries
    <3>2. CASE req[c].step # "reading"
      BY <3>1, <3>2, <2>1, <2>2 DEF Carried
    <3>3. CASE req[c].step = "reading"
      <4>1. acked'[f] \subseteq req'[c].data \cup req'[c].todo
        BY <3>1, <3>3, <2>1, <2>2 DEF Carried
      <4>2. ASSUME NEW i \in acked'[f], i \in req'[c].todo
            PROVE  Kept(f, i)'
        <5>1. Kept(f, i)
          BY <3>1, <3>3, <4>2, <2>1, <2>2 DEF Carried
        <5>2. Unread(f, i)
          BY <3>1, <3>3, <4>2, <2>2 DEF Unread, At, Carries
        <5> QED
          BY <5>1, <5>2, <2>1, <4>2
      <4> QED
        BY <3>3, <4>1, <4>2, <2>2 DEF Carried
    <3> QED
      BY <3>2, <3>3
  <2>3. ASSUME NEW c \in Callers, Carries(c, f)',
               req'[c].step # "reading", req'[c].data = Chunks
        PROVE  Carried(c, f)'
    BY <2>3 DEF Carried
  <2>4. ASSUME NEW c \in Callers, Carries(c, f), req'[c].step # "reading",
               req[c].step = "reading" => req[c].todo = {},
               req'[c].data = req[c].data
        PROVE  Carried(c, f)'
    <3>1. acked[f] \subseteq req[c].data
      BY <1>3, <2>4 DEF WholeFile, Carried
    <3> QED
      BY <3>1, <2>1, <2>4 DEF Carried
  <2>5. ASSUME NEW c \in Callers, Carries(c, f), req[c].step = "reading",
               req'[c].step = "reading", req[c].data \subseteq req'[c].data,
               req'[c].todo \subseteq req[c].todo,
               \A i \in req[c].todo \ req'[c].todo :
                 Kept(f, i) => i \in req'[c].data
        PROVE  Carried(c, f)'
    <3>1. /\ acked[f] \subseteq req[c].data \cup req[c].todo
          /\ \A i \in acked[f] \cap req[c].todo : Kept(f, i)
      BY <1>3, <2>5 DEF WholeFile, Carried
    <3>2. acked'[f] \subseteq req'[c].data \cup req'[c].todo
      BY <3>1, <2>1, <2>5
    <3>3. ASSUME NEW i \in acked'[f], i \in req'[c].todo
          PROVE  Kept(f, i)'
      <4>1. Kept(f, i)
        BY <3>1, <3>3, <2>1, <2>5
      <4>2. Unread(f, i)
        BY <3>3, <2>5 DEF Unread, At, Carries
      <4> QED
        BY <4>1, <4>2, <2>1, <3>3
    <3> QED
      BY <2>5, <3>2, <3>3 DEF Carried
  <2>6. ASSUME NEW c \in Callers, Carries(c, f)'
        PROVE  Carried(c, f)'
    BY <2>2, <2>3, <2>4, <2>5, <2>6 DEF SameCargo
  <2>7. ASSUME NEW n \in objects', n.file = f, n.state = "whole"
        PROVE  acked'[f] \subseteq n.data
    <3>1. CASE \E o \in objects :
                 o.file = f /\ o.state = "whole" /\ o.data = n.data
      BY <3>1, <1>3, <2>1 DEF WholeFile
    <3>2. CASE \E c \in Callers : /\ Carries(c, f) /\ req[c].step # "reading"
                                  /\ n.data = req[c].data
      BY <3>2, <1>3, <2>1 DEF WholeFile, Carried
    <3> QED
      BY <2>7, <3>1, <3>2
  <2> QED
    BY <2>6, <2>7
<1> QED
  BY <1>1, <1>2, <1>3 DEF WholeFile

-----------------------------------------------------------------------------
(* The chunk files.                                                        *)

\* What only some steps change.
LEMMA StagedSteps ==
  ASSUME [Next]_vars
  PROVE  /\ \/ staged' = staged
            \/ \E c \in Callers :
                 OpenChunk(c) \/ FillChunk(c) \/ Remove(c) \/ WriteFails(c)
            \/ \E p \in Procs : Crash(p)
         /\ acked' = acked \/ \E c \in Callers : OpenChunk(c) \/ FillChunk(c)
<1>1. ASSUME NEW c \in Callers, Step(c), ~OpenChunk(c), ~FillChunk(c)
      PROVE  /\ staged' = staged \/ Remove(c) \/ WriteFails(c)
             /\ acked' = acked
  BY <1>1 DEF Step, Encode, CacheKey, Write, Fill, WriteFails, Insert,
     Discard, Register, MakeDir, List, ReadChunk, Remove, Check, Update,
     Unlink, Erase, EnsureProjectKey, Ensure, RotateProjectKey, Rotate, Drop,
     dirVars, ghosts
<1>2. ASSUME NEW c \in Callers, NEW f \in Ids, AnyRequest(c, f)
      PROVE  staged' = staged /\ acked' = acked
  BY <1>2 DEF AnyRequest, CreateFile, InitChunkedUpload, DeleteFile,
     CompleteChunkedUpload, UploadChunk, dirVars, ghosts
<1>3. CASE \/ UNCHANGED vars \/ DeleteBucket
           \/ \E s \in Settings : UpdateBucket(s)
           \/ \E p \in Procs : ExpireKey(p)
  BY <1>3 DEF vars, DeleteBucket, UpdateBucket, ExpireKey, dirVars, ghosts
<1>4. ASSUME NEW p \in Procs, Crash(p)
      PROVE  acked' = acked
  BY <1>4 DEF Crash, ghosts
<1> QED
  BY <1>1, <1>2, <1>3, <1>4 DEF Next

\* A chunk file that was truncated is nobody's but theirs who write it.
LEMMA Truncates ==
  ASSUME NEW disk, NEW f, NEW q, NEW c
  PROVE  \E n : /\ Truncated(disk, f, q, c) = Without(disk, f, q) \cup {n}
                /\ n.file = f /\ n.path = q
                /\ n.state = "empty" => n.open = {c}
<1> DEFINE n == [file |-> f, path |-> q, data |-> {}, sealed |-> 0,
                 state |-> IF OpenAt(disk, f, q) = {} THEN "empty" ELSE "torn",
                 open |-> OpenAt(disk, f, q) \cup {c}]
<1>1. Truncated(disk, f, q, c) = Without(disk, f, q) \cup {n}
  BY DEF Truncated
<1>2. /\ n.file = f /\ n.path = q
      /\ n.state = "empty" => n.open = {c}
  OBVIOUS
<1> HIDE DEF n
<1> QED
  BY <1>1, <1>2

\* The two halves of a chunk request's write: it puts an empty file in the
\* place of chunk i, or turns every file of it that it has open into another.
OpensWith(c, i, n) ==
  /\ req[c].file \in Ids
  /\ staged' = Without(staged, req[c].file, i) \cup {n}
  /\ n.file = req[c].file /\ n.path = i
  /\ n.state = "empty" => n.open = {c}
  /\ acked' = [acked EXCEPT ![req[c].file] =
                 IF Unread(req[c].file, i) THEN @ \ {i} ELSE @]

LEMMA OpensChunk ==
  ASSUME TypeOK, StepInv, NEW c \in Callers, OpenChunk(c)
  PROVE  \/ staged' = staged /\ acked' = acked
         \/ \E i \in Chunks : \E n : OpensWith(c, i, n)
<1>1. CASE UNCHANGED <<staged, acked>>
  BY <1>1
<1>2. req[c].file \in Ids /\ req[c].data \subseteq Chunks
  BY Mine DEF OpenChunk, At, RecordOK, FileSteps, Steps, Request
<1>3. ASSUME NEW i \in req[c].data,
             staged' = Truncated(staged, req[c].file, i, c),
             acked' = [acked EXCEPT ![req[c].file] =
                             IF Unread(req[c].file, i) THEN @ \ {i} ELSE @]
      PROVE  \E n : OpensWith(c, i, n)
  BY <1>3, <1>2, Truncates DEF OpensWith
<1> QED
  BY <1>1, <1>3, <1>2 DEF OpenChunk

FillsWith(c, i, W) ==
  /\ req[c].file \in Ids
  /\ staged' = (staged \ OpenBy(staged, req[c].file, i, c)) \cup
       {W[o] : o \in OpenBy(staged, req[c].file, i, c)}
  /\ \A o \in OpenBy(staged, req[c].file, i, c) :
       /\ W[o].file = req[c].file /\ W[o].path = i
       /\ W[o].open = o.open \ {c} /\ W[o].state # "empty"
       /\ Alone(staged, req[c].file, i, c) => W[o].data = {i}
  /\ acked' = [acked EXCEPT ![req[c].file] =
       IF /\ completes[req[c].file] = 0
          /\ Alone(staged, req[c].file, i, c)
          /\ OpenBy(staged, req[c].file, i, c) # {}
       THEN @ \cup {i} ELSE @]

LEMMA FillsChunk ==
  ASSUME TypeOK, StepInv, NEW c \in Callers, FillChunk(c)
  PROVE  \E i \in Chunks : \E W : FillsWith(c, i, W)
<1>1. req[c].file \in Ids /\ req[c].data \subseteq Chunks
  BY Mine DEF FillChunk, At, RecordOK, FileSteps, Steps, Request
<1>2. PICK i \in req[c].data, whole \in BOOLEAN :
        /\ Alone(staged, req[c].file, i, c) => whole
        /\ staged' = (staged \ OpenBy(staged, req[c].file, i, c)) \cup
                {WrittenBy(o, c, {i}, 0, whole) :
                   o \in OpenBy(staged, req[c].file, i, c)}
        /\ acked' = [acked EXCEPT ![req[c].file] =
                IF /\ completes[req[c].file] = 0
                   /\ Alone(staged, req[c].file, i, c)
                   /\ OpenBy(staged, req[c].file, i, c) # {}
                THEN @ \cup {i} ELSE @]
  BY DEF FillChunk, Filled
<1> DEFINE mine == OpenBy(staged, req[c].file, i, c)
           W    == [o \in mine |-> WrittenBy(o, c, {i}, 0, whole)]
<1>3. staged' = (staged \ mine) \cup {W[o] : o \in mine}
  BY <1>2
<1>4. ASSUME NEW o \in mine
      PROVE  /\ W[o].file = req[c].file /\ W[o].path = i
             /\ W[o].open = o.open \ {c} /\ W[o].state # "empty"
             /\ Alone(staged, req[c].file, i, c) => W[o].data = {i}
  <2>1. o \in OnDisk(Chunks) /\ o.file = req[c].file /\ o.path = i
    BY DEF TypeOK, OpenBy, Named
  <2>2. W[o] = WrittenBy(o, c, {i}, 0, whole)
    OBVIOUS
  <2> QED
    BY <1>2, <2>1, <2>2, WrittenFields
<1> HIDE DEF W
<1> QED
  BY <1>1, <1>2, <1>3, <1>4 DEF FillsWith

\* What the files were that a chunk request has filled.
LEMMA OpenByWas ==
  ASSUME NEW f, NEW i, NEW c, NEW o \in OpenBy(staged, f, i, c)
  PROVE  o \in staged /\ o.file = f /\ o.path = i /\ c \in o.open
  BY DEF OpenBy, Named

LEMMA ClosedChunks ==
  ASSUME TypeOK, ChunksOK, NEW cs, NEW torn \in SUBSET cs,
         staged' = Closed(staged, cs, torn)
  PROVE  ChunksOK'
<1>1. staged \in SUBSET OnDisk(Chunks)
  BY DEF TypeOK
<1>2. \A n \in staged' : \E o \in staged :
        /\ n = ClosedBy(o, cs, torn)
        /\ n.file = o.file /\ n.path = o.path /\ n.open = o.open \ cs
        /\ n.state = "empty" => o.state = "empty" /\ o.open \cap cs = {}
  <2>1. SUFFICES ASSUME NEW n \in staged'
                 PROVE  \E o \in staged :
        /\ n = ClosedBy(o, cs, torn)
        /\ n.file = o.file /\ n.path = o.path /\ n.open = o.open \ cs
        /\ n.state = "empty" => o.state = "empty" /\ o.open \cap cs = {}
    OBVIOUS
  <2>2. PICK o \in staged : n = ClosedBy(o, cs, torn)
    BY DEF Closed
  <2>3. o \in OnDisk(Chunks)
    BY <1>1
  <2> QED
    BY <2>2, <2>3 DEF ClosedBy, OnDisk
<1>3. ASSUME NEW n \in staged', NEW m \in staged',
             n.file = m.file, n.path = m.path
      PROVE  n = m
  BY <1>2, <1>3 DEF ChunksOK
<1>4. ASSUME NEW n \in staged', n.state = "empty"
      PROVE  \E c \in Callers : n.open = {c}
  <2>1. PICK o \in staged :
          n.open = o.open \ cs /\ o.state = "empty" /\ o.open \cap cs = {}
    BY <1>2, <1>4
  <2>2. PICK c \in Callers : o.open = {c}
    BY <2>1 DEF ChunksOK
  <2> QED
    BY <2>1, <2>2
<1> QED
  BY <1>3, <1>4 DEF ChunksOK

LEMMA NextChunks ==
  ASSUME TypeOK, StepInv, ChunksOK, [Next]_vars
  PROVE  ChunksOK'
<1>1. CASE staged' \subseteq staged
  BY <1>1 DEF ChunksOK
<1>2. ASSUME NEW c \in Callers, OpenChunk(c)
      PROVE  ChunksOK'
  <2>1. CASE staged' = staged
    BY <2>1, <1>1
  <2>2. ASSUME NEW i \in Chunks, NEW n, OpensWith(c, i, n)
        PROVE  ChunksOK'
    <3>1. \A m \in staged' : /\ m = n \/ m \in staged
                             /\ m = n \/ m.file # n.file \/ m.path # n.path
      BY <2>2 DEF OpensWith, Without, Named
    <3>2. ASSUME NEW m \in staged', m.state = "empty"
          PROVE  \E d \in Callers : m.open = {d}
      BY <3>1, <3>2, <2>2 DEF ChunksOK, OpensWith
    <3>3. ASSUME NEW l \in staged', NEW m \in staged',
                 l.file = m.file, l.path = m.path
          PROVE  l = m
      BY <3>1, <3>3 DEF ChunksOK
    <3> QED
      BY <3>2, <3>3 DEF ChunksOK
  <2> QED
    BY <1>2, <2>1, <2>2, OpensChunk
<1>3. ASSUME NEW c \in Callers, FillChunk(c)
      PROVE  ChunksOK'
  <2>1. PICK i \in Chunks : \E W : FillsWith(c, i, W)
    BY <1>3, FillsChunk
  <2> PICK W : FillsWith(c, i, W)
    BY <2>1
  <2>2. \A n \in staged' :
          \/ n \in staged \ OpenBy(staged, req[c].file, i, c)
          \/ \E o \in OpenBy(staged, req[c].file, i, c) :
               /\ n = W[o] /\ o \in staged
               /\ o.file = req[c].file /\ o.path = i
               /\ n.file = req[c].file /\ n.path = i /\ n.state # "empty"
    BY OpenByWas DEF FillsWith
  <2>3. ASSUME NEW n \in staged', NEW m \in staged',
               n.file = m.file, n.path = m.path
        PROVE  n = m
    BY <2>2, <2>3 DEF ChunksOK
  <2>4. ASSUME NEW n \in staged', n.state = "empty"
        PROVE  \E d \in Callers : n.open = {d}
    BY <2>2, <2>4 DEF ChunksOK
  <2> QED
    BY <2>3, <2>4 DEF ChunksOK
<1>4. ASSUME NEW c \in Callers, Remove(c)
      PROVE  ChunksOK'
  BY <1>1, <1>4 DEF Remove, dirVars
<1>5. ASSUME NEW c \in Callers, WriteFails(c)
      PROVE  ChunksOK'
  BY <1>5, ClosedChunks DEF WriteFails
<1>6. ASSUME NEW p \in Procs, Crash(p)
      PROVE  ChunksOK'
  BY <1>6, ClosedChunks DEF Crash
<1> QED
  BY <1>1, <1>2, <1>3, <1>4, <1>5, <1>6, StagedSteps

-----------------------------------------------------------------------------
(* What was answered is kept until it is read.                             *)

LEMMA ClosedKeeps ==
  ASSUME TypeOK, NEW cs, NEW torn, staged' = Closed(staged, cs, torn),
         NEW f, NEW i, Kept(f, i)
  PROVE  Kept(f, i)'
<1>1. staged \in SUBSET OnDisk(Chunks)
  BY DEF TypeOK
<1>2. ASSUME NEW o \in staged
      PROVE  LET n == ClosedBy(o, cs, torn)
             IN  /\ n.file = o.file /\ n.path = o.path
                 /\ n.data = o.data /\ n.open = o.open \ cs
  BY <1>1 DEF ClosedBy, OnDisk
<1>3. PICK o \in staged : o.file = f /\ o.path = i
  BY DEF Kept, Named
<1>4. ClosedBy(o, cs, torn) \in staged'
  BY DEF Closed
<1>5. Named(staged, f, i)' # {}
  BY <1>2, <1>3, <1>4 DEF Named
<1>6. ASSUME NEW n \in Named(staged, f, i)'
      PROVE  n.data = {i} /\ n.open = {}
  <2>1. PICK m \in staged : n = ClosedBy(m, cs, torn)
    BY <1>6 DEF Named, Closed
  <2>2. m.file = f /\ m.path = i /\ n.data = m.data /\ n.open = m.open \ cs
    BY <1>2, <1>6, <2>1 DEF Named
  <2>3. m.data = {i} /\ m.open = {}
    BY <2>2 DEF Kept, Named
  <2> QED
    BY <2>2, <2>3
<1> QED
  BY <1>5, <1>6 DEF Kept

LEMMA OpensKeeps ==
  ASSUME TypeOK, NEW c \in Callers, NEW i \in Chunks, NEW n,
         OpensWith(c, i, n), NEW f \in Ids, NEW j \in Chunks, Kept(f, j)
  PROVE  Kept(f, j)' \/ (Unread(f, j) => j \notin acked'[f])
<1>1. CASE req[c].file = f /\ i = j
  BY <1>1 DEF OpensWith, TypeOK
<1>2. CASE ~(req[c].file = f /\ i = j)
  <2>1. Named(staged, f, j)' = Named(staged, f, j)
    BY <1>2 DEF OpensWith, Named, Without
  <2> QED
    BY <2>1 DEF Kept
<1> QED
  BY <1>1, <1>2

LEMMA FillsKeeps ==
  ASSUME NEW c \in Callers, NEW i \in Chunks, NEW W, FillsWith(c, i, W),
         NEW f \in Ids, NEW j \in Chunks, Kept(f, j)
  PROVE  Kept(f, j)'
<1>1. \A o \in OpenBy(staged, req[c].file, i, c) : o \notin Named(staged, f, j)
  BY DEF OpenBy, Kept
<1>2. \A o \in OpenBy(staged, req[c].file, i, c) :
        ~(req[c].file = f /\ i = j)
  BY <1>1 DEF OpenBy
<1>3. Named(staged, f, j)' = Named(staged, f, j)
  BY <1>1, <1>2 DEF FillsWith, Named
<1> QED
  BY <1>3 DEF Kept

\* A chunk that is answered is kept.
LEMMA FillsNew ==
  ASSUME TypeOK, ChunksOK, NEW c \in Callers, NEW i \in Chunks, NEW W,
         FillsWith(c, i, W), NEW f \in Ids, NEW j \in acked'[f],
         j \notin acked[f]
  PROVE  completes[f] = 0 /\ Kept(f, j)'
<1> DEFINE mine == OpenBy(staged, f, i, c)
<1>1. /\ req[c].file = f /\ j = i /\ completes[f] = 0
      /\ Alone(staged, f, i, c) /\ mine # {}
  BY DEF FillsWith, TypeOK
<1>2. PICK o \in mine : o.state = "empty"
  BY <1>1 DEF Alone
<1>3. /\ o \in staged /\ o.file = f /\ o.path = i /\ c \in o.open
      /\ o.open = {c}
  BY <1>2, OpenByWas DEF ChunksOK
<1>4. Named(staged, f, i) = {o} /\ mine = {o}
  BY <1>2, <1>3 DEF Named, OpenBy, ChunksOK
<1>5. staged' = (staged \ {o}) \cup {W[o]}
  BY <1>1, <1>4 DEF FillsWith
<1>6. W[o].file = f /\ W[o].path = i /\ W[o].open = {} /\ W[o].data = {i}
  BY <1>1, <1>2, <1>3 DEF FillsWith
<1>7. Named(staged, f, i)' = {W[o]}
  BY <1>4, <1>5, <1>6 DEF Named
<1> QED
  BY <1>1, <1>6, <1>7 DEF Kept

\* Nobody removes chunks that the first completion has still to read.
LEMMA RemovesKeeps ==
  ASSUME TypeOK, StepInv, NEW c \in Callers, Remove(c), NEW f \in Ids,
         Counted(f), WholeFile(f), completes[f] <= 1,
         NEW j \in Chunks, Kept(f, j), Unread(f, j)
  PROVE  Kept(f, j)'
<1>1. /\ req[c].step = "removing" /\ req[c].op = "complete"
      /\ \/ staged' = staged
         \/ \E o \in staged : o.file = req[c].file /\ staged' = staged \ {o}
  BY Mine DEF Remove, At, RecordOK, dirVars
<1>2. CASE req[c].file # f
  <2>1. Named(staged, f, j)' = Named(staged, f, j)
    BY <1>1, <1>2 DEF Named
  <2> QED
    BY <2>1 DEF Kept
<1>3. CASE req[c].file = f
  <2>1. Assembles(c, f) /\ completes[f] # 0
    BY <1>1, <1>3 DEF Assembles, Assembly, Counted
  <2>2. PICK d \in Callers : req[d].step = "reading" /\ req[d].file = f
    BY <2>1 DEF Unread, At
  <2>3. Assembles(d, f)
    BY <2>2, Mine DEF RecordOK, Assembles, Assembly
  <2>4. c = d
    BY <2>1, <2>3 DEF Counted
  <2> QED
    BY <1>1, <2>2, <2>4
<1> QED
  BY <1>2, <1>3

LEMMA AckedKept ==
  ASSUME TypeOK, StepInv, ChunksOK, [Next]_vars, NEW f \in Ids,
         Counted(f), WholeFile(f), completes[f] <= 1, NEW i \in acked'[f]
  PROVE  /\ i \in Chunks
         /\ \/ i \in acked[f] /\ (Kept(f, i) => Kept(f, i)')
            \/ i \in acked[f] /\ ~Unread(f, i)
            \/ completes[f] = 0 /\ Kept(f, i)'
<1> DEFINE Goal == /\ i \in Chunks
                   /\ \/ i \in acked[f] /\ (Kept(f, i) => Kept(f, i)')
                      \/ i \in acked[f] /\ ~Unread(f, i)
                      \/ completes[f] = 0 /\ Kept(f, i)'
<1>1. acked[f] \subseteq Chunks
  BY DEF TypeOK
<1>2. ASSUME NEW c \in Callers, OpenChunk(c)
      PROVE  Goal
  <2>1. CASE staged' = staged /\ acked' = acked
    BY <2>1, <1>1 DEF Kept, Named
  <2>2. ASSUME NEW j \in Chunks, NEW n, OpensWith(c, j, n)
        PROVE  Goal
    <3>1. i \in acked[f]
      BY <2>2 DEF OpensWith, TypeOK
    <3> QED
      BY <1>1, <2>2, <3>1, OpensKeeps
  <2> QED
    BY <1>2, <2>1, <2>2, OpensChunk
<1>3. ASSUME NEW c \in Callers, FillChunk(c)
      PROVE  Goal
  <2>1. PICK j \in Chunks : \E W : FillsWith(c, j, W)
    BY <1>3, FillsChunk
  <2> PICK W : FillsWith(c, j, W)
    BY <2>1
  <2>2. CASE i \in acked[f]
    BY <1>1, <2>2, FillsKeeps
  <2>3. CASE i \notin acked[f]
    <3>1. i = j
      BY <2>3 DEF FillsWith, TypeOK
    <3> QED
      BY <2>3, <3>1, FillsNew
  <2> QED
    BY <2>2, <2>3
<1>4. CASE \A c \in Callers : ~OpenChunk(c) /\ ~FillChunk(c)
  <2>1. i \in acked[f] /\ i \in Chunks
    BY <1>1, <1>4, StagedSteps
  <2>2. CASE staged' = staged
    BY <2>1, <2>2 DEF Kept, Named
  <2>3. ASSUME NEW c \in Callers, Remove(c)
        PROVE  Goal
    BY <2>1, <2>3, RemovesKeeps
  <2>4. ASSUME NEW c \in Callers, WriteFails(c)
        PROVE  Goal
    BY <2>1, <2>4, ClosedKeeps DEF WriteFails
  <2>5. ASSUME NEW p \in Procs, Crash(p)
        PROVE  Goal
    BY <2>1, <2>5, ClosedKeeps DEF Crash
  <2> QED
    BY <1>4, <2>2, <2>3, <2>4, <2>5, StagedSteps
<1> QED
  BY <1>2, <1>3, <1>4

\* What requests carry.
LEMMA ReadCargo ==
  ASSUME TypeOK, NEW f, NEW d \in Callers, ReadChunk(d)
  PROVE  SameCargo(d, f)
<1>1. req[d] \in Request /\ req[d].step = "reading"
  BY DEF TypeOK, ReadChunk, At
<1>2. CASE Answer(d)
  BY <1>2, AnswerStep DEF SameCargo, Carries, Carrying
<1>3. CASE req[d].todo = {} /\ Go(d, "removing")
  <2>1. /\ req'[d].step = "removing" /\ req'[d].file = req[d].file
        /\ req'[d].data = req[d].data
    BY <1>3, GoStep DEF Steps
  <2> QED
    BY <1>1, <1>3, <2>1 DEF SameCargo, Carries, Carrying
<1>4. ASSUME NEW i \in req[d].todo, NEW o \in Named(staged, req[d].file, i),
             req' = [req EXCEPT ![d].todo = @ \ {i},
                                ![d].data = @ \cup o.data]
      PROVE  SameCargo(d, f)
  <2>1. /\ req'[d].step = "reading" /\ req'[d].file = req[d].file
        /\ req'[d].todo = req[d].todo \ {i}
        /\ req'[d].data = req[d].data \cup o.data
    BY <1>1, <1>4 DEF TypeOK, Request
  <2>2. req[d].file = f /\ Kept(f, i) => i \in o.data
    BY DEF Kept
  <2> QED
    BY <1>1, <2>1, <2>2 DEF SameCargo, Carries, Carrying
<1> QED
  BY <1>2, <1>3, <1>4 DEF ReadChunk

LEMMA NextCargo ==
  ASSUME TypeOK, StepInv, [Next]_vars, NEW f \in Ids, NEW d \in Callers,
         completes'[f] = completes[f]
  PROVE  SameCargo(d, f)
<1>1. Changed(d) /\ RecordOK(req[d])
  BY Transition, Mine
<1>2. CASE req'[d] = req[d]
  BY <1>2 DEF SameCargo
<1>3. CASE Write(d)
  <2>1. /\ req[d].step = "writing" /\ req'[d].step = "filling"
        /\ req'[d].file = req[d].file /\ req'[d].data = req[d].data
    BY <1>3, GoStep DEF Write, At, Steps
  <2> QED
    BY <2>1 DEF SameCargo, Carries, Carrying
<1>4. CASE Fill(d)
  <2>1. Go(d, "inserting") \/ Go(d, "updating")
    BY <1>4 DEF Fill
  <2>2. req'[d].step \in {"inserting", "updating"}
    BY <2>1, GoStep DEF Steps
  <2> QED
    BY <2>2 DEF SameCargo, Carries, Carrying
<1>5. CASE List(d)
  <2>1. CASE Answer(d)
    BY <2>1, AnswerStep DEF SameCargo, Carries, Carrying
  <2>2. CASE completes' = [completes EXCEPT ![req[d].file] = @ + 1]
    <3>1. completes[f] \in Nat /\ completes \in [Ids -> Nat]
      BY DEF TypeOK
    <3>2. req[d].file # f
      BY <2>2, <3>1
    <3>3. req'[d].file # f \/ req'[d].step = "idle"
      BY <1>5, <3>2, Continues DEF Continued
    <3> QED
      BY <3>3 DEF SameCargo, Carries, Carrying
  <2> QED
    BY <1>5, <2>1, <2>2 DEF List
<1>6. CASE ReadChunk(d)
  BY <1>6, ReadCargo
<1>7. CASE Dropped(d)
  BY <1>7 DEF Dropped, SameCargo, Carries, Carrying
<1>8. CASE Turns(d)
  <2>1. CASE req'[d].step \notin Carrying
    BY <2>1 DEF SameCargo, Carries
  <2>2. CASE req'[d].step = "encoding" /\ req'[d].data = Chunks
    BY <2>2 DEF SameCargo
  <2>3. CASE /\ Continued(d) /\ req[d].step \notin {"listing", "reading"}
             /\ req'[d].step \in Carrying
    <3>1. /\ req[d].step \in Carrying /\ req'[d].step # "reading"
          /\ req'[d].step # "removing"
      BY <2>3 DEF Continued, Onward, Carrying
    <3>2. req'[d].file = req[d].file /\ req'[d].data = req[d].data
      BY <2>3, <3>1 DEF Continued
    <3> QED
      BY <2>3, <3>1, <3>2 DEF SameCargo, Carries
  <2> QED
    BY <1>8, <2>1, <2>2, <2>3 DEF Turns, Carrying
<1> QED
  BY <1>1, <1>2, <1>3, <1>4, <1>5, <1>6, <1>7, <1>8 DEF Changed

\* Where content comes from: a file that was whole, or a request.
LEMMA NextContent ==
  ASSUME TypeOK, StepInv, [Next]_vars, NEW f \in Ids,
         NEW n \in objects', n.file = f, n.state = "whole"
  PROVE  \/ \E o \in objects :
                o.file = f /\ o.state = "whole" /\ o.data = n.data
         \/ \E c \in Callers :
                /\ Carries(c, f) /\ req[c].step # "reading"
                /\ n.data = req[c].data
<1>1. CASE NoNewContent
  BY <1>1 DEF NoNewContent
<1>2. CASE objects' \subseteq objects
  BY <1>1, <1>2, SubsetKept
<1>3. ASSUME NEW c \in Callers, Write(c)
      PROVE  n \in objects
  BY <1>3, TruncatedNew DEF Write
<1>4. ASSUME NEW c \in Callers, Fill(c)
      PROVE  \/ n \in objects
             \/ /\ Carries(c, f) /\ req[c].step # "reading"
                /\ n.data = req[c].data
  <2>1. PICK g, q : g = req[c].file /\ q = EncodedPath(c)
    OBVIOUS
  <2>2. \/ n \in objects
        \/ n.file = g /\ n.data = req[c].data
    BY <1>4, <2>1, FillNew
  <2>3. req[c].step = "filling"
    BY <1>4 DEF Fill, At
  <2> QED
    BY <2>1, <2>2, <2>3 DEF Carries, Carrying
<1>5. ASSUME NEW c \in Callers, WriteFails(c)
      PROVE  NoNewContent
  BY <1>5, ClosedKept DEF WriteFails
<1>6. ASSUME NEW p \in Procs, Crash(p)
      PROVE  NoNewContent
  BY <1>6, ClosedKept DEF Crash
<1> QED
  BY <1>1, <1>2, <1>3, <1>4, <1>5, <1>6, ObjectSteps

\* The first completion lists everything that was answered.
LEMMA ListWhole ==
  ASSUME TypeOK, StepInv, NEW c \in Callers, NEW f \in Ids, List(c),
         WholeFile(f), completes'[f] # completes[f]
  PROVE  WholeFile(f)'
<1>1. /\ req[c].step = "listing" /\ req[c].file = f /\ req[c] \in Request
      /\ completes' = [completes EXCEPT ![f] = @ + 1]
      /\ req' = [req EXCEPT ![c].step = "reading",
                   ![c].todo = {i \in Chunks : Named(staged, f, i) # {}}]
      /\ UNCHANGED <<objects, staged, acked>>
  BY DEF List, At, TypeOK, dirVars
<1>2. /\ req'[c].step = "reading"
      /\ req'[c].todo = {i \in Chunks : Named(staged, f, i) # {}}
      /\ \A d \in Callers \ {c} : req'[d] = req[d]
  BY <1>1 DEF TypeOK, Request
<1>3. completes[f] \in Nat /\ completes'[f] = completes[f] + 1
  BY <1>1 DEF TypeOK
<1>4. completes'[f] # 0 /\ (completes'[f] <= 1 => completes[f] = 0)
  BY <1>3
<1>5. ASSUME completes[f] = 0, NEW d \in Callers, Carries(d, f)'
      PROVE  Carried(d, f)'
  <2>1. acked[f] \subseteq Chunks /\ \A i \in acked[f] : Kept(f, i)
    BY <1>5 DEF TypeOK, WholeFile
  <2>2. CASE d = c
    <3>1. \A i \in acked[f] : i \in req'[c].todo
      BY <1>2, <2>1 DEF Kept
    <3>2. \A i \in acked'[f] : Kept(f, i)'
      BY <1>1, <2>1 DEF Kept, Named
    <3> QED
      BY <1>1, <1>2, <2>2, <3>1, <3>2 DEF Carried
  <2>3. CASE d # c
    <3>1. Carries(d, f) /\ req'[d] = req[d]
      BY <1>2, <1>5, <2>3 DEF Carries
    <3>2. req[d].step # "reading" /\ req[d].data = Chunks
      BY <1>5, <3>1 DEF WholeFile
    <3> QED
      BY <1>1, <2>1, <3>1, <3>2 DEF Carried
  <2> QED
    BY <2>2, <2>3
<1>6. ASSUME completes[f] = 0, NEW o \in objects', o.file = f,
             o.state = "whole"
      PROVE  acked'[f] \subseteq o.data
  BY <1>1, <1>6 DEF WholeFile, TypeOK
<1> QED
  BY <1>4, <1>5, <1>6 DEF WholeFile

-----------------------------------------------------------------------------
(* All of it.                                                              *)

Whole == ChunksOK /\ \A f \in Ids : WholeFile(f)

LEMMA InitWhole == Init => Whole
<1> SUFFICES ASSUME Init PROVE Whole
  OBVIOUS
<1>1. /\ objects = {} /\ staged = {} /\ \A c \in Callers : req[c] = Idle
      /\ \A f \in Ids : acked[f] = {}
  BY DEF Init
<1>2. \A f \in Ids, c \in Callers : ~Carries(c, f)
  BY <1>1, IdleType DEF Carries, Carrying
<1> QED
  BY <1>1, <1>2 DEF Whole, ChunksOK, WholeFile

LEMMA NextWhole == Base /\ FilesInv /\ Whole /\ [Next]_vars => Whole'
<1> SUFFICES ASSUME Base, FilesInv, Whole, [Next]_vars PROVE Whole'
  OBVIOUS
<1>1. TypeOK /\ StepInv /\ ChunksOK
  BY DEF Base, Whole
<1>2. ChunksOK'
  BY <1>1, NextChunks
<1>3. ASSUME NEW f \in Ids
      PROVE  WholeFile(f)'
  <2>1. Counted(f) /\ WholeFile(f)
    BY DEF FilesInv, Whole
  <2>2. CASE completes'[f] # completes[f]
    BY <1>1, <2>1, <2>2, CountSteps, ListWhole
  <2>3. CASE completes'[f] = completes[f] /\ ~(completes[f] <= 1)
    <3>1. completes'[f] # 0
      BY <2>3
    <3> QED
      BY <2>3, <3>1 DEF WholeFile
  <2>4. CASE completes'[f] = completes[f] /\ completes[f] <= 1
    <3>1. \A i \in acked'[f] :
            /\ i \in Chunks
            /\ \/ i \in acked[f] /\ (Kept(f, i) => Kept(f, i)')
               \/ i \in acked[f] /\ ~Unread(f, i)
               \/ completes[f] = 0 /\ Kept(f, i)'
      BY <1>1, <2>1, <2>4, AckedKept
    <3>2. \A n \in objects' : n.file = f /\ n.state = "whole" =>
            \/ \E o \in objects :
                 o.file = f /\ o.state = "whole" /\ o.data = n.data
            \/ \E c \in Callers :
                 /\ Carries(c, f) /\ req[c].step # "reading"
                 /\ n.data = req[c].data
      BY <1>1, NextContent
    <3>3. \A d \in Callers : SameCargo(d, f)
      BY <1>1, <2>4, NextCargo
    <3>4. acked'[f] \subseteq Chunks
      BY <3>1
    <3> QED
      BY <1>1, <2>1, <2>4, <3>1, <3>2, <3>3, <3>4, WholeCalm
  <2> QED
    BY <2>2, <2>3, <2>4
<1> QED
  BY <1>2, <1>3 DEF Whole

\* A file whose chunks one completion has read holds every chunk that was
\* answered before, however its chunk requests, its completion and crashes
\* overlap, unless the chunk itself was sent again before the completion had
\* read it or its two requests overlapped.
THEOREM WholeIfCompletedOnceTheorem == Spec => []WholeIfCompletedOnce
<1> DEFINE Inv == Base /\ FilesInv /\ Whole
<1>1. Init => Inv
  BY InitBase, InitFilesInv, InitWhole
<1>2. Inv /\ [Next]_vars => Inv'
  BY NextBase, NextFilesInv, NextWhole
<1>3. Inv => WholeIfCompletedOnce
  BY DEF Whole, WholeFile, WholeIfCompletedOnce, ObjectsOf, Named
<1> QED
  BY <1>1, <1>2, <1>3, PTL DEF Spec
=============================================================================
