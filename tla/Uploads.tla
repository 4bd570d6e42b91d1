------------------------------ MODULE Uploads ------------------------------
(***************************************************************************)
(* The files of one bucket: storage/service.go (CreateFile,                *)
(* InitChunkedUpload, UploadChunk, CompleteChunkedUpload, DeleteFile,      *)
(* UpdateBucket, DeleteBucket), storage/authz.go (assertPendingUpload) and *)
(* the local driver of storage/driver.go.                                  *)
(*                                                                         *)
(* A file is a row and an object. The object's path ends in how it was     *)
(* encoded, so that a read undoes what the write did whatever the bucket   *)
(* says by then. A chunked upload is a row whose path is a directory of    *)
(* chunks until its completion puts the object in place. Nothing locks a   *)
(* file: requests on the same id interleave between any two statements,    *)
(* and between the two halves of os.WriteFile, which truncates what is     *)
(* there and then fills it.                                                *)
(*                                                                         *)
(* Content is the set of the chunks it has whole.                          *)
(***************************************************************************)
EXTENDS ProjectKeys

CONSTANTS Ids,             \* file ids
          Chunks,          \* the chunks of every upload
          Callers,         \* requests served at a time
          ProcOf,          \* the process that serves each of them
          Settings,        \* values of a bucket's compression and encryption
          MaxClaims,       \* bound on requests that create a file, per id
          MaxCompletes,    \* bound on completions that assemble, per id
          MaxFaults        \* bound on crashes and failed statements

ASSUME CallersAssumption == ProcOf \in [Callers -> Procs]
ASSUME SettingsAssumption ==
  Settings \subseteq [gz : BOOLEAN, enc : BOOLEAN]
ASSUME BoundsAssumption == {MaxClaims, MaxCompletes, MaxFaults} \subseteq Nat

VARIABLES bucket,          \* whether the bucket exists
          setting,         \* its compression and encryption
          at,              \* per id: no row, a staged upload, or a file
          path,            \* per id: the encoding its row's path ends in
          objects,         \* what the driver holds
          staged,          \* the chunk files of the chunk directories
          dir,             \* ids whose chunk directory exists
          req,             \* what each caller is doing
          claims,          \* per id: requests that created it
          completes,       \* per id: completions that read the chunks
          acked,           \* per id: chunks answered before any of those,
                           \* and not sent again until they were read
          damaged,         \* ids whose row outlived a failed DELETE
          faults

bucketVars == <<bucket, setting>>
rowVars    == <<at, path>>
dirVars    == <<staged, dir>>
ghosts     == <<claims, completes, acked, damaged>>
vars == <<keyVars, bucketVars, rowVars, objects, dirVars, req, ghosts, faults>>

\* The suffix of a path: compressed or not, and the key version or 0.
Path   == [gz : BOOLEAN, version : Nat]
Plain  == [gz |-> FALSE, version |-> 0]
\* A file on disk: whose content it has, whether that is all of it, and the
\* requests that are about to write to it.
OnDisk(paths) ==
  [file : Ids, path : paths, data : SUBSET Chunks, sealed : Nat,
   state : {"empty", "whole", "torn"}, open : SUBSET Callers]
Steps  == {"idle", "caching", "encoding", "writing", "filling", "inserting",
           "discarding", "registering", "staging", "opening", "storing",
           "listing", "reading", "removing", "checking", "updating",
           "unlinking", "erasing", "ensuring", "rotating", "dropping"}
NoSetting == [gz |-> FALSE, enc |-> FALSE]
Request == [step : Steps, op : {"none", "create", "complete", "other"},
            file : Ids \cup {"none"}, set : [gz : BOOLEAN, enc : BOOLEAN],
            data : SUBSET Chunks, todo : SUBSET Chunks, key : Key,
            was : {"none", "staged", "final"}, path : Path]
Idle == [step |-> "idle", op |-> "none", file |-> "none",
         set |-> NoSetting, data |-> {}, todo |-> {},
         key |-> NoKey, was |-> "none", path |-> Plain]

TypeOK ==
  /\ KeysTypeOK
  /\ bucket \in BOOLEAN /\ setting \in Settings \cup {NoSetting}
  /\ at \in [Ids -> {"none", "staged", "final"}] /\ path \in [Ids -> Path]
  /\ objects \in SUBSET OnDisk(Path)
  /\ staged \in SUBSET OnDisk(Chunks) /\ dir \in SUBSET Ids
  /\ req \in [Callers -> Request]
  /\ claims \in [Ids -> Nat] /\ completes \in [Ids -> Nat]
  /\ acked \in [Ids -> SUBSET Chunks] /\ damaged \in SUBSET Ids
  /\ faults \in Nat

Init ==
  /\ KeysInit
  /\ bucket = TRUE /\ setting \in Settings
  /\ at = [f \in Ids |-> "none"] /\ path = [f \in Ids |-> Plain]
  /\ objects = {}
  /\ staged = {} /\ dir = {}
  /\ req = [c \in Callers |-> Idle]
  /\ claims = [f \in Ids |-> 0] /\ completes = [f \in Ids |-> 0]
  /\ acked = [f \in Ids |-> {}] /\ damaged = {}
  /\ faults = 0

-----------------------------------------------------------------------------
At(c, step)  == req[c].step = step
Go(c, step)  == req' = [req EXCEPT ![c].step = step]
Answer(c)    == req' = [req EXCEPT ![c] = Idle]
Start(c, r)  == At(c, "idle") /\ req' = [req EXCEPT ![c] = r]
Fault        == faults < MaxFaults /\ faults' = faults + 1

\* The path and the seal of what a caller has encoded.
EncodedPath(c) == [gz |-> req[c].set.gz, version |-> req[c].key.version]

-----------------------------------------------------------------------------
(* Files on disk. Both halves of os.WriteFile act on the file that had the *)
(* name when it was opened.                                                *)

Named(disk, f, p)   == {o \in disk : o.file = f /\ o.path = p}
Without(disk, f, p) == disk \ Named(disk, f, p)
OpenAt(disk, f, p)  == UNION {o.open : o \in Named(disk, f, p)}

\* os.OpenFile with O_TRUNC. What others still write to it may come before or
\* after.
Truncated(disk, f, p, c) ==
  LET others == OpenAt(disk, f, p)
  IN Without(disk, f, p) \cup
       {[file |-> f, path |-> p, data |-> {}, sealed |-> 0,
         state |-> IF others = {} THEN "empty" ELSE "torn",
         open |-> others \cup {c}]}

\* The bytes, and the close: over what others wrote, they may leave a rest of
\* it. A file that was unlinked meanwhile takes them with it.
WrittenBy(o, c, data, sealed, whole) ==
  [o EXCEPT !.data = IF whole THEN data ELSE {},
            !.sealed = IF whole THEN sealed ELSE 0,
            !.state = IF whole THEN "whole" ELSE "torn",
            !.open = @ \ {c}]

OpenBy(disk, f, p, c) == {o \in Named(disk, f, p) : c \in o.open}

Filled(disk, f, p, c, data, sealed, whole) ==
  (disk \ OpenBy(disk, f, p, c)) \cup
    {WrittenBy(o, c, data, sealed, whole) : o \in OpenBy(disk, f, p, c)}

\* Nobody else has opened it since c has.
Alone(disk, f, p, c) == \A o \in OpenBy(disk, f, p, c) : o.state = "empty"

\* Requests that end before that, some in the middle of their bytes.
ClosedBy(o, callers, torn) ==
  [o EXCEPT !.open = @ \ callers,
            !.state = IF \/ o.open \cap torn # {}
                         \/ o.open \cap callers # {} /\ o.state = "empty"
                      THEN "torn" ELSE @]

Closed(disk, callers, torn) == {ClosedBy(o, callers, torn) : o \in disk}

-----------------------------------------------------------------------------
\* CreateFile reads the bucket's settings, and refuses before any effect.
CreateFile(c, f) ==
  /\ bucket /\ claims[f] < MaxClaims
  /\ Start(c, [Idle EXCEPT !.step = "encoding", !.op = "create", !.file = f,
                           !.set = setting, !.data = Chunks])
  /\ claims' = [claims EXCEPT ![f] = @ + 1]
  /\ UNCHANGED <<keyVars, bucketVars, rowVars, objects, dirVars, completes,
                 acked, damaged, faults>>

\* encodeAtRest: the key comes from the cache, or from the active row, which
\* is cached before it is used. Without an active key it fails.
Encode(c) ==
  /\ At(c, "encoding")
  /\ LET enc    == req[c].set.enc
         cached == cache[ProcOf[c]]
     IN  \/ ~enc /\ Go(c, "writing")
         \/ /\ enc /\ cached # NoKey
            /\ req' = [req EXCEPT ![c].step = "writing", ![c].key = cached]
         \/ /\ enc /\ cached = NoKey
            /\ \E k \in Active :
                 req' = [req EXCEPT ![c].step = "caching",
                                    ![c].key = KeyOf(k)]
         \/ enc /\ cached = NoKey /\ Active = {} /\ Answer(c)
  /\ UNCHANGED <<keyVars, bucketVars, rowVars, objects, dirVars, ghosts,
                 faults>>

CacheKey(c) ==
  /\ At(c, "caching") /\ SetCached(ProcOf[c], req[c].key)
  /\ Go(c, "writing")
  /\ UNCHANGED <<bucketVars, rowVars, objects, dirVars, ghosts, faults>>

\* driver.Write: os.WriteFile.
Write(c) ==
  /\ At(c, "writing")
  /\ objects' = Truncated(objects, req[c].file, EncodedPath(c), c)
  /\ Go(c, "filling")
  /\ UNCHANGED <<keyVars, bucketVars, rowVars, dirVars, ghosts, faults>>

Fill(c) ==
  LET f == req[c].file
      p == EncodedPath(c)
  IN
  /\ At(c, "filling")
  /\ \E whole \in BOOLEAN :
       /\ Alone(objects, f, p, c) => whole
       /\ objects' = Filled(objects, f, p, c, req[c].data, req[c].key.dek,
                            whole)
  /\ Go(c, IF req[c].op = "create" THEN "inserting" ELSE "updating")
  /\ UNCHANGED <<keyVars, bucketVars, rowVars, dirVars, ghosts, faults>>

\* An error of either half, of an object or of a chunk, is answered, and what
\* it left stays.
WriteFails(c) ==
  /\ req[c].step \in {"writing", "filling", "opening", "storing"}
  /\ Fault /\ Answer(c)
  /\ \E torn \in {{}, {c}} :
       /\ objects' = Closed(objects, {c}, torn)
       /\ staged' = Closed(staged, {c}, torn)
  /\ UNCHANGED <<keyVars, bucketVars, rowVars, dir, ghosts>>

\* CreateFile's INSERT. The id is the primary key and the bucket a foreign
\* key: if either objects, the object is deleted, whoever wrote it.
Insert(c) ==
  LET f == req[c].file IN
  /\ At(c, "inserting")
  /\ \/ /\ bucket /\ at[f] = "none"
        /\ at' = [at EXCEPT ![f] = "final"]
        /\ path' = [path EXCEPT ![f] = EncodedPath(c)]
        /\ Answer(c) /\ UNCHANGED faults
     \/ /\ ~(bucket /\ at[f] = "none")
        /\ Go(c, "discarding") /\ UNCHANGED <<rowVars, faults>>
     \/ Fault /\ Go(c, "discarding") /\ UNCHANGED rowVars
  /\ UNCHANGED <<keyVars, bucketVars, objects, dirVars, ghosts>>

Discard(c) ==
  /\ At(c, "discarding")
  /\ objects' = Without(objects, req[c].file, EncodedPath(c))
  /\ Answer(c)
  /\ UNCHANGED <<keyVars, bucketVars, rowVars, dirVars, ghosts, faults>>

-----------------------------------------------------------------------------
\* InitChunkedUpload: the directory, then the row.
InitChunkedUpload(c, f) ==
  /\ bucket /\ claims[f] < MaxClaims
  /\ Start(c, [Idle EXCEPT !.step = "registering", !.op = "other",
                           !.file = f])
  /\ dir' = dir \cup {f}
  /\ claims' = [claims EXCEPT ![f] = @ + 1]
  /\ UNCHANGED <<keyVars, bucketVars, rowVars, objects, staged, completes,
                 acked, damaged, faults>>

Register(c) ==
  LET f == req[c].file IN
  /\ At(c, "registering")
  /\ at' = IF bucket /\ at[f] = "none" THEN [at EXCEPT ![f] = "staged"]
           ELSE at
  /\ Answer(c)
  /\ UNCHANGED <<keyVars, bucketVars, path, objects, dirVars, ghosts, faults>>

\* assertPendingUpload: the row's path is the chunk directory.
Pending(f) == at[f] = "staged"

UploadChunk(c, f, i) ==
  /\ bucket /\ Pending(f)
  /\ Start(c, [Idle EXCEPT !.step = "staging", !.op = "other", !.file = f,
                           !.data = {i}])
  /\ UNCHANGED <<keyVars, bucketVars, rowVars, objects, dirVars, ghosts,
                 faults>>

\* The directory is made if it is not there.
MakeDir(c) ==
  /\ At(c, "staging")
  /\ dir' = dir \cup {req[c].file}
  /\ Go(c, "opening")
  /\ UNCHANGED <<keyVars, bucketVars, rowVars, objects, staged, ghosts,
                 faults>>

\* Whether the first completion that reads chunk i has it still to come.
Unread(f, i) ==
  \/ completes[f] = 0
  \/ \E d \in Callers : /\ At(d, "reading") /\ req[d].file = f
                         /\ i \in req[d].todo

\* os.WriteFile of the chunk. A completion may have removed the directory.
OpenChunk(c) ==
  LET f == req[c].file IN
  /\ At(c, "opening")
  /\ \/ /\ f \in dir /\ Go(c, "storing")
        /\ \E i \in req[c].data :
             /\ staged' = Truncated(staged, f, i, c)
             /\ acked' = [acked EXCEPT ![f] =
                            IF Unread(f, i) THEN @ \ {i} ELSE @]
     \/ f \notin dir /\ Answer(c) /\ UNCHANGED <<staged, acked>>
  /\ UNCHANGED <<keyVars, bucketVars, rowVars, objects, dir, claims,
                 completes, damaged, faults>>

FillChunk(c) ==
  LET f == req[c].file IN
  /\ At(c, "storing")
  /\ \E i \in req[c].data, whole \in BOOLEAN :
       /\ Alone(staged, f, i, c) => whole
       /\ staged' = Filled(staged, f, i, c, {i}, 0, whole)
       /\ acked' = [acked EXCEPT ![f] =
                      IF /\ completes[f] = 0 /\ Alone(staged, f, i, c)
                         /\ OpenBy(staged, f, i, c) # {}
                      THEN @ \cup {i} ELSE @]
  /\ Answer(c)
  /\ UNCHANGED <<keyVars, bucketVars, rowVars, objects, dir, claims,
                 completes, damaged, faults>>

-----------------------------------------------------------------------------
CompleteChunkedUpload(c, f) ==
  /\ bucket /\ Pending(f)
  /\ Start(c, [Idle EXCEPT !.step = "listing", !.op = "complete",
                           !.file = f])
  /\ UNCHANGED <<keyVars, bucketVars, rowVars, objects, dirVars, ghosts,
                 faults>>

\* Broken: as if one entry of the listing were left out.
ListButOne(c) ==
  LET f == req[c].file IN
  /\ At(c, "listing")
  /\ f \in dir /\ completes[f] < MaxCompletes
  /\ \E last \in Chunks :
       req' = [req EXCEPT ![c].step = "reading",
                ![c].todo = {i \in Chunks \ {last} :
                               Named(staged, f, i) # {}}]
  /\ completes' = [completes EXCEPT ![f] = @ + 1]
  /\ UNCHANGED <<keyVars, bucketVars, rowVars, objects, dirVars, claims,
                 acked, damaged, faults>>

\* os.ReadDir.
List(c) ==
  LET f == req[c].file IN
  /\ At(c, "listing")
  /\ \/ /\ f \in dir /\ completes[f] < MaxCompletes
        /\ req' = [req EXCEPT ![c].step = "reading",
                     ![c].todo = {i \in Chunks : Named(staged, f, i) # {}}]
        /\ completes' = [completes EXCEPT ![f] = @ + 1]
     \/ f \notin dir /\ Answer(c) /\ UNCHANGED completes
  /\ UNCHANGED <<keyVars, bucketVars, rowVars, objects, dirVars, claims,
                 acked, damaged, faults>>

\* os.ReadFile of one chunk after the other: whatever it has by now. If it is
\* gone, the completion fails.
ReadChunk(c) ==
  LET f == req[c].file IN
  /\ At(c, "reading")
  /\ \/ \E i \in req[c].todo :
          \/ /\ Named(staged, f, i) = {} /\ Answer(c)
          \/ \E o \in Named(staged, f, i) :
               req' = [req EXCEPT ![c].todo = @ \ {i},
                                  ![c].data = @ \cup o.data]
     \/ req[c].todo = {} /\ Go(c, "removing")
  /\ UNCHANGED <<keyVars, bucketVars, rowVars, objects, dirVars, ghosts,
                 faults>>

\* os.RemoveAll: one chunk after the other, then the directory. It fails when
\* a chunk was added meanwhile, and the error is ignored.
Remove(c) ==
  LET f == req[c].file
      left == {o \in staged : o.file = f}
  IN
  /\ At(c, "removing")
  /\ \/ /\ \E o \in left : staged' = staged \ {o}
        /\ UNCHANGED <<dir, req>>
     \/ left = {} /\ dir' = dir \ {f} /\ Go(c, "checking") /\ UNCHANGED staged
     \/ left # {} /\ Go(c, "checking") /\ UNCHANGED dirVars
  /\ UNCHANGED <<keyVars, bucketVars, rowVars, objects, ghosts, faults>>

\* Only now the bucket is read, and may refuse the size, the type or what the
\* scanner finds.
Check(c) ==
  /\ At(c, "checking")
  /\ \/ /\ bucket
        /\ req' = [req EXCEPT ![c].step = "encoding", ![c].set = setting]
     \/ Answer(c)
  /\ UNCHANGED <<keyVars, bucketVars, rowVars, objects, dirVars, ghosts,
                 faults>>

\* The UPDATE finds the row by its id alone, if it is still there.
Update(c) ==
  LET f == req[c].file IN
  /\ At(c, "updating")
  /\ \/ /\ at[f] # "none"
        /\ at' = [at EXCEPT ![f] = "final"]
        /\ path' = [path EXCEPT ![f] = EncodedPath(c)]
        /\ UNCHANGED faults
     \/ at[f] = "none" /\ UNCHANGED <<rowVars, faults>>
     \/ Fault /\ UNCHANGED rowVars
  /\ Answer(c)
  /\ UNCHANGED <<keyVars, bucketVars, objects, dirVars, ghosts>>

-----------------------------------------------------------------------------
\* DeleteFile: the path is read, the row deleted, then what was at the path.
DeleteFile(c, f) ==
  /\ at[f] # "none"
  /\ Start(c, [Idle EXCEPT !.step = "unlinking", !.op = "other", !.file = f,
                           !.was = at[f], !.path = path[f]])
  /\ UNCHANGED <<keyVars, bucketVars, rowVars, objects, dirVars, ghosts,
                 faults>>

\* An error of the DELETE is ignored, and the object goes all the same.
Unlink(c) ==
  LET f == req[c].file IN
  /\ At(c, "unlinking")
  /\ \/ /\ at' = [at EXCEPT ![f] = "none"]
        /\ path' = [path EXCEPT ![f] = Plain]
        /\ UNCHANGED <<damaged, faults>>
     \/ /\ Fault /\ damaged' = damaged \cup {f}
        /\ UNCHANGED rowVars
  /\ Go(c, "erasing")
  /\ UNCHANGED <<keyVars, bucketVars, objects, dirVars, claims, completes,
                 acked>>

\* The local driver removes a directory only when it is empty.
Erase(c) ==
  LET f == req[c].file IN
  /\ At(c, "erasing")
  /\ IF req[c].was = "staged"
     THEN /\ dir' = IF \E o \in staged : o.file = f THEN dir ELSE dir \ {f}
          /\ UNCHANGED objects
     ELSE objects' = Without(objects, f, req[c].path) /\ UNCHANGED dir
  /\ Answer(c)
  /\ UNCHANGED <<keyVars, bucketVars, rowVars, staged, ghosts, faults>>

-----------------------------------------------------------------------------
UpdateBucket(s) ==
  /\ bucket /\ setting # s /\ setting' = s
  /\ UNCHANGED <<keyVars, bucket, rowVars, objects, dirVars, req, ghosts,
                 faults>>

\* The rows of its files go with the bucket; objects and chunks stay.
DeleteBucket ==
  /\ bucket /\ bucket' = FALSE /\ setting' = NoSetting
  /\ at' = [f \in Ids |-> "none"] /\ path' = [f \in Ids |-> Plain]
  /\ UNCHANGED <<keyVars, objects, dirVars, req, ghosts, faults>>

EnsureProjectKey(c) ==
  /\ Active = {}
  /\ Start(c, [Idle EXCEPT !.step = "ensuring", !.op = "other"])
  /\ UNCHANGED <<keyVars, bucketVars, rowVars, objects, dirVars, ghosts,
                 faults>>

Ensure(c) ==
  /\ At(c, "ensuring") /\ InsertFirstKey /\ Answer(c)
  /\ UNCHANGED <<bucketVars, rowVars, objects, dirVars, ghosts, faults>>

RotateProjectKey(c) ==
  /\ \E k \in Active :
       /\ k.version < MaxVersion
       /\ Start(c, [Idle EXCEPT !.step = "rotating", !.op = "other",
                                !.key = KeyOf(k)])
  /\ UNCHANGED <<keyVars, bucketVars, rowVars, objects, dirVars, ghosts,
                 faults>>

Rotate(c) ==
  /\ At(c, "rotating") /\ RotateFrom(req[c].key.version)
  /\ IF HasVersion(req[c].key.version + 1) THEN Answer(c)
     ELSE Go(c, "dropping")
  /\ UNCHANGED <<bucketVars, rowVars, objects, dirVars, ghosts, faults>>

Drop(c) ==
  /\ At(c, "dropping") /\ DropCached(ProcOf[c]) /\ Answer(c)
  /\ UNCHANGED <<bucketVars, rowVars, objects, dirVars, ghosts, faults>>

ExpireKey(p) ==
  /\ Expire(p)
  /\ UNCHANGED <<bucketVars, rowVars, objects, dirVars, req, ghosts, faults>>

\* A process dies with its requests and its cache, in the middle of a write
\* or before it.
Served(p) == {c \in Callers : ProcOf[c] = p}

Crash(p) ==
  /\ \E c \in Served(p) : ~At(c, "idle")
  /\ Fault
  /\ req' = [c \in Callers |-> IF c \in Served(p) THEN Idle ELSE req[c]]
  /\ DropCached(p)
  /\ \E torn \in SUBSET Served(p) :
       /\ objects' = Closed(objects, Served(p), torn)
       /\ staged' = Closed(staged, Served(p), torn)
  /\ UNCHANGED <<bucketVars, rowVars, dir, ghosts>>

AnyRequest(c, f) ==
  \/ CreateFile(c, f) \/ InitChunkedUpload(c, f) \/ DeleteFile(c, f)
  \/ CompleteChunkedUpload(c, f)
  \/ \E i \in Chunks : UploadChunk(c, f, i)

Step(c) ==
  \/ Encode(c) \/ CacheKey(c) \/ Write(c) \/ Fill(c) \/ WriteFails(c)
  \/ Insert(c) \/ Discard(c) \/ Register(c)
  \/ MakeDir(c) \/ OpenChunk(c) \/ FillChunk(c)
  \/ List(c) \/ ReadChunk(c) \/ Remove(c) \/ Check(c) \/ Update(c)
  \/ Unlink(c) \/ Erase(c)
  \/ EnsureProjectKey(c) \/ Ensure(c)
  \/ RotateProjectKey(c) \/ Rotate(c) \/ Drop(c)

Next ==
  \/ \E c \in Callers : Step(c) \/ \E f \in Ids : AnyRequest(c, f)
  \/ \E s \in Settings : UpdateBucket(s)
  \/ DeleteBucket
  \/ \E p \in Procs : ExpireKey(p) \/ Crash(p)

Spec == Init /\ [][Next]_vars

-----------------------------------------------------------------------------
\* The object a file's row points at.
ObjectsOf(f) == Named(objects, f, path[f])

\* Broken: as if decodeAtRest asked for the active key.
DecodesActive(o) == IF o.path.version = 0 THEN o.sealed = 0
                    ELSE OpensWithActive([version |-> o.path.version,
                                          dek |-> o.sealed])

\* GetFileContent can decode it: the path says how it was encoded, its version
\* names the key.
Decodes(o) == IF o.path.version = 0 THEN o.sealed = 0
              ELSE Opens([version |-> o.path.version, dek |-> o.sealed])

\* A file that was created once can always be read back: its object is where
\* the row says, has all its bytes and decodes, whatever the bucket's settings
\* have become, for as many key rotations as there were since, whether or not
\* completions, deletions, crashes and failed statements overlapped with its
\* creation. A DELETE that fails takes the object from under its row, and of
\* two completions that both read the chunks one may be writing over what the
\* other has committed: then the object is there, and decodes when it is whole.
CommittedReadable ==
  \A f \in Ids \ damaged : at[f] = "final" /\ claims[f] = 1 =>
    /\ ObjectsOf(f) # {}
    /\ \A o \in ObjectsOf(f) :
         /\ completes[f] <= 1 => o.state = "whole"
         /\ o.state = "whole" => Decodes(o)

\* A file whose chunks one completion has read holds every chunk that was
\* answered before, however chunk requests overlap with that completion,
\* unless the chunk itself was sent again before the completion had read it
\* or its two requests overlapped.
WholeIfCompletedOnce ==
  \A f \in Ids : at[f] = "final" /\ completes[f] <= 1 =>
    \A o \in ObjectsOf(f) : o.state = "whole" => acked[f] \subseteq o.data

\* storage/authz.go says of a completion "Only complete an in-progress
\* upload, never overwrite a committed file id": the content of a file does
\* not change while it is one.
ContentOf(f) == {<<o.state, o.data>> : o \in ObjectsOf(f)}
CommittedKept ==
  [][\A f \in Ids \ damaged :
        at[f] = "final" /\ at'[f] = "final" /\ claims[f] = 1
          => ContentOf(f)' = ContentOf(f)]_vars
=============================================================================
