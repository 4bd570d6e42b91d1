------------------------------ MODULE Transfer ------------------------------
(***************************************************************************)
(* One migration from another backend: transfer/service.go (Create,        *)
(* Cancel, RunJob), transfer/transfer.go (Run), transfer/store.go,         *)
(* transfer/dest_applad.go and worker/transfer.go.                         *)
(*                                                                         *)
(* A worker that the queue gives the job to takes a Postgres advisory lock *)
(* on the migration, looks at its row, and imports what the source exports *)
(* page by page. The queue leases a job for five minutes and a migration   *)
(* may take six hours, so a second worker is given the same job while the  *)
(* first is still importing.                                               *)
(*                                                                         *)
(* A resource is known by how its import is made repeatable: a keyed one   *)
(* (a user, a table, a column, a row or a file with an id) is inserted     *)
(* under an id derived from the source's; a fresh one (a row or a file     *)
(* without) gets a new id every time. A file is an object in storage       *)
(* beside its row. A table needs its database, a column and a row their    *)
(* table, a file its bucket: each run remembers which of these containers  *)
(* it has imported.                                                        *)
(***************************************************************************)
EXTENDS WorkerQueue, Sequences, SequencesExt, FiniteSets

CONSTANTS Workers,         \* transfer workers
          Keyed, Fresh,    \* the resources of the source
          Users, Columns, Files,
                           \* the users, the columns and the files among them
          Parent,          \* the container of those that need one
          Pages,           \* the batches in which it exports them
          None,            \* nobody holds the advisory lock
          MaxFaults        \* bound on crashes, shutdowns, failed statements

Resources  == Keyed \cup Fresh
Containers == {Parent[r] : r \in DOMAIN Parent}

\* What may be left out without an error: a user whose email another account has,
\* a file that the source cannot read or that is too large.
Optional == Users \cup Files

ASSUME ResourcesAssumption ==
  /\ Keyed \cap Fresh = {}
  /\ Users \subseteq Keyed /\ Columns \subseteq Keyed \ Optional
  /\ Files \subseteq Resources
  /\ DOMAIN Parent \subseteq Resources
  /\ Containers \subseteq Keyed \ Optional
  /\ Pages \in Seq(Seq(SUBSET Resources))

\* A place in the export, a batch and a place there, and what may stand at it:
\* one resource, but any row of its table where the table is read in several
\* pages without an order, so that a row may come twice or not at all.
Places == UNION {{p} \X DOMAIN Pages[p] : p \in DOMAIN Pages}
At(a) == Pages[a[1]][a[2]]
Precedes(a, b) == a[1] < b[1] \/ (a[1] = b[1] /\ a[2] < b[2])

\* A file has its place, and a container comes before its contents. An empty
\* batch imports nothing and is left out.
ASSUME ExportAssumption ==
  /\ \A p \in DOMAIN Pages : Pages[p] # <<>>
  /\ \A a \in Places : /\ At(a) # {}
                       /\ \A f \in At(a) \cap Files : At(a) = {f}
  /\ \A b \in Places : \A r \in At(b) \cap DOMAIN Parent :
       \E a \in Places : At(a) = {Parent[r]} /\ Precedes(a, b)

ASSUME NobodyAssumption == None \notin Workers
ASSUME FaultsAssumption == MaxFaults \in Nat

VARIABLES row,             \* data_migrations.status, or "none"
          pushed,          \* whether the job has reached the queue
          lock,            \* the worker whose session holds the advisory lock
          severed,         \* workers whose session has gone since they locked
          pc,              \* where each worker is
          lease,           \* its receipt
          live,            \* whether its context is alive
          page, item,      \* where it is in the export
          verdict,         \* the status it is going to write
          there,           \* destination: the resources that are in it
          copies,          \* destination: rows with new ids, by the place in the
                           \* export they were imported from
          objects,         \* destination: files with an id whose object is stored
          known,           \* containers the current run of a worker can name
          early,           \* leases of live workers that were reaped
          faults,          \* faults so far
          lost             \* the lost sessions among them

job    == <<row, pushed>>
locks  == <<lock, severed>>
worker == <<pc, lease, live, page, item, verdict, known>>
dest   == <<there, copies, objects>>
bounds == <<early, faults, lost>>
vars   == <<job, queue, locks, worker, dest, bounds>>

Terminal == {"completed", "failed", "cancelled"}
Status   == {"none", "pending", "running"} \cup Terminal
PC == {"idle", "locking", "checking", "marking", "paging", "importing",
       "inserting", "finishing", "releasing", "acking", "nacking"}
NoLease  == [no |-> 0, retries |-> 0]

TypeOK ==
  /\ QueueTypeOK
  /\ row \in Status /\ pushed \in BOOLEAN
  /\ lock \in Workers \cup {None} /\ severed \subseteq Workers
  /\ pc \in [Workers -> PC]
  /\ lease \in [Workers -> Lease \cup {NoLease}]
  /\ live \in [Workers -> BOOLEAN]
  /\ page \in [Workers -> Nat] /\ item \in [Workers -> Nat]
  /\ verdict \in [Workers -> Terminal \cup {"none", "error"}]
  /\ known \in [Workers -> SUBSET Containers]
  /\ there \in SUBSET Resources /\ copies \in [Places -> Nat]
  /\ objects \in SUBSET (Files \cap Keyed)
  /\ early \in Nat /\ faults \in Nat /\ lost \in Nat

Init ==
  /\ QueueInit
  /\ row = "none" /\ pushed = FALSE
  /\ lock = None /\ severed = {}
  /\ pc = [w \in Workers |-> "idle"]
  /\ lease = [w \in Workers |-> NoLease]
  /\ live = [w \in Workers |-> TRUE]
  /\ page = [w \in Workers |-> 1] /\ item = [w \in Workers |-> 1]
  /\ verdict = [w \in Workers |-> "none"]
  /\ known = [w \in Workers |-> {}]
  /\ there = {} /\ copies = [a \in Places |-> 0] /\ objects = {}
  /\ early = 0 /\ faults = 0 /\ lost = 0

OneFault == faults < MaxFaults /\ faults' = faults + 1 /\ UNCHANGED early
Fault    == OneFault /\ UNCHANGED lost

Goto(w, place) == pc' = [pc EXCEPT ![w] = place]

-----------------------------------------------------------------------------
(* The API.                                                                *)

Create ==
  /\ row = "none"
  /\ row' = "pending" /\ pushed' = TRUE
  /\ Push
  /\ UNCHANGED <<locks, worker, dest, bounds>>

\* The push fails, and the job is failed at once. (JobQueue has the push that
\* succeeds and whose answer is lost.)
CreateFails ==
  /\ Fault
  /\ row = "none"
  /\ row' = "failed"
  /\ UNCHANGED <<pushed, queue, locks, worker, dest>>

Cancel ==
  /\ row \in {"pending", "running"}
  /\ row' = "cancelled"
  /\ UNCHANGED <<pushed, queue, locks, worker, dest, bounds>>

-----------------------------------------------------------------------------
(* RunJob.                                                                 *)

Take(w) ==
  /\ pc[w] = "idle"
  /\ \E r \in 0 .. MaxRetries - 1 :
       Pop(r) /\ lease' = [lease EXCEPT ![w] = NextLease(r)]
  /\ Goto(w, "locking")
  /\ UNCHANGED <<job, locks, live, page, item, verdict, known, dest, bounds>>

\* Broken: the lock is asked for and the answer is not looked at.
LockRegardless(w) ==
  /\ pc[w] = "locking"
  /\ lock' = w
  /\ Goto(w, "checking")
  /\ UNCHANGED <<severed, job, queue, lease, live, page, item, verdict, known,
                 dest, bounds>>

\* pg_try_advisory_lock. Whoever does not get it reports success.
Lock(w) ==
  /\ pc[w] = "locking"
  /\ \/ lock = None /\ lock' = w /\ Goto(w, "checking")
     \/ lock # None /\ Goto(w, "acking") /\ UNCHANGED lock
  /\ UNCHANGED <<severed, job, queue, lease, live, page, item, verdict, known,
                 dest, bounds>>

\* Broken: only a cancelled migration is left alone.
CheckCancelledOnly(w) ==
  /\ pc[w] = "checking"
  /\ Goto(w, IF row = "cancelled" THEN "releasing" ELSE "marking")
  /\ UNCHANGED <<job, queue, locks, lease, live, page, item, verdict, known,
                 dest, bounds>>

\* The row is read under the lock: a finished migration is not run again.
Check(w) ==
  /\ pc[w] = "checking"
  /\ Goto(w, IF row \in Terminal THEN "releasing" ELSE "marking")
  /\ UNCHANGED <<job, queue, locks, lease, live, page, item, verdict, known,
                 dest, bounds>>

\* The source cannot be built (from credentials that are gone, for one).
BuildFails(w) ==
  /\ pc[w] = "marking"
  /\ verdict' = [verdict EXCEPT ![w] = "failed"]
  /\ Goto(w, "finishing")
  /\ UNCHANGED <<job, queue, locks, lease, live, page, item, known, dest,
                 bounds>>

\* MarkRunning, whatever the row says now; then the export begins.
MarkRunning(w) ==
  /\ pc[w] = "marking"
  /\ row' = "running"
  /\ page' = [page EXCEPT ![w] = 1] /\ item' = [item EXCEPT ![w] = 1]
  /\ known' = [known EXCEPT ![w] = {}]
  /\ Goto(w, "paging")
  /\ UNCHANGED <<pushed, queue, locks, lease, live, verdict, dest, bounds>>

\* A statement before the export fails: an error for the queue.
StartFails(w) ==
  /\ pc[w] \in {"checking", "marking"}
  /\ Fault
  /\ verdict' = [verdict EXCEPT ![w] = "error"]
  /\ Goto(w, "releasing")
  /\ UNCHANGED <<job, queue, locks, lease, live, page, item, known, dest>>

-----------------------------------------------------------------------------
(* Run: the export and, per page, emit.                                    *)

\* The export ends, and with it what it has come to.
Conclude(w, v) ==
  /\ verdict' = [verdict EXCEPT ![w] = v]
  /\ Goto(w, IF v = "error" THEN "releasing" ELSE "finishing")
  /\ page' = [page EXCEPT ![w] = 1] /\ item' = [item EXCEPT ![w] = 1]
  /\ known' = [known EXCEPT ![w] = {}]

\* The next page, the end, a cancellation, or an error of the source; a dead
\* context is an error that leaves the row as it is.
Page(w) ==
  /\ pc[w] = "paging"
  /\ \/ ~live[w] /\ Conclude(w, "error")
     \/ live[w] /\ Conclude(w, "failed")
     \/ live[w] /\ page[w] > Len(Pages) /\ Conclude(w, "completed")
     \/ live[w] /\ page[w] <= Len(Pages) /\ row = "cancelled"
        /\ Conclude(w, "cancelled")
     \/ /\ live[w] /\ page[w] <= Len(Pages) /\ row # "cancelled"
        /\ Goto(w, "importing")
        /\ UNCHANGED <<page, item, verdict, known>>
  /\ UNCHANGED <<job, queue, locks, lease, live, dest, bounds>>

\* The next resource of the page or, behind the last one, the next page. emit
\* looks at the context before every resource.
NextItem(w) ==
  IF item[w] >= Len(Pages[page[w]])
  THEN /\ Goto(w, "paging")
       /\ page' = [page EXCEPT ![w] = @ + 1]
       /\ item' = [item EXCEPT ![w] = 1]
  ELSE /\ Goto(w, "importing")
       /\ item' = [item EXCEPT ![w] = @ + 1]
       /\ UNCHANGED page

Here(w) == <<page[w], item[w]>>

Interrupted(w) ==
  /\ pc[w] = "importing" /\ ~live[w]
  /\ Conclude(w, "error")
  /\ UNCHANGED <<job, queue, locks, lease, live, dest, bounds>>

\* A file that cannot be read is left out by the source, which tells nobody.
SourceSkips(w) ==
  /\ pc[w] = "importing" /\ At(Here(w)) \subseteq Files
  /\ NextItem(w)
  /\ UNCHANGED <<job, queue, locks, lease, live, verdict, known, dest, bounds>>

\* Nothing is imported into a container this run has not imported.
HasParent(w, r) == r \in DOMAIN Parent => Parent[r] \in known[w]

ImportOrphan(w) ==
  /\ pc[w] = "importing" /\ live[w]
  /\ \E r \in At(Here(w)) : ~HasParent(w, r)
  /\ NextItem(w)
  /\ UNCHANGED <<job, queue, locks, lease, live, verdict, known, dest, bounds>>

\* An email that another account has, a file too large for its bucket.
DestinationSkips(w) ==
  /\ pc[w] = "importing" /\ live[w]
  /\ \E r \in At(Here(w)) \cap Optional : HasParent(w, r)
  /\ NextItem(w)
  /\ UNCHANGED <<job, queue, locks, lease, live, verdict, known, dest, bounds>>

\* An INSERT under a derived id finds its row there the second time.
Insert(w, r) ==
  /\ there' = there \cup {r}
  /\ copies' = [copies EXCEPT ![Here(w)] = IF r \in Fresh THEN @ + 1 ELSE @]

Know(w, r) == known' = [known EXCEPT ![w] = @ \cup ({r} \cap Containers)]

\* What r goes into is there.
Fits(r) == r \in DOMAIN Parent => Parent[r] \in there

\* Import a row-like resource; "already exists" counts as done.
ImportRow(w) ==
  /\ pc[w] = "importing" /\ live[w]
  /\ \E r \in At(Here(w)) \ Files :
       HasParent(w, r) /\ Fits(r) /\ Insert(w, r) /\ Know(w, r)
  /\ NextItem(w)
  /\ UNCHANGED <<job, queue, locks, lease, live, verdict, objects, bounds>>

\* What the run has gone past for certain.
Behind(w) ==
  {r \in Resources : \E a \in Places : At(a) = {r} /\ Precedes(a, Here(w))}

\* Its columns that are not there.
Lacking(w) == (Columns \cap Behind(w)) \ there

\* What goes into a container, or a column, that only counts as imported is
\* refused; so is a row with a column that was.
ImportRefused(w) ==
  /\ pc[w] = "importing" /\ live[w]
  /\ \E r \in At(Here(w)) \cap DOMAIN Parent :
       /\ HasParent(w, r)
       /\ \/ ~Fits(r)
          \/ \E s \in Lacking(w) \cap DOMAIN Parent : Parent[s] = Parent[r]
       /\ UNCHANGED known \/ Know(w, r)
  /\ NextItem(w)
  /\ UNCHANGED <<job, queue, locks, lease, live, verdict, dest, bounds>>

\* storage.CreateFileStream: the object is written first ...
WriteObject(w) ==
  /\ pc[w] = "importing" /\ live[w]
  /\ \E f \in At(Here(w)) \cap Files :
       HasParent(w, f) /\ Fits(f) /\ objects' = objects \cup ({f} \cap Keyed)
  /\ Goto(w, "inserting")
  /\ UNCHANGED <<job, queue, locks, lease, live, page, item, verdict, known,
                 there, copies, bounds>>

\* ... then the row. When the row cannot be inserted the object is deleted, even
\* if the row is there already, which the import then counts as done.
InsertFile(w) ==
  /\ pc[w] = "inserting" /\ live[w]
  /\ \E f \in At(Here(w)) :
       /\ Insert(w, f)
       /\ objects' = IF f \in there THEN objects \ {f} ELSE objects
  /\ NextItem(w)
  /\ UNCHANGED <<job, queue, locks, lease, live, verdict, known, bounds>>

\* An import fails, with an error that is recorded if the record can be written
\* and the migration goes on; when it reads "does not exist", it is taken for
\* "already exists" and the container for imported. A write that fails has
\* truncated the object.
ImportFails(w) ==
  /\ Fault
  /\ pc[w] = "importing"
  /\ \E r \in At(Here(w)) :
       /\ HasParent(w, r)
       /\ UNCHANGED known \/ Know(w, r)
       /\ objects' \in {objects, objects \ {r}}
  /\ NextItem(w)
  /\ UNCHANGED <<job, queue, locks, lease, live, verdict, there, copies>>

\* So does the INSERT of a file, under a dead context for certain; then the
\* storage driver may fail to delete the object as well.
InsertFileFails(w) ==
  /\ pc[w] = "inserting"
  /\ \/ Fault /\ objects' = objects \ At(Here(w))
     \/ /\ ~live[w] /\ UNCHANGED bounds
        /\ objects' \in {objects, objects \ At(Here(w))}
  /\ NextItem(w)
  /\ UNCHANGED <<job, queue, locks, lease, live, verdict, known, there, copies>>

-----------------------------------------------------------------------------
(* The end of a job.                                                       *)

\* Broken: an export that failed is reported like one that came to its end.
FinishCompleted(w) ==
  /\ pc[w] = "finishing" /\ live[w]
  /\ row' = "completed"
  /\ Goto(w, "releasing")
  /\ UNCHANGED <<pushed, queue, locks, lease, live, page, item, verdict, known,
                 dest, bounds>>

\* Finish writes the row whatever it says.
Finish(w) ==
  /\ pc[w] = "finishing" /\ live[w]
  /\ row' = verdict[w]
  /\ Goto(w, "releasing")
  /\ UNCHANGED <<pushed, queue, locks, lease, live, page, item, verdict, known,
                 dest, bounds>>

FinishFails(w) ==
  /\ pc[w] = "finishing"
  /\ \/ Fault
     \/ ~live[w] /\ UNCHANGED bounds
  /\ verdict' = [verdict EXCEPT ![w] = "error"]
  /\ Goto(w, "releasing")
  /\ UNCHANGED <<job, queue, locks, lease, live, page, item, known, dest>>

\* The session gives the lock up, if it has it, and is forgotten.
EndSession(w) ==
  /\ lock' = IF lock = w THEN None ELSE lock
  /\ severed' = severed \ {w}

\* The deferred unlock, before the job is acked or nacked.
Release(w) ==
  /\ pc[w] = "releasing"
  /\ EndSession(w)
  /\ Goto(w, IF verdict[w] = "error" THEN "nacking" ELSE "acking")
  /\ UNCHANGED <<job, queue, lease, live, page, item, verdict, known, dest,
                 bounds>>

Reset(w) ==
  /\ Goto(w, "idle")
  /\ lease' = [lease EXCEPT ![w] = NoLease]
  /\ live' = [live EXCEPT ![w] = TRUE]
  /\ page' = [page EXCEPT ![w] = 1] /\ item' = [item EXCEPT ![w] = 1]
  /\ verdict' = [verdict EXCEPT ![w] = "none"]
  /\ known' = [known EXCEPT ![w] = {}]

AckJob(w) ==
  /\ pc[w] = "acking"
  /\ Ack(lease[w]) /\ Reset(w)
  /\ UNCHANGED <<job, locks, dest, bounds>>

\* Broken: a failed job is acknowledged like any other.
NackJobAcks(w) ==
  /\ pc[w] = "nacking"
  /\ Ack(lease[w]) /\ Reset(w)
  /\ UNCHANGED <<job, locks, dest, bounds>>

NackJob(w) ==
  /\ pc[w] = "nacking"
  /\ Nack(lease[w]) /\ Reset(w)
  /\ UNCHANGED <<job, locks, dest, bounds>>

-----------------------------------------------------------------------------
(* Time and faults.                                                        *)

\* The worker is told to stop, or the six hours are over.
Shutdown(w) ==
  /\ Fault
  /\ pc[w] \in {"marking", "paging", "importing", "inserting", "finishing"}
  /\ live[w]
  /\ live' = [live EXCEPT ![w] = FALSE]
  /\ UNCHANGED <<job, queue, locks, pc, lease, page, item, verdict, known, dest>>

\* The worker dies; the server ends its session and with it the lock.
Crash(w) ==
  /\ Fault
  /\ pc[w] # "idle"
  /\ Reset(w) /\ EndSession(w)
  /\ UNCHANGED <<job, queue, dest>>

\* The connection that has done nothing since it took the lock is closed by the
\* server or the network. The worker does not notice.
LoseSession(w) ==
  /\ OneFault /\ lost' = lost + 1
  /\ lock = w
  /\ lock' = None /\ severed' = severed \cup {w}
  /\ UNCHANGED <<job, queue, worker, dest>>

Held(l) == \E w \in Workers : lease[w] = l

ReapDead ==
  /\ \E l \in leased : ~Held(l) /\ Nack(l)
  /\ UNCHANGED <<job, locks, worker, dest, bounds>>

\* A migration outlasts its lease.
ReapLive ==
  /\ early < MaxEarly /\ early' = early + 1
  /\ \E w \in Workers :
       /\ pc[w] \in {"paging", "importing", "inserting", "finishing"}
       /\ lease[w] \in leased /\ Nack(lease[w])
  /\ UNCHANGED <<job, locks, worker, dest, faults, lost>>

-----------------------------------------------------------------------------
WorkerStep(w) ==
  \/ Take(w) \/ Lock(w) \/ Check(w) \/ BuildFails(w) \/ MarkRunning(w)
  \/ Page(w) \/ Interrupted(w) \/ SourceSkips(w) \/ DestinationSkips(w)
  \/ ImportOrphan(w) \/ ImportRefused(w) \/ ImportRow(w) \/ WriteObject(w)
  \/ InsertFile(w) \/ Finish(w) \/ Release(w) \/ AckJob(w) \/ NackJob(w)

FaultStep(w) ==
  \/ StartFails(w) \/ ImportFails(w) \/ InsertFileFails(w) \/ FinishFails(w)
  \/ Shutdown(w) \/ Crash(w) \/ LoseSession(w)

Next ==
  \/ Create \/ CreateFails \/ Cancel
  \/ \E w \in Workers : WorkerStep(w) \/ FaultStep(w)
  \/ ReapDead \/ ReapLive

Spec == Init /\ [][Next]_vars

\* Workers keep stepping (what they write under a dead context fails by itself)
\* and the reaper's ticker never stops.
DeadStep(w) == ~live[w] /\ (InsertFileFails(w) \/ FinishFails(w))

Fairness ==
  /\ \A w \in Workers : WF_vars(WorkerStep(w) \/ DeadStep(w))
  /\ WF_vars(ReapDead)

FairSpec == Spec /\ Fairness

-----------------------------------------------------------------------------
(* Properties.                                                             *)

\* Between the lock and the unlock.
Inside(w) == pc[w] \in {"checking", "marking", "paging", "importing",
                        "inserting", "finishing", "releasing"}

\* However often the queue delivers the job, one worker at a time runs the
\* migration (service.go: "makes the redelivery a no-op instead of a concurrent
\* double-import"), and the lock is held by exactly the one that does; only a
\* worker whose session was lost runs on without it.
OneImporter ==
  \A w \in Workers : lock = w <=> Inside(w) /\ w \notin severed

\* A row or a file without an id of its own, which nothing recognizes the second
\* time, is not imported again by redeliveries or by a job that is run again after
\* it finished: from one place of the export it takes an interruption of a run
\* for each further copy. A lost session may cost two, one by the worker that
\* runs on without the lock and one by the run that starts when that worker has
\* put a finished migration back to running. (A row that the source lists at two
\* places, as it may, counts at each.)
DuplicatesNeedInterruption == \A a \in Places : copies[a] <= 1 + faults + lost

\* What has a place of its own in the export and must not be left out.
Owed == {r \in Resources \ Optional : \E a \in Places : At(a) = {r}}

\* Only a run that went through the whole export reports a migration completed,
\* however often it was interrupted, cancelled and run again. Of what the export
\* lists for certain, a completed migration then lacks what failed: one resource
\* for a fault, beside those that hang on a container that failed or lacks a
\* column. Users and files may be left out without a fault, and what the paging of
\* an unordered table drops is not known to anybody.
CompletedIsWhole ==
  row = "completed" =>
    LET missing == Owed \ there
    IN /\ Cardinality(missing \ DOMAIN Parent) <= faults
       /\ missing # {} => faults > 0

\* A migration that reached the queue ends; it can be left "running" only when
\* its job was dead-lettered, or when its worker died after a second worker had
\* acknowledged the redelivered copy because of the lock.
MigrationSettles ==
  <>[](pushed => row \in Terminal \/ dead > 0 \/ (early > 0 /\ faults > 0))

\* The part of it that needs no fairness: a migration that is not over has a copy
\* of its job on a list, or a worker that will yet write how it ended. The
\* exceptions are the same two, and MigrationSettles has no others.
MigrationHeld ==
  pushed /\ row \notin Terminal =>
    \/ \E r \in 0 .. MaxRetries - 1 : waiting[r] > 0
    \/ leased # {}
    \/ \E w \in Workers : Inside(w) /\ pc[w] # "releasing"
    \/ dead > 0 \/ (early > 0 /\ faults > 0)

\* A migration that is run again converges: an imported file keeps its object
\* (transfer.go: "safe to re-run for the same migration ID: the Destination
\* imports idempotently, so a resumed job converges").
ImportedFileReadable == there \cap Files \cap Keyed \subseteq objects
=============================================================================
