# Applad: models and proofs of the backend

Applad is a self-hosted backend platform (Go, `apps/backend/internal`, PostgreSQL
and Redis, thirteen worker processes). Most of its handlers are one SQL statement
inside one request. What is hard to get right is what happens *between*
statements, requests and processes: jobs that move through Redis lists, schedules
that several replicas watch, workflows and imports that a queue delivers twice,
releases whose status is written by whoever comes last, files that are a row and an
object, transactions that wait for each other, messages numbered by a counter that
several requests advance. This directory models that part in TLA+, checks it with TLC
and proves the central claims with TLAPS.

## Inventory

Paths are below `src/apps/backend/internal`.

| Component | State | Operations | What is hard |
|---|---|---|---|
| Job queue (`queue/queue.go`) | three Redis lists per queue | Push, Pop, Ack, Nack, reap | two commands per step, crashes between them, reapers racing workers |
| Worker loops (`worker/*.go`) | the receipt in memory | pop, process, ack or nack | slow handlers, restarts |
| Cron scheduler (`worker/cron.go`) | Redis lock, `cron_state` | tick, collect, evaluate, claim, saveState, fire | replicas that outlive the lock, edits, downtime |
| Messages (`messaging/`) | table `messages` | create, inline send, sweep, delete | racing sweeps, cancelled contexts, partial failure |
| Releases (`deploy/`, `worker/builds.go`, `runtime/deploy.go`) | `deploy_releases`, containers, images | trigger, pull requests, build, roll back, tear down, stale sweep | unconditional status writes, retries, two builds of one target |
| Workflow engine (`workflows/`, `worker/executions.go`) | one run's context, `workflow_executions` | execute, run node by node, skip, try/catch, retry, nest, record | order fixed in advance, pruning, effects that must not repeat, second deliveries |
| Imports (`transfer/`, `worker/transfer.go`) | `data_migrations`, advisory lock, destination rows and files | create, run page by page, cancel | redelivery, lost sessions, cancellation, running again |
| Files (`storage/`) | `files` rows, objects, chunk directories | upload, init, chunk, complete, delete, change the bucket | a row and an object in two steps, overlapping requests, settings that change |
| Project keys (`dek/`) | `project_encryption_keys`, cache per process | ensure, unwrap, rotate | first use by two, stale caches |
| Realtime hub (`realtime/`) | hub maps, channels, clients | listen, publish, broadcast, subscribe, unregister | goroutines, full buffers, lost connections |
| Rows of databases (`databases/`, `db/db.go`) | project tables, connection pool | create, update, delete, increment, append, list, bulk, upsert, transactions | row locks, deadlocks, the pool, disconnects |
| Chat (`chat/`) | devices, prekeys, conversations, messages, receipts, cursors | register, revoke, top up, bundle, converse, send, list, acknowledge | a counter several transactions advance, repeated sends, one-time keys |
| Function containers (`runtime/pool.go`) | pool maps, Docker | acquire, release, reap | one sequential caller, see below |
| Schema migrations (`db/migrate.go`) | ledger, session lock | migrate | little |
| Authentication, rate limits, quotas | tokens, codes, counters | issue, consume, count | check and act in two statements |
| Push queues (`jobs/`) | tables `job_queues`, `jobs` | create, dequeue, ack, retry, fail | unreachable, see below |
| Everything else | single rows | CRUD | little |

How they interact: the API and the cron worker `Push` onto named queues; worker
processes `Pop`, do the work (a build, a workflow, an import) and write results to
PostgreSQL; the cron worker also runs two sweeps over tables (scheduled messages,
stale releases) and executes due workflows; a change of a row is notified to the
realtime hubs; files and encrypted columns use the project's keys. `PROJECT.json`
lists every component with its status, and the hazards, each at its line.

## Modules

A module named `...Proofs` holds the proofs about its component, one named `MC...`
the values TLC needs. Two proof modules extend the two components of a chain: the chat
and the hub that carries its events, and the scheduler and the releases that the sites it
rebuilds go through. Where both components would define a name, that of the hub or of
the releases says which it is (`HubTypeOK`, `ReleasesSpec`). An operator whose comment begins with "Broken:" is a variant of
a definition with a plausible bug, kept to show that the properties notice it.

### JobQueue (with AtLeastOnceQueue, JobQueueProofs)

One queue, any number of worker processes, each with a worker loop and a reaper as
`StartReaper` gives it. Every Redis command is a step, so that a crash or another
process can come between any two.

- `pending`, `processing`, `dlq`: the lists `applad:queue:{name}`, `...:processing`
  and `...:dlq`. An element is the JSON of a job; two are the same string exactly
  when they agree on the job, `Retries` and the time stamp, so an element is that
  triple.
- `pc`, `raw`, `job`: where a worker loop is, `Receipt.raw` and `Receipt.Job`.
  `Lease`, `StampRemove`, `StampPut` are the three commands of `Pop`; `Succeed`
  and `Ack` a handler that returns nil; `NackRemove` and `Requeue` one that fails.
- `todo`, `nacking`: the rest of a reaper's `LRANGE` snapshot, and the job it has
  removed and not put back. `Snapshot`, `Skip`, `ReapRemove`, `ReapPut`.
- `clock`, `horizon`: time stamps, and the youngest of them that has timed out.
  `TimePasses` may time out any stamp at any moment, also that of a job that is
  running: this is the slow handler.
- `Crash` and the `...Fails` actions: a process that dies, a command that fails or
  whose reply is lost, wherever the code calls Redis.

`AtLeastOnceQueue` is the promise: an accepted job stays in flight until it has
been executed or dead-lettered, and only a fault can make it vanish. `JobQueue`
implements it under `inFlight <- InFlight` (`ImplementsPromise`).

### WorkerQueue

The copies of one job with every operation a single step: the environment of a
handler whose own steps are modelled. What may happen inside an operation is
`JobQueue`'s subject. `WorkflowRuns` and `Transfer` extend it, add a worker's receipt
and let the reaper take the copy of a dead worker (`ReapDead`) or, up to `MaxEarly`
times, of a live one that is slow (`ReapLive`).

### Cron (with CronReleasesProofs)

Replicas of the cron worker, the lock `applad:cron:lock`, and one scheduled thing
with its row of `cron_state`. The clock counts minutes, the resolution of a
schedule; an expression is the set of its minutes. A tick is cut at its statements:
`Tick` (SETNX), `Collect`, `Evaluate` (SELECT and `decideCron`), then `Seed` or
`RecordError` (`saveState`), or `ClaimRun` (the conditional UPDATE) and `Fire`.
`Expire` may end the lock under a running tick; `Edit` is what the API does to the
schedule without touching `cron_state`; `Crash` is a replica or a statement that
fails. `Consume` is the worker that pops what was fired. `NextRun` is the library
robfig/cron and is marked external.

### ScheduledMessages (with ScheduledMessagesProofs)

The table `messages`; the sweeps of the cron replicas, deliberately without the
cron lock since the code's comment says delivery does not depend on it; and the
goroutine of each create request that sends at once. Sweeps and goroutines share
`Deliver` and `Record`. `Live` is the context: that of a goroutine is the
request's, which `Respond` cancels. `Calls` tells an email (one call for everybody)
from sms and push (a call per recipient), where one of several may fail.

### Releases (with CronReleasesProofs)

The releases of one web target, from the request to the container. The rows of
`deploy_releases` in the order of their creation; the queue "builds", taken here at
the word of `AtLeastOnceQueue` (a job is handed out at least once, in order unless it
fails or times out, and given up after `MaxRetries`); the builds worker; the
container that has the site's name; and the images.

- `TriggerPipeline` (the console, a push), `OpenPullRequest`, `RollbackRelease`,
  `ClosePullRequest`, `DestroyPreviewRelease`, `DeleteTarget` are the requests and
  webhooks of `deploy/service.go` and `deploy/handler.go`: a row, and a push whose error
  is dropped; closing a pull request marks its previews destroyed.
- A worker's job is cut where others can come between: `Take`, `Begin` (the status
  "building"), `Load` (the target's row and the source, then "deploying"), `Build`
  (the image), `Clear` and `Create` (the old container makes room for the new one),
  `Probe`, `MarkOriginal` (rollbacks), `Record`, `ReapImages`, then `Ack`; or `Fail`
  and `Nack`. A teardown is `Stop` and `Ack`.
- `WriteFails` is a status that does not reach the database, which is only logged;
  `StopFails` a container Docker does not remove; `Die` and `ReapJob` a worker that
  dies and the job it leaves behind; `TimeOut` a build that outlives the visibility
  timeout and is handed out again.
- `SweepStaleReleases` is the cron worker's sweep. It may come to a release at any
  time, since `started_at` is the time of the trigger and is never updated: an hour in
  the queue is an hour of building to the sweep.

Outcomes of git, railpack, Docker and the application are chance. Which release is a
pull request's is the constant `Previews`.

### WorkflowGraph and WorkflowRuns (with WorkflowRunsProofs)

`WorkflowGraph` is a definition as it is stored (nodes in order, edges that may name
nodes that do not exist) and what the engine computes of it before and between nodes:
`HasCycle`, `TopoSort` (as recursive functions, so that proofs stay possible), the
try/catch scopes, which nodes a condition, a switch or a filter asks to skip, and which
kinds are not retried.

`WorkflowRuns` is one execution: `Execute` inserts the row and pushes the job; each
worker the queue gives the job to (`Take`, `Begin`) runs the workflow. A call of
`RunWorkflow` is a frame; `execute_sub_workflow` pushes one (`EnterSub`), so a worker
has a stack. At each place of the order the worker does one of `PassUnknown`,
`SkipNode`, `Perform`, `CompleteNode`, `Retry`, `EnterSub`, `SubRefused`, `Catch`,
`Return`, `Abort`; then `Record` writes the row and the job is acknowledged. An attempt
succeeds or fails, and a failed one may have had its effect. `Expire` is the timeout
of a run, `Shutdown` and `Crash` the end of a process, `RecordFails` a lost UPDATE.

The code keeps one map of skipped nodes, into which branches, groups and the loop itself
write (`Ask`, `SkipNode`) and from which a caught failure deletes (`Unask`). Two fields
of a frame beside it only record, for the properties: `seeded`, the nodes asked for while
they were still to do, and `cut`, the edges that lead on from nodes asked for after they
had run. Two properties compare that map with what a reader of a definition would expect:

- `PrunesDeadBranches`: the loop, which looks at direct predecessors only, skips exactly
  the nodes that no path of taken branches reaches (`LiveNodes`).
- `CaughtIsHandled`: the handler of a failed node is not skipped if nothing but that
  failure decides about it (`Sheltered`): no other node that may run since asks to skip
  it, and it has no predecessors or one that ran if the failed node did.

Both suppose what the engine takes from its order: that it respects the edges between
nodes that exist (`Ordered`), and that no handler was passed before its node failed
(`InTime`). Without either they do not hold, nor does `CaughtIsHandled` without
`Sheltered`; "Known deviations" says what happens then.

### Transfer (with TransferProofs)

One migration from another backend. A worker locks it (`Lock`, an advisory lock of a
PostgreSQL session), looks at its row (`Check`), marks it running, then goes through
what the source exports: `Page`, `NextItem`, and for each resource one way it may go;
then `Finish`, `Release`, and `AckJob` or `NackJob`.

- The export is `Pages`, batches of *places*. At a place stands one resource (`At`), but
  any row of its table where a source pages through a table without an order
  (`source_postgres.go:198`): such a row may come twice or not at all. Assumed is only
  that a container has a place before its contents' (`ExportAssumption`), which is how
  every source walks; `RecordResource` and the counters are for display and left out.
- Resources differ in what makes importing them repeatable: an id derived from the
  source's (`Keyed`), or nothing (`Fresh`: a row or a file without an id, which gets a new
  one each time). `Files` have an object beside their row; `Users` and `Files` may be left
  out without an error (`Optional`). A resource goes into its container (`Parent`), which
  each run must have imported itself (`known`).
- In the destination, `there` is what has been inserted, `copies` counts what was inserted
  under a new id from each place, `objects` are the stored contents of files with an id.
- `ImportRow`, or `WriteObject` and `InsertFile`, import. `SourceSkips` is a file that the
  source drops because it cannot read it, `DestinationSkips` an email that is taken or a
  file that is too large, `ImportOrphan` a resource whose container this run does not know,
  `ImportRefused` what the destination refuses because something it needs is not there, `ImportFails`
  any other failure: recorded as an error, or, when its text says "does not exist", taken
  for "already exists", so that a container counts as imported (`isExists`).
- `Cancel` may come at any time. `LoseSession` frees the lock without the worker's
  knowledge and is counted twice, in `faults` and in `lost`: one lost session may cost two
  copies from a place, one by the worker that runs on and one by the run that starts when
  that worker has put a finished migration back to running
  (`DuplicatesNeedInterruption`).

### ProjectKeys and Uploads (with UploadsProofs)

`ProjectKeys`: rows with version, status and (as a number) the random key, and each
process's cached key. `Uploads` extends it: per file id its row (`at`, `path`), objects,
chunks, and the request each caller is in, cut between any two effects. `CreateFile` is
`Encode`, `CacheKey`, `Write`, `Fill`, `Insert` and, when the INSERT fails, `Discard`;
`InitChunkedUpload` and `Register`; `UploadChunk`, `MakeDir`, `OpenChunk`, `FillChunk`;
`CompleteChunkedUpload`, `List`, `ReadChunk` (one chunk after the other), `Remove` (likewise),
`Check`, then encode, write, fill, `Update`; `DeleteFile` is `Unlink` and `Erase`.
`UpdateBucket` changes compression and encryption under all of them; `EnsureProjectKey`
and `RotateProjectKey` change the keys. How a file was encoded is a suffix of its path
(`Path`), and its content is the set of the chunks it has whole.

`os.WriteFile` is two steps, for objects (`driver.go:59`) as for chunks
(`service.go:657`): it truncates the file of that name (`Truncated`) and then writes to
the file it has opened (`Filled`), which others may have opened as well and which may have
been unlinked meanwhile. A file on disk (`OnDisk`) knows who has it open, and is empty,
whole, or torn: a mixture of several writes or a part of one. `WriteFails` and `Crash` end
a write before, between or in the middle of its halves.

### RealtimeHub (with ChatRealtimeProofs)

Several API instances. `Commit` notifies every listening instance; `Publish` takes a
notification and broadcasts it, through Redis if there is one (`ToSubscribers`,
`FromRedis`) or `Locally`; `Broadcast` offers it to every client on the channel and
drops it where the buffer is full. A client has a reader (`SubscribeClient`,
`AddSubscription` or `SendError` after the authorization, `Unsubscribe`, `ReadFails`,
`Unregister`) and a writer (`WriteMessage`). `LoseListener`, `LoseSubscription`,
`Disconnect` and a `Publish` that fails are the faults.

### RowRequests (with RowRequestsProofs)

Requests on the rows of one table over a pool with `PoolSize` connections. A request
is "each" (a single operation or a bulk), "upsert" or "tx". `Authorize` and `Columns`
ask the pool for permissions and metadata, `Begin` takes a connection, `Execute` runs
the statement if no other transaction has the row locked, `Block` is where it waits. A
statement that waited affects the row it waited for, in its latest version, or no row when
that one is gone (`Target`); the code does not look at how many rows a plain UPDATE or
DELETE affected. An update then reads its row back in a statement of its own (`ReadBack`),
which finds any row that has the id by then; `Miss` is a primary key that is taken, or a
statement with RETURNING or a read-back that finds none. `Commit`, `CommitUnheard`
(committed, the answer lost) or `Abort` end it. PostgreSQL is modelled as read committed with row locks to the end of a
transaction, and ends a deadlock by `Abort`. `Leave` is a client that disconnects,
`Crash` the server.

### Chat (with ChatRealtimeProofs)

The relay of the end-to-end encrypted chat. Prekeys are uploaded (`TopUpOne`,
`RegisterDevice`) and handed out one by one: `SelectPrekey` (SKIP LOCKED), `TakePrekey`,
`AnswerBundle`. A send is `CheckSender`, `GetMessageByDedupeKey`, `CheckTargets`, then a
transaction: `AssignSeq` (UPDATE of the conversation's counter, which locks its row),
`InsertMessage`, `CommitMessage`, and `AnswerSend`. What a transaction writes is kept in
the request until it commits. `ListMessages` pages by a device's cursor,
`AckMessage` moves a receipt, `Fail` ends a request before any statement, and a client
may repeat a request with the same ids.

## Runs

| Run | Instance | Shows |
|---|---|---|
| `queue_races` | 2 processes, no fault | no job is lost to races, copies are bounded, the lists implement the promise |
| `queue_faults` | 1 process, 1 fault anywhere, fair | a job vanishes only while no list holds it; everything else is settled |
| `cron_ticks` | 2 replicas, 3 expressions (one invalid), 1 edit, 1 crash, fair | no occurrence claimed twice, each claimed or counted as missed, catching up |
| `messages_sweep` | 2 sweeps, 2 messages, 2 recipients, 1 fault, fair | at most once, never after being withdrawn, "sent" means all, the due ones are taken |
| `releases` | 3 releases (1 of a pull request), 1 worker, 2 attempts, 1 fault, fair | deleted sites stay down, the serving image is kept, releases settle |
| `workflows` | 8 definitions, 2 workers, 2 attempts, 1 fault, fair | predecessors first, dead branches and only those pruned, failures handled, effects once per run, executions settle |
| `transfer` | 2 workers, 2 containers, a column, 2 rows without ids, a file, 2 faults, fair | one importer, a copy more takes an interruption, completed means gone through, the migration ends |
| `uploads` | 2 requests at a time, 1 file, 1 chunk, 2 key versions, 1 fault | a committed file can be read back, with what was answered if completed once, a version names one key |
| `realtime` | 2 instances, 1 client, 2 events, buffers of 1, with and without Redis, 1 fault, fair | no send on a closed channel, order per publisher, departed clients forgotten |
| `rows` | 2 clients, 2 rows, 7 kinds of request, 3 connections | rows add up, transactions are whole and nothing uncommitted is reported, requests are answered |
| `chat` | 2 requests, 2 devices, 1 conversation, 3 sends, 2 key ids, 1 failure | dense numbers, no gap in paging, one message per send, a prekey for one peer |
| `messages_inline` (violated) | 1 message, no fault, fair | a status that never leaves "processing" |

`messages_inline` is a finding; `PROJECT.json` quotes the line it contradicts.

Further configurations show where the code does less than a reader of its comments may
expect. TLC breaks the property of each, with the module named; they are kept beside the
runs to be executed by hand, `tlc -config <cfg> <module>`. Each is explained under
"Known deviations".

| Configuration | Module | Property broken |
|---|---|---|
| `JobQueueLoss.cfg` | `MCJobQueue` | `AtLeastOnce` |
| `CronDoubleFire.cfg` | `MCCron` | `FiredOnce` |
| `CronResume.cfg` | `MCCron` | `NoWindowNobodyAskedFor` |
| `CronFunctions.cfg` | `MCCron` | `FiredIsRun` |
| `ReleasesFailedBuild.cfg` | `MCReleases` | `ActiveServes` |
| `ReleasesRollback.cfg` | `MCReleases` | `RollbackServes` |
| `WorkflowCatch.cfg` | `MCWorkflowRuns` | `CatchTargetExecuted` |
| `TransferRerun.cfg` | `MCTransfer` | `ImportedFileReadable` |
| `UploadsOverwrite.cfg` | `MCUploads` | `CommittedKept` |
| `RealtimeHubStream.cfg` | `MCRealtimeHub` | `SingleStream` |
| `RowRequestsPool.cfg` | `MCRowRequests` | `RequestsEnd` |
| `RowRequestsReadBack.cfg` | `MCRowRequests` | `UpdatesTakeEffect` |
| `ChatThreads.cfg` | `MCChat` | `OneThread` |
| `ChatReinstall.cfg` | `MCChat` | `BundleMatches` |

**Bounds.** `queue_races` needs two processes: every race in the code is between a
worker and a reaper, or two reapers. `MaxRetries` 2 is the smallest value with a
retry and a dead letter. `queue_faults` has one process, whose worker and reaper
race as well, and its `MaxClock` never binds. In `cron_ticks` two replicas are what
it takes to race, and the schedules go on after `MaxTime`, which the properties
assume as `Recurrent`: a schedule without a next occurrence (30 February) makes
`Schedule.Next` return the zero time, which is always due. `messages_sweep` uses a
batch limit of 1 so that the limit binds with two messages; the clock's one step
separates "now" from "later". `releases` has the one builds worker that
`docker-compose.yml` runs. With two, TLC breaks `DeletedIsGone` (one worker starts
the container after the other has torn the site down) and `ServingImageKept` (the
slower of two builds reaps the image of the faster): the code relies on there being
one. Three releases are an old one, a newer one and one in flight, or two builds and a
rollback; the fault is spent anywhere, on any of them.

The eight definitions of `workflows` are a condition whose branches meet again behind a
filter, a switch with a default and a case without a target, a try/catch with the
handler behind its group, one with the handler too early, one whose first group
node has led on to others when the second fails, a retried call of a workflow that calls
itself, and edges from and to nowhere. `MaxSubs` 2 stands for the total cap
of 100, `MaxDepth` 1 for the depth of 5. Two of them may outlast their lease
(`Slow`), which is what gives the second worker something to do. `transfer` has a file in
its bucket, and a table with a column and two rows without an id, either of which may come
at the second place; two faults, so that the run after an interrupted one is interrupted
too, one early reap, which gives the second worker a copy, and `MaxRetries` 3, the code's
default. `TransferRerun.cfg` needs one fault only. In `uploads` two requests overlap at a
time, whichever of them; a third concurrent one would find the same rows and objects. One
chunk is enough for every overlap of its writers and readers; `UploadsOverwrite.cfg` has
two, and the proofs any number. Two completions (`MaxCompletes`) is where a second
overwrites the first, and a file id is created once (`MaxClaims`): when a client chooses an
id that exists, see the deviations.
Two versions of the key are one rotation. `realtime` with buffers of one makes every
buffer overflow; two instances and two events order one publisher's events against the
other's. In `rows` the pool is one larger than the number of requests at a time;
`RowRequestsPool.cfg` shows why. `Ceiling` 2 is a column's maximum. In `chat` four
requests (`MaxAsked`) are two sends and a repetition of each, or two bundles racing a
top-up; `PageSize` 1 makes paging take several turns.

Deadlock is not checked where a run may legitimately come to rest: everything settled,
or a bound reached.

**Fairness.** Weak fairness per worker and per reaper (loops and tickers that never
stop, handlers with a timeout of their own), per replica's tick, per sweep and per
goroutine, and of the clock. In `releases`: the worker, the reaper, and for each
release the minutely sweep, which finds it old enough some day. In `workflows` and
`transfer`: each worker's next step, also a write that fails because its context is
dead, and the reaper of dead workers' copies. In `realtime`: a client's reader, whose
authorization is a query that ends. In `rows`: the goroutine of each request and the
end of a wait (PostgreSQL's deadlock detection and `statement_timeout`); nothing bounds
the wait for a connection, so nothing is assumed of it. Nobody is obliged to push, edit,
delete, trigger, send, disconnect or fail.

## Proofs

`JobQueueProofs`, for any jobs, processes, retries and number of faults:
`ConsistentTheorem` (the inductive invariant `Consistent`: every copy belongs to a
pushed job, a waiting copy has a retry left, a receipt and its job agree),
`TypeTheorem`, `LostOnlyFromMemoryTheorem`, `NoJobLostTheorem` and
`PromiseTheorem`, the refinement: each action is a step of `AtLeastOnceQueue` or a
stutter. It assumes `BackoffAssumption`: the sleep of a nack ends before the
five-second context it pushes with. That holds for the default of three retries
and would not for four.

`DuplicationBoundedTheorem` is about the same module and needs more (`Covered`). Without
faults every copy on the processing list has a worker of its own, whose receipt is that
copy (`ReceiptsCover`), so a reaper's requeue and the worker's nack spend two different
things; and a receipt and its job have the same retries until the nack (`SameRetries`). Each copy is then
given the weight of what it can still grow into, and so is each requeue a reaper may
still make from the snapshot it has read. The sum for a job (`Potential`) is raised by
its push only, to `Power[MaxRetries]`, and by no other step: the copy a reap or a nack
queues has a retry less, and its weight was part of that of the copy it comes from. The sums run over lists and
processes with the community `SumFunctionOnSet`; that they unfold, split and regroup by
key are lemmas. `ProcsAssumption`, that the processes are finitely many, is what a sum
over them needs.

`CronReleasesProofs`, about `Cron`, for any replicas and schedules that keep occurring
(`Recurrent`): `TypeTheorem`, `ClaimedOncePerSeedTheorem`, `ClaimedOnceTheorem`,
`NextRunOnScheduleTheorem` and `EveryRunCountedTheorem`. The two claims
are not inductive by themselves. The invariant `Inv` adds what a replica knows
between its SELECT and its UPDATE: the occurrence it read is due, a replica that is
not idle holds the lock as long as no tick has outlived it, and the last claim of
the current seed lies before the next run. `RowInv` says that as long as no tick outlives
its lock, a replica about to claim still has the row before it that it has read, whatever
edits came between, so the claim moves the next run of the row's own schedule. `CountInv`
balances the occurrences between the seed and the next run against the claims and
`missed_runs`. It holds for schedules with no more than `MissedCap` occurrences
(`UnderCap`), because `decideCron` stops counting there: beyond its cap `missed_runs` is
a lower bound, and the balance is not the code's.

`ScheduledMessagesProofs`, for any finite set of messages (none of which is also the
name of a sweep), any recipients, sweeps and faults: `TypeTheorem`,
`DeliveredOnceTheorem`, `WithdrawnTheorem`, `SentReachedAllTheorem`, and two that no run
checks separately: `ProcessingHasOwnerTheorem` (a message in "processing" is in the hands
of one sender, or its sender was stopped) and `StatusForwardTheorem`. The invariant
relates a row to the memory of its sender: who sends a message knows how far its calls
have got (`SenderInv`), no two send the same one (`UniqueInv`), and a row's status bounds
the count at the provider (`RowInv`).

`CronReleasesProofs`, about `Releases`, for any number of releases, retries and faults:
`ReleasesTypeTheorem` for any number of workers, and under `OneWorker` `DeletedIsGoneTheorem` and
`ServingImageKeptTheorem`. Typing needs `JobInv`: a job is never of a release that has
no row. `DeletedIsGone` needs `GoneInv`, which adds the worker that has passed the
check of the target and may yet start a container, and the teardown whose lease ran
out. `ServingImageKept` needs `ServeInv`: from the start of its container to the
reaping, the site is the worker's own. `PendingIsHeldTheorem`, for any number of
workers, is the part of `ReleaseSettles` that fairness has no share in and says how far
it reaches: a release in "pending", which the sweep does not look at, is held by a job or
by a worker that will yet write its status, as long as there was at most one fault and
fewer than a job has retries. Its invariant `PendInv` charges each way to lose such a
release to a fault of its own: a worker beyond `Begin` one, a worker that is through
two, a retry one each. TLC breaks it for two faults, and for one without a retry. No run
checks it separately.

`TransferProofs`, for any source and any way its export is cut into batches, any workers,
retries, early reaps and faults: `OneImporterTheorem`, `CompletedIsWholeTheorem` and
`DuplicatesTheorem`. The lock and the worker inside agree but for the sessions that were
lost; the strengthening is that a severed worker is inside, so who takes the lock next is
none of them. `RunInv`: a run has passed exactly the places that precede its own.
`WholeInv` is about what a run has met for certain (it stood alone at a place that was
passed) and must not be left out: what of it is missing and needs no container cost a
fault each, and without faults nothing is missing, because each container is there, and
known to the run, by the time its contents come. `CopiesInv` counts, for a place of the
export, who may still import from it under a new id (runs that have the place before them,
runs without the lock that can put the row back to running, and the next run if one is to
be expected): copies and such claims together are at most one more than the interruptions,
and each step moves a claim, turns one into a copy, or pays for the one it makes. A row
that an unordered table lists at two places counts at each. `MigrationHeldTheorem`
is the part of `MigrationSettles` that fairness has no share in: an accepted migration
that is not over has a copy of its job on a list, or a worker that will yet write how it
ended, unless the job is dead or a lease has run out under a live worker and something
failed as well. It rests on two invariants: while no lease ran out there is one copy and
one worker with it (`Sole`), and while nothing failed whoever gives a copy up leaves the
lock to a worker that runs (`Calm`). No run checks it separately; TLC checked the three
with the run's constants.

`UploadsProofs`, for any files, chunks, requests, processes, key versions and faults:
`TypeTheorem`, `OneActiveKeyTheorem`, `AllDecodeTheorem` (every object that is whole
decodes, whatever became of its row), `CommittedReadableTheorem` and `WholeIfCompletedOnceTheorem`. `KeyOrder`: versions are numbered
without a gap and only the last may be active. `SealedInv`: whatever was sealed names a
version whose row holds its key, and rows are never removed. `FileInv`: until the one
request that creates a file has inserted its row, nobody else can be busy with the file;
an object is there before the row that points at it and goes after it. `Sound`: until a
second completion reads the chunks there is one writer, which opens an empty object and
leaves it whole before the row points at it; after that, the object is there and decodes
if it is whole. Excluded, in the property itself, is the failed DELETE that takes an
object from under its row (`damaged`). `WholeFile`: what was answered is on disk, whole
and open to nobody (`Kept`), until the first completion reads it; from then on until a
second one does, everything made of the file, in the hands of a request or stored, covers
what had been answered and was not sent again before it was read (`acked`).

`ChatRealtimeProofs`, about `RealtimeHub`, for any instances, clients, buffers, changes and
faults: `HubTypeTheorem`, `NeverSendsOnClosedTheorem` and `InOrderTheorem`. Order is an invariant of
the whole way (`WayInv`): received, the client's buffer, the hub's broadcast channel, what
Redis has for that hub, what the instance has still to take. Every step moves the first
event of one stage to the end of the next, thins a stage, or adds an event newer than all.

`ChatRealtimeProofs`, about `Chat`, for any requests, devices, keys, conversations and
faults: `TypeTheorem`, `SequenceDenseTheorem`, `CursorMissesNothingTheorem`, `OneMessagePerSendTheorem`,
`PrekeyHandedOnceTheorem` and `ReceiptsForwardTheorem` (no run checks it separately).
`Turns`: whoever holds the number after a conversation's last is alone in its
transaction, so messages become visible in the order of their numbers. `Relay`: numbers
are dense, a send has one message, a copy is there for each target and a cursor never
exceeds the last number. `Supply`: what was handed out of a prekey, what is on its way to
a peer and what is in the pool is together at most what was uploaded.

`RowRequestsProofs`, for any clients, rows, connections and any requests the endpoints
accept: `TypeTheorem`, `RowsAddUpTheorem`, `AllOrNothingTheorem` and
`ConnectionsAccountedTheorem` (the connections that are taken are as many as the
transactions that hold one: none is lost and none given back twice; no run checks it
separately). A transaction works on
its own view of the table (`Faithful`: the committed table with those of its operations
replayed that affected a row), and no two transactions have written the same row (`Apart`, from the row
locks), so a commit does to the table what replaying the operations on it does. That
replaying can be split and reordered over disjoint rows are lemmas, proved by induction
over the length of the list of operations. `PoolMovesOnTheorem` is the part of
`RequestsEnd` that fairness has no share in, and gives the size of the pool more exactly
than that run does: as long as fewer transaction requests and reads run at a time than the
pool has connections, one is free, or held by a request that ends without another
(`ReadsOnly`: nobody else looks anything up while its transaction is open). With as many
as there are connections it fails, which is what `RowRequestsPool.cfg` shows. No run
checks it separately; TLC checked it with one connection and with two.

`WorkflowRunsProofs`, for any workflows, workers, attempts and faults, under `UniqueIds`:
`DependenciesFirstTheorem`, `EffectsOncePerRunTheorem`, `CaughtIsHandledTheorem` and
`PrunesDeadBranchesTheorem`. `UniqueIds` (no definition lists
a node id twice) is a hypothesis because the code checks it nowhere and the properties
fail without it: `TopoSort` enters such a node twice. What `TopoSort` computes is proved,
not assumed: `KahnOK` (an in-degree counts the edges from nodes that are not in the order
yet) holds of every round by induction over the rounds, so a node enters the queue behind
all its sources and a graph without a cycle is ordered completely. `Logged`: the log of a
call names as undone exactly what the order has from its place on. `Budget`: the effects
of a node that must not be repeated and the calls in which it is still open are together
at most the runs that were entered; no step opens it again (`Follows`). `Recorded`, for
calls that are `Ordered` and `InTime`: of nodes still to do, the map of skipped nodes
holds those asked for in time; of their decided predecessors it holds those that were
skipped or whose edge is cut; and a decided node was skipped exactly if it was asked for
or all edges into it are closed. So the loop's test of the current node is reachability
(`LiveNode`, by induction over the rounds of `LiveNodes` one way and over the order the
other). For a handler three more facts are inductive: whoever skipped it again ran behind
the failure (`HandlerFree`), whoever skipped a node that had run ran behind it
(`RanFree`), and the rest of a failed node's group stays skipped, handlers apart
(`MatesSkipped`). TLC checked these on the run's definitions and on several hundred random
ones before they were proved. `ExecutionHeldTheorem`, which needs no `UniqueIds`, is
the part of `ExecutionSettles` that fairness has no share in: while a pushed execution is
not over, a copy of its job waits, or one is on the processing list that no worker is
about to acknowledge, or the job is dead. `Receipts` is what it needs: busy workers have
different leases, and the reaper does not take that of one that still loads the workflow.
No run checks it separately; TLC checked it and `HeldInv` with the run's constants.

Induction over data is done without an operator as a parameter: the recursive functions
here (`Power` among them) take numbers, a sum over a finite set is taken by its
cardinality, and `NatSetInduction` (a set that has 0 and with each number the next has
all) follows from the well-foundedness of `<`.

Not proved, only model-checked: everything temporal beyond `[]` (`EventuallySettled`,
`AlwaysCatchesUp`, `DueIsTaken`, `ReleaseSettles`, `DeletedStaysGone`, `ExecutionSettles`,
`MigrationSettles`, `DepartedForgotten`, `RequestsEnd`), since the prover handles neither
fairness nor ENABLED. What four of them rest on without fairness is proved: as
long as a status is not a last one, somebody still has the job (`PendingIsHeldTheorem`,
`ExecutionHeldTheorem`, `MigrationHeldTheorem`), and requests do not all wait for one
another's connections (`PoolMovesOnTheorem`).

## Known deviations

What the models show, or reading for them showed, of code that does not do what one of
its comments, documents or a user would expect. The ones with a configuration are
counterexamples of TLC.

- **Queue.** Between LREM and LPUSH a job is only in memory; a crash there loses it
  (`JobQueueLoss.cfg`).
- **Cron.** A `saveState` that stalls behind another replica's claim re-arms an
  occurrence that has fired (`CronDoubleFire.cfg`). A paused schedule keeps its old next
  run and fires at once on resume (`CronResume.cfg`). The job of a function's schedule
  lacks the ids the worker asks for, so nothing runs (`CronFunctions.cfg`).
- **Messages.** The goroutine of an immediate send uses its request's context
  (`messages_inline`).
- **Releases.** A deploy that fails has taken the old container down, while the target is
  still reported active (`ReleasesFailedBuild.cfg`, `runtime/deploy.go:643`). A successful
  rollback may serve nothing (`ReleasesRollback.cfg`). A preview that is closed or
  destroyed while its build waits or runs is set back to building and success. The sweep
  asks for "building" and "deploying" only (`cron.go:216`): a release whose job is given
  up before it begins, or a rollback of which no status reached the database, stays in
  "pending" (`PendingIsHeld`); `ReleaseSettles` therefore holds for one fault.
- **Workflows.** A handler that the order puts in front of a later node of its group is
  skipped before that node fails (`WorkflowCatch.cfg`, `engine.go:1636`), and un-skipping
  it then revives what hangs on it. A handler that hangs on a later node of the group is
  pruned with that node when an earlier one fails, and one that two try/catch nodes share
  is skipped when the second of them completes. Successors of a caught failed node still
  run. The depth cap of nested workflows never takes effect
  (`engine.go:333-343`): only the total of 100 bounds recursion. A parent's retry of
  `execute_sub_workflow` repeats nodes that are not retried by themselves. Behind an edge
  from a missing node the stored order decides. `Execute` drops the error of its push, so
  the execution stays pending. `convert_to_json` panics on an unexpected input. Two saves
  of a version may take the same number.
- **Imports.** A redelivered copy is acknowledged because the first worker holds the lock
  (`service.go:164`); if that worker then dies, the migration stays "running". `Cancel`
  between the check and `MarkRunning`, or before `Finish`, is overwritten
  (`store.go:154`). "A resumed job converges rather than duplicating"
  (`transfer.go:49-51`) is not so. Rows and files without an id are imported again under
  new ids (`dest_applad.go:199`). An import that is run again deletes the object of a file
  it had imported: `CreateFileStream` removes what it wrote when its INSERT fails because
  the id exists, and `importFile` takes "already exists" for done (`TransferRerun.cfg`);
  the same happens to a file when a second upload chooses its id. "Completed" does not
  mean that all is there or reported. Tables are paged with LIMIT and OFFSET and no order
  (`source_postgres.go:198`), which may repeat a row and drop another. Sources drop files
  they cannot read (`source_supabase.go:126`, `source_nhost.go:117`,
  `source_firebase.go:380`). `isExists` (`dest_applad.go:264`) takes any error with "exist"
  in it for done, "does not exist" too. The error of `RecordResource` is dropped
  (`transfer.go:123`), and a cancellation that cannot be read counts as none (`:70`). A
  file that is too large is emitted without content "so the destination records a skip"
  (`source_applad.go:242`), but the destination looks at the length of the content
  (`dest_applad.go:195`) and imports an empty file.
- **Files.** Two completions that have both read the chunks of one upload overwrite what
  one of them has committed (`UploadsOverwrite.cfg`, against `authz.go:155`): with less,
  and for a time, or for good, with nothing or a mixture of two ciphertexts, since
  `os.WriteFile` truncates and then writes (`driver.go:59`). A chunk that is sent again
  while a completion reads the chunks may be read empty, although it had been acknowledged
  (`service.go:657`, `:677`), and two requests for one chunk may tear it.
  `CompleteChunkedUpload` removes the
  chunks before the steps that may fail, so a retry commits a truncated file; the declared
  size is never compared. `DeleteFile` ignores a DELETE that fails and removes the object;
  of a staged upload it leaves the chunk directory. The cap on staged bytes is checked
  before the write. A bucket's encryption fails until an encrypted column has created the
  project's key; `RewrapAll` and `RotateProjectKey` have no caller.
- **Realtime.** Every instance listens and publishes what it hears, so with Redis a client
  gets each change once per instance, an older one perhaps after a newer
  (`RealtimeHubStream.cfg`). The comment of `sendError` says a closed buffer drops the
  message (`client.go:66`); Go would panic, and only the order within the reader's
  goroutine, which unregisters last of all, keeps it from happening.
- **Databases.** `ExecuteTransaction`, `GetRow` and `ListRows` hold a connection while
  they ask for another: with as many requests as `DB_MAX_OPEN_CONNS` they wait for each
  other until clients disconnect (`RowRequestsPool.cfg`). An update, alone, in a bulk or in
  a transaction, whose row was deleted and created again while it waited affects no row,
  reads back the new one and is committed and answered 200 (`service.go:2473-2485`,
  `:2907-2919`, `RowRequestsReadBack.cfg`); a delete likewise answers 204. Permissions of rows are read
  outside the transaction, so an operation on a row created earlier in it is refused.
  Steps after the commit may answer an error for a committed write. Upsert's look at the
  row is a transaction of its own. `docs/build/databases.mdx:655-659` describes increments
  as read-then-write; the code is one UPDATE. `syncRLSPolicies` deletes "increment" from
  the map (`service.go:1545`) before it is used (`:1580`). `DeleteColumn` ignores a failed
  delete of the metadata (`:887`), `CreateColumn` says IF NOT EXISTS and may list another
  type than the column has, row versions are numbered by MAX+1.
- **Chat.** Two requests that look for a conversation and find none create two
  (`ChatThreads.cfg`, against `conversations.go:13`). An app that is reinstalled while a
  bundle is read gets a bundle of two identities, and its old prekeys stay
  (`ChatReinstall.cfg`). A prekey id uploaded again after its use is handed out again. A
  repeated send that races the first answers an error. A failed answer loses its prekey. A
  "delivered" that comes after "read" is answered as not found.
- **Elsewhere.** A one-time token is read and deleted in two statements
  (`auth/service.go:999`). `RotateKeys` overwrites an update of a credential made since it
  read it (`credentials/service.go:393`). `EvaluateAll` ignores the team overrides
  `Evaluate` honours, and two rules created at once get the same priority. The rate
  limiter's in-process fallback extends its window at every hit, so a steady client below
  the rate is refused in the end, and its comment says that it fails closed while the code
  falls back (`middleware/ratelimit.go:75`).

## Not modelled

- **Function containers.** The pool's maps are shared, but its only caller is the one
  sequential builds worker, which destroys a function's containers before it executes
  one: the races between `GetOrCreate`, `Release` and `reap` need a second caller.
- **Push queues.** No queue can be created: the INSERT of `CreateQueue`
  (`jobs/service.go:91`) puts the integer 0 into the BOOLEAN column `paused`, which
  PostgreSQL refuses, so no state is reachable.
- **Schema migrations.** One goroutine at start that runs files in order under a lock;
  what can go wrong is in the SQL.
- **Schema changes of a project's tables.** Nothing orders two of them, so that every
  property worth stating is a deviation of the list above.
- **Authentication, rate limits, entitlements, feature flags, credentials.** Single
  statements, caches and cryptography; what there is to say of their interleavings is in
  the list above.
- **Webhook, mail, delete, usage and certificate workers.** Functions of one job, run by
  the loop that `JobQueue` models.
- **Projects, teams, organizations, policies, analytics, status, search, vectors, AI
  chat.** Create, read, update and delete over single rows, or calls to other services.
- **HTTP wiring, configuration, console, command line, MCP server, SDKs.** No state of
  their own that the server relies on.
- **Inside modelled components.** Function and container targets, build logs and domains
  of the deploy service; what the kinds of workflow node do beyond succeeding or failing;
  the source clients of imports; file streams, previews, tokens and the remote drivers;
  realtime presence; row filters, encryption and row level security, which appear as a
  refusal. They are data, or calls whose outcome the models leave to chance.

For the same reason the modelled lines are a small part of the repository: most of its
sixty thousand lines are handlers of one statement, clients of providers, SQL builders
and wiring, and a module of one would repeat it.

## Plan

Done: `JobQueue`, `Cron`, `ScheduledMessages`, `Releases`, `WorkflowRuns`, `Transfer`,
`Uploads` with `ProjectKeys`, `RealtimeHub`, `RowRequests`, `Chat`, all with proofs.

Left: that `WorkerQueue` and the queue inside `Releases` implement `AtLeastOnceQueue`.
`PendingIsHeldTheorem`, `ExecutionHeldTheorem` and `MigrationHeldTheorem` say of each
handler what its promise amounts to (a copy goes only behind a last write); the
refinement itself needs a history variable for what has once been executed, since a
second delivery sets the row back to running.
