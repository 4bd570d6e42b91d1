------------------------------ MODULE Releases ------------------------------
(***************************************************************************)
(* The releases of one web target: the requests that trigger, roll back,   *)
(* destroy and delete (deploy/service.go), the builds worker that carries  *)
(* them out (worker/builds.go), the container that serves the site and the *)
(* images it is started from (runtime/deploy.go), and the sweep of stale   *)
(* releases (worker/cron.go).                                              *)
(*                                                                         *)
(* The queue "builds" is taken at its word: a job is delivered at least    *)
(* once, in order unless it fails or times out, and given up after         *)
(* MaxRetries attempts. JobQueue is the queue in detail. What Docker,      *)
(* railpack, git and the application itself do is left to chance.          *)
(***************************************************************************)
EXTENDS Integers, Sequences

CONSTANTS
  MaxReleases,   \* bound on the releases of the target
  Previews,      \* the releases, if it comes to them, of the pull request
  Workers,       \* the builds workers
  MaxRetries,    \* Job.MaxRetries
  MaxFaults      \* bound on crashes, time-outs, lost pushes and failed statements

ASSUME ReleasesAssumption ==
  /\ MaxReleases \in Nat
  /\ Previews \subseteq 1 .. MaxReleases
  /\ MaxRetries \in Nat \ {0}
  /\ MaxFaults \in Nat

Releases == 1 .. MaxReleases     \* the rows, in the order of created_at

Statuses == {"none", "pending", "building", "deploying", "success", "failed",
             "rolled_back", "destroyed", "gone"}

Unsettled == {"pending", "building", "deploying"}

\* A job of the queue "builds": that of a release, or the teardown of the target.
Teardown == 0
Jobs == [rel : Releases \cup {Teardown}, retries : 0 .. MaxRetries - 1]

PCs == {"idle", "begin", "load", "build", "create", "probe", "original", "record",
        "reap", "ack", "fail", "nack", "stop"}

Worker == [pc : PCs, job : Jobs, leased : BOOLEAN]

\* The container that has the site's name. up: it answers on its port.
NoSite == [rel |-> 0, up |-> FALSE]
Site == [rel : Releases \cup {0}, up : BOOLEAN]

VARIABLES
  target,        \* the row of deploy_targets: "live" or "deleted"
  created,       \* how many releases there have been
  status,        \* deploy_releases.status; "gone" with the target's row
  origin,        \* the release a rollback is of, 0 for a build
  queue,         \* the jobs that wait
  stranded,      \* the jobs that a dead worker left in the processing list
  dlq,           \* whose jobs were given up
  worker,        \* what each worker is doing
  site,          \* the container applad-site-<subdomain>
  images,        \* the releases with an image applad-deploy-<id>
  unpushed,      \* history: the releases whose job did not reach the queue
  orphaned,      \* history: the teardown was lost, or Docker refused it
  faults         \* faults so far

rows == <<target, created, status, origin>>
lists == <<queue, stranded, dlq>>
docker == <<site, images>>
history == <<unpushed, orphaned>>
releasesVars ==
  <<target, created, status, origin, queue, stranded, dlq, worker, site,
          images, unpushed, orphaned, faults>>

\* Rows, lists, memory and containers hold what their types say; a release has
\* a row exactly when it was created and the target is there.
ReleasesTypeOK ==
  /\ target \in {"live", "deleted"}
  /\ created \in 0 .. MaxReleases
  /\ status \in [Releases -> Statuses]
  /\ \A r \in Releases :
       /\ status[r] = "none" <=> r > created
       /\ r <= created => (status[r] = "gone" <=> target = "deleted")
  /\ origin \in [Releases -> Releases \cup {0}]
  /\ queue \in Seq(Jobs) /\ stranded \in Seq(Jobs)
  /\ dlq \subseteq Releases \cup {Teardown}
  /\ worker \in [Workers -> Worker]
  /\ site \in Site
  /\ images \subseteq Releases
  /\ unpushed \subseteq Releases
  /\ orphaned \in BOOLEAN
  /\ faults \in 0 .. MaxFaults

Idle == [pc |-> "idle", job |-> [rel |-> Teardown, retries |-> 0], leased |-> FALSE]

ReleasesInit ==
  /\ target = "live"
  /\ created = 0
  /\ status = [r \in Releases |-> "none"]
  /\ origin = [r \in Releases |-> 0]
  /\ queue = <<>> /\ stranded = <<>> /\ dlq = {}
  /\ worker = [w \in Workers |-> Idle]
  /\ site = NoSite
  /\ images = {}
  /\ unpushed = {} /\ orphaned = FALSE
  /\ faults = 0

Fault == faults < MaxFaults /\ faults' = faults + 1

NewJob(r) == [rel |-> r, retries |-> 0]

\* UPDATE deploy_releases SET status = s WHERE id = r: whatever the status was,
\* and without effect when the row is gone.
Written(r, s) == [status EXCEPT ![r] = IF @ = "gone" THEN @ ELSE s]

----------------------------------------------------------------------------
(***************************************************************************)
(* The requests. Each inserts or changes its row and then pushes a job; an *)
(* error of the push is dropped.                                           *)
(***************************************************************************)

\* A new row in "pending", and its job.
NewRelease(from) ==
  LET r == created + 1 IN
    /\ created < MaxReleases
    /\ target = "live"
    /\ created' = r
    /\ status' = [status EXCEPT ![r] = "pending"]
    /\ origin' = [origin EXCEPT ![r] = from]
    /\ \/ queue' = Append(queue, NewJob(r)) /\ UNCHANGED <<unpushed, faults>>
       \/ Fault /\ unpushed' = unpushed \cup {r} /\ UNCHANGED queue
    /\ UNCHANGED <<target, stranded, dlq, worker, docker, orphaned>>

\* The console asks for a build, or a push to the branch does.
TriggerPipeline == created + 1 \notin Previews /\ NewRelease(0)

\* The pull request is opened, reopened or pushed to.
OpenPullRequest == created + 1 \in Previews /\ NewRelease(0)

\* Only a release that succeeded can be rolled back to.
RollbackRelease(r) ==
  /\ status[r] = "success"
  /\ NewRelease(r)

IsPreview(r) == r \in Previews /\ origin[r] = 0

\* The pull request is closed: the rows of its previews say so, those of builds
\* that are waiting or running too. Nothing else is told.
ClosePullRequest ==
  LET open == {r \in Releases : /\ IsPreview(r)
                                /\ status[r] \notin {"none", "gone", "destroyed", "failed"}}
  IN /\ open # {}
     /\ status' = [r \in Releases |-> IF r \in open THEN "destroyed" ELSE status[r]]
     /\ UNCHANGED <<target, created, origin, lists, worker, docker, history, faults>>

\* The console destroys a preview: the same for one row, a failed one too.
DestroyPreviewRelease(r) ==
  /\ IsPreview(r)
  /\ status[r] \notin {"none", "gone"}
  /\ status' = [status EXCEPT ![r] = "destroyed"]
  /\ UNCHANGED <<target, created, origin, lists, worker, docker, history, faults>>

\* The target's row goes, and its releases with it. The container is left to a
\* job of the builds worker, since the API has no Docker socket.
DeleteTarget ==
  /\ target = "live"
  /\ target' = "deleted"
  /\ status' = [r \in Releases |-> IF r <= created THEN "gone" ELSE "none"]
  /\ \/ queue' = Append(queue, NewJob(Teardown)) /\ UNCHANGED <<orphaned, faults>>
     \/ Fault /\ orphaned' = TRUE /\ UNCHANGED queue
  /\ UNCHANGED <<created, origin, stranded, dlq, worker, docker, unpushed>>

----------------------------------------------------------------------------
(***************************************************************************)
(* The builds worker.                                                      *)
(***************************************************************************)

Stage(w) == worker[w].pc
Rel(w) == worker[w].job.rel
IsRollback(w) == origin[Rel(w)] # 0

Advance(w, step) == worker' = [worker EXCEPT ![w].pc = step]

\* Pop, and the switch on the job's type.
Take(w) ==
  /\ Stage(w) = "idle"
  /\ queue # <<>>
  /\ queue' = Tail(queue)
  /\ LET job == Head(queue) IN
       worker' = [worker EXCEPT ![w] =
         [pc |-> IF job.rel = Teardown THEN "stop" ELSE "begin", job |-> job, leased |-> TRUE]]
  /\ UNCHANGED <<rows, stranded, dlq, docker, history, faults>>

Begin(w) ==
  /\ Stage(w) = "begin"
  /\ status' = Written(Rel(w), IF IsRollback(w) THEN "deploying" ELSE "building")
  /\ Advance(w, "load")
  /\ UNCHANGED <<target, created, origin, lists, docker, history, faults>>

\* A load that remembers the target from the job instead of asking for its row.
LoadAnyway(w) ==
  /\ Stage(w) = "load"
  /\ \/ Advance(w, "build") /\ status' = Written(Rel(w), "deploying")
     \/ Advance(w, "fail") /\ UNCHANGED status
  /\ UNCHANGED <<target, created, origin, lists, docker, history, faults>>

\* The pipeline and its target are read, and the source is fetched. Without a
\* target there is nothing to build, and the source may be out of reach.
Load(w) ==
  /\ Stage(w) = "load"
  /\ \/ /\ target = "live"
        /\ status' = IF IsRollback(w) THEN status ELSE Written(Rel(w), "deploying")
        /\ Advance(w, "build")
     \/ Advance(w, "fail") /\ UNCHANGED status
  /\ UNCHANGED <<target, created, origin, lists, docker, history, faults>>

\* An image is built of the source, or not. A rollback passes no source on: what
\* railpack makes of that is left to chance as well.
Build(w) ==
  /\ Stage(w) = "build"
  /\ \/ Advance(w, "create") /\ images' = images \cup {Rel(w)}
     \/ Advance(w, "fail") /\ UNCHANGED images
  /\ UNCHANGED <<rows, lists, site, history, faults>>

\* The container that has the name, of this release or of another one, makes
\* room. Docker looks for the image before it minds the name.
Clear(w) ==
  /\ Stage(w) = "create"
  /\ ~IsRollback(w)
  /\ site # NoSite
  /\ Rel(w) \in images \/ site.rel = Rel(w)
  /\ site' = NoSite
  /\ UNCHANGED <<rows, lists, worker, images, history, faults>>

\* Start the release under the site's name. A rollback passes no subdomain on:
\* its container gets a name of its own, which nothing routes to.
Create(w) ==
  /\ Stage(w) = "create"
  /\ \/ /\ Rel(w) \in images
        /\ IsRollback(w) \/ site = NoSite
        /\ \E up \in BOOLEAN :
             site' = IF IsRollback(w) THEN site ELSE [rel |-> Rel(w), up |-> up]
        /\ Advance(w, "probe")
     \/ Advance(w, "fail") /\ UNCHANGED site
  /\ UNCHANGED <<rows, lists, images, history, faults>>

\* Does the container answer? It is asked for by its name.
Probe(w) ==
  /\ Stage(w) = "probe"
  /\ \/ /\ IsRollback(w) \/ site.up
        /\ Advance(w, IF IsRollback(w) THEN "original" ELSE "record")
     \/ /\ IsRollback(w) \/ ~site.up
        /\ Advance(w, "fail")
  /\ UNCHANGED <<rows, lists, docker, history, faults>>

MarkOriginal(w) ==
  /\ Stage(w) = "original"
  /\ status' = Written(origin[Rel(w)], "rolled_back")
  /\ Advance(w, "record")
  /\ UNCHANGED <<target, created, origin, lists, docker, history, faults>>

Record(w) ==
  /\ Stage(w) = "record"
  /\ status' = Written(Rel(w), "success")
  /\ Advance(w, "reap")
  /\ UNCHANGED <<target, created, origin, lists, docker, history, faults>>

Reapable == {r \in Releases : status[r] \in {"success", "failed", "rolled_back"}}

\* Reaping that spares nobody's image.
ReapAll(w) ==
  /\ Stage(w) = "reap"
  /\ images' = images \ Reapable
  /\ Advance(w, "ack")
  /\ UNCHANGED <<rows, lists, site, history, faults>>

\* The images of the target's other settled releases are removed.
ReapImages(w) ==
  /\ Stage(w) = "reap"
  /\ images' = images \ (Reapable \ {Rel(w)})
  /\ Advance(w, "ack")
  /\ UNCHANGED <<rows, lists, site, history, faults>>

\* A lookup by name that matches no container, and says nothing of it.
StopMissesName(w) ==
  /\ Stage(w) = "stop"
  /\ Advance(w, "ack")
  /\ UNCHANGED <<rows, lists, docker, history, faults>>

\* StopByName, and the end of a teardown.
Stop(w) ==
  /\ Stage(w) = "stop"
  /\ site' = NoSite
  /\ Advance(w, "ack")
  /\ UNCHANGED <<rows, lists, images, history, faults>>

Ack(w) ==
  /\ Stage(w) = "ack"
  /\ worker' = [worker EXCEPT ![w] = Idle]
  /\ UNCHANGED <<rows, lists, docker, history, faults>>

Fail(w) ==
  /\ Stage(w) = "fail"
  /\ status' = Written(Rel(w), "failed")
  /\ Advance(w, "nack")
  /\ UNCHANGED <<target, created, origin, lists, docker, history, faults>>

\* One more retry, or the dead-letter queue.
Requeue(job) ==
  IF job.retries + 1 < MaxRetries
    THEN queue' = Append(queue, [job EXCEPT !.retries = @ + 1]) /\ UNCHANGED dlq
    ELSE dlq' = dlq \cup {job.rel} /\ UNCHANGED queue

Nack(w) ==
  /\ Stage(w) = "nack"
  /\ Requeue(worker[w].job)
  /\ worker' = [worker EXCEPT ![w] = Idle]
  /\ UNCHANGED <<rows, stranded, docker, history, faults>>

----------------------------------------------------------------------------
(***************************************************************************)
(* Faults, and the two that clean up after them.                           *)
(***************************************************************************)

\* A status that does not reach the database is only logged.
AfterWrite == [begin |-> "load", original |-> "record", record |-> "reap", fail |-> "nack"]

WriteFails(w) ==
  /\ Stage(w) \in DOMAIN AfterWrite
  /\ Fault
  /\ Advance(w, AfterWrite[Stage(w)])
  /\ UNCHANGED <<rows, lists, docker, history>>

\* Docker does not remove the container; the teardown goes on regardless.
StopFails(w) ==
  /\ Stage(w) = "stop"
  /\ Fault
  /\ orphaned' = TRUE
  /\ Advance(w, "ack")
  /\ UNCHANGED <<rows, lists, docker, unpushed>>

\* The worker dies and comes back with nothing in memory.
Die(w) ==
  /\ Stage(w) # "idle"
  /\ Fault
  /\ stranded' = IF worker[w].leased THEN Append(stranded, worker[w].job) ELSE stranded
  /\ worker' = [worker EXCEPT ![w] = Idle]
  /\ UNCHANGED <<rows, queue, dlq, docker, history>>

\* The job has run for longer than the visibility timeout: it is handed out
\* again while its worker goes on.
TimeOut(w) ==
  /\ Stage(w) # "idle" /\ worker[w].leased
  /\ Fault
  /\ Requeue(worker[w].job)
  /\ worker' = [worker EXCEPT ![w].leased = FALSE]
  /\ UNCHANGED <<rows, stranded, docker, history>>

\* The reaper comes to a job that a dead worker left.
ReapJob ==
  /\ \E i \in 1 .. Len(stranded) :
       /\ stranded' = SubSeq(stranded, 1, i - 1) \o SubSeq(stranded, i + 1, Len(stranded))
       /\ Requeue(stranded[i])
  /\ UNCHANGED <<rows, worker, docker, history, faults>>

\* A sweep for builds alone.
StaleBuilding(r) == status[r] = "building"

Stale(r) == status[r] \in {"building", "deploying"}

\* The sweep comes to a release that was triggered more than an hour ago, and
\* does not ask whether somebody is at work on it.
SweepStaleReleases(r) ==
  /\ Stale(r)
  /\ status' = Written(r, "failed")
  /\ UNCHANGED <<target, created, origin, lists, worker, docker, history, faults>>

----------------------------------------------------------------------------
\* What a worker does on its own account.
WorkerStep(w) ==
  \/ Take(w) \/ Begin(w) \/ Load(w) \/ Build(w) \/ Clear(w) \/ Create(w) \/ Probe(w)
  \/ MarkOriginal(w) \/ Record(w) \/ ReapImages(w) \/ Stop(w) \/ Ack(w) \/ Fail(w) \/ Nack(w)

WorkerFault(w) == WriteFails(w) \/ StopFails(w) \/ Die(w) \/ TimeOut(w)

ReleasesNext ==
  \/ TriggerPipeline \/ OpenPullRequest \/ ClosePullRequest
  \/ \E r \in Releases : RollbackRelease(r) \/ DestroyPreviewRelease(r) \/ SweepStaleReleases(r)
  \/ DeleteTarget
  \/ \E w \in Workers : WorkerStep(w) \/ WorkerFault(w)
  \/ ReapJob

ReleasesSpec == ReleasesInit /\ [][ReleasesNext]_releasesVars

\* The workers' loops, the reaper and the minutely sweep go on, and a release
\* gets older. Nobody is obliged to trigger, roll back, destroy or delete.
ReleasesFairness ==
  /\ \A w \in Workers : WF_releasesVars(WorkerStep(w))
  /\ WF_releasesVars(ReapJob)
  /\ \A r \in Releases : WF_releasesVars(SweepStaleReleases(r))

ReleasesFairSpec == ReleasesSpec /\ ReleasesFairness

----------------------------------------------------------------------------
(***************************************************************************)
(* Properties.                                                             *)
(***************************************************************************)

\* The target's status as the console shows it (targetStatus).
EverDeployed == \E r \in Releases : status[r] = "success"

TargetStatus ==
  IF created = 0 THEN "never_deployed"
  ELSE IF status[created] \in Unsettled
    THEN IF EverDeployed THEN "deploying" ELSE "building"
  ELSE IF status[created] = "success" \/ EverDeployed THEN "active"
  ELSE "failed"

\* A job of r is on the list.
Has(list, r) == \E i \in 1 .. Len(list) : list[i].rel = r

\* Somebody will still carry out the teardown.
TeardownOutstanding ==
  \/ Has(queue, Teardown) \/ Has(stranded, Teardown)
  \/ \E w \in Workers : Stage(w) = "stop"

\* The teardown was given up: it was never pushed, Docker refused it, or it was
\* dead-lettered.
TeardownLost == orphaned \/ Teardown \in dlq

\* With one builds worker, no container outlives its target's teardown: neither
\* the build that was running when the target was deleted nor a retry or a
\* redelivery of it brings the site back (DeleteTarget, processTeardown).
DeletedIsGone ==
  target = "deleted" /\ site # NoSite => TeardownOutstanding \/ TeardownLost

\* And the container does go, once and for all.
DeletedStaysGone == target = "deleted" ~> [](site = NoSite \/ TeardownLost)

\* The image that the serving container runs is not reaped (the comment on
\* reapReleaseImages), however often old releases are redelivered. The exception
\* is a rollback, which takes itself for the one that serves.
ServingImageKept ==
  [][\A w \in Workers :
       Stage(w) = "reap" /\ ~IsRollback(w) /\ site.rel \in images => site.rel \in images']_releasesVars

\* Every release whose job was pushed is settled for good in the end: when the
\* worker died, when a status could not be written, and when the job was given
\* up, the sweep of stale releases makes up for it. That is so for one fault:
\* see PendingIsHeld.
ReleaseSettles ==
  \A r \in Releases :
    status[r] = "pending" ~> [](r \in unpushed \/ status[r] \notin Unsettled)

\* The stages at which a worker has yet to write the status of its release.
Writes == {"begin", "load", "build", "create", "probe", "original", "record", "fail"}

\* What the sweep never looks at, a release in "pending" whose job was pushed,
\* has a job on a list or in a worker that will yet write its status: as long as
\* at most one thing goes wrong, and fewer than a job has retries. Two writes
\* that fail, or a worker that dies on every attempt before it begins, can leave
\* it in "pending" for good (processRelease, sweepStaleReleases).
PendingIsHeld ==
  faults < 2 /\ faults < MaxRetries =>
    \A r \in Releases : status[r] = "pending" /\ r \notin unpushed =>
      \/ Has(queue, r) \/ Has(stranded, r)
      \/ \E w \in Workers : Rel(w) = r /\ Stage(w) \in Writes

\* Nothing waits and nobody is at work.
AtRest == queue = <<>> /\ stranded = <<>> /\ \A w \in Workers : Stage(w) = "idle"

\* What the console and the tests of targetStatus say of a site whose newest
\* build failed: the last good one goes on serving.
ActiveServes ==
  AtRest /\ target = "live" /\ TargetStatus = "active" => site.up

\* A rollback that succeeded serves its own image (the comment in processRollback).
RollbackServes ==
  \A w \in Workers :
    Stage(w) = "reap" /\ IsRollback(w) /\ target = "live" => site.rel = Rel(w)
=============================================================================
