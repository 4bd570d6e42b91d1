------------------------------ MODULE JobQueue ------------------------------
(***************************************************************************)
(* internal/queue/queue.go and the loop of every worker that pops from it  *)
(* (worker/executions.go and its siblings).                                *)
(*                                                                         *)
(* A queue is three Redis lists: pending, processing and the dead-letter   *)
(* queue. Every Redis command is one step; between two commands another    *)
(* process, or a crash, may come in. Each process runs one worker loop and *)
(* one reaper, as StartReaper does.                                        *)
(*                                                                         *)
(* A list element is the JSON of a Job. Two elements are the same string   *)
(* exactly when they agree on the job, its Retries and the time stamp the  *)
(* reaper reads (LeasedAt, or CreatedAt while the job was never leased),   *)
(* so an element is that triple. Time stamps are successive values of      *)
(* clock; horizon is the youngest stamp that is older than the visibility  *)
(* timeout.                                                                *)
(*                                                                         *)
(* A list is a sequence whose first element is the RIGHT end of the Redis  *)
(* list, so LPUSH appends and BLMOVE takes the head.                       *)
(***************************************************************************)
EXTENDS Naturals, Sequences, SequencesExt

CONSTANTS Jobs,            \* jobs that callers may push
          Procs,           \* worker processes
          MaxRetries,      \* Job.MaxRetries, defaultMaxRetries when not set
          NackDeadline,    \* seconds Nack's context lives
          MaxFaults,       \* bound on crashes and failed Redis commands
          MaxClock,        \* bound on time stamps, so on pushes and leases
          None             \* no list element

\* Seconds Nack sleeps before it puts a job back.
Backoff(retries) == 2 ^ retries

ASSUME ProcsAssumption == IsFiniteSet(Procs)

ASSUME BoundsAssumption ==
  MaxRetries \in Nat \ {0} /\ MaxFaults \in Nat /\ MaxClock \in Nat

\* Nack sleeps inside the lifetime of the context it pushes with.
ASSUME BackoffAssumption ==
  \A r \in 1 .. MaxRetries - 1 : Backoff(r) < NackDeadline

Entry == [job : Jobs, retries : 0 .. MaxRetries, stamp : 0 .. MaxClock]

ASSUME NoneAssumption == None \notin Entry

VARIABLES pending,         \* applad:queue:{name}
          processing,      \* applad:queue:{name}:processing
          dlq,             \* applad:queue:{name}:dlq
          clock,           \* the last time stamp given out
          horizon,         \* stamps up to this one have timed out
          pushed,          \* jobs accepted by Push
          executed,        \* jobs whose process() has returned nil
          pc,              \* where each worker loop is
          raw,             \* Receipt.raw of each worker
          job,             \* Receipt.Job of each worker
          todo,            \* what is left of each reaper's LRANGE snapshot
          nacking,         \* the job a reaper has removed but not put back
          faults           \* faults so far

lists  == <<pending, processing, dlq>>
worker == <<pc, raw, job>>
reaper == <<todo, nacking>>
vars   == <<pending, processing, dlq, clock, horizon, pushed, executed,
            pc, raw, job, todo, nacking, faults>>

PC == {"idle", "leased", "restamping", "running", "acking", "requeuing"}

TypeOK ==
  /\ pending \in Seq(Entry) /\ processing \in Seq(Entry) /\ dlq \in Seq(Entry)
  /\ clock \in 0 .. MaxClock /\ horizon \in Nat /\ faults \in Nat
  /\ pushed \subseteq Jobs /\ executed \subseteq Jobs
  /\ pc \in [Procs -> PC]
  /\ raw \in [Procs -> Entry \cup {None}]
  /\ job \in [Procs -> Entry \cup {None}]
  /\ todo \in [Procs -> Seq(Entry)]
  /\ nacking \in [Procs -> Entry \cup {None}]

Init ==
  /\ pending = <<>> /\ processing = <<>> /\ dlq = <<>>
  /\ clock = 0 /\ horizon = 0 /\ faults = 0
  /\ pushed = {} /\ executed = {}
  /\ pc = [p \in Procs |-> "idle"]
  /\ raw = [p \in Procs |-> None]
  /\ job = [p \in Procs |-> None]
  /\ todo = [p \in Procs |-> <<>>]
  /\ nacking = [p \in Procs |-> None]

-----------------------------------------------------------------------------
(* The Redis commands.                                                     *)

LPush(list, x) == Append(list, x)

\* LREM list 1 x: drop the element nearest the left end that equals x, if any.
LRem(list, x) ==
  IF x \in ToSet(list)
  THEN RemoveAt(list, CHOOSE i \in DOMAIN list :
                        /\ list[i] = x
                        /\ \A k \in DOMAIN list : list[k] = x => k <= i)
  ELSE list

\* Broken: an element exactly at the visibility timeout is never reaped.
TimedOutLater(x) == x.stamp < horizon

TimedOut(x) == x.stamp <= horizon

\* Broken variants of a definition stand before it: each is a bug that some
\* property below must catch. This one forgets r.Job.Retries++.
RetriedNot(x) == x

Retried(x) == [x EXCEPT !.retries = @ + 1]

\* Broken: an exhausted job is dropped, not dead-lettered.
NackPutDrops(x) ==
  /\ pending' = IF x.retries < MaxRetries THEN LPush(pending, x) ELSE pending
  /\ UNCHANGED dlq

\* The second half of Nack: dead-letter a job that has no retries left, else
\* sleep and put it back. A sleep that outlives the context loses the job.
NackPut(x) ==
  \/ /\ x.retries >= MaxRetries
     /\ dlq' = LPush(dlq, x)
     /\ UNCHANGED pending
  \/ /\ x.retries < MaxRetries
     /\ pending' = IF Backoff(x.retries) < NackDeadline
                   THEN LPush(pending, x) ELSE pending
     /\ UNCHANGED dlq

-----------------------------------------------------------------------------
\* time.Now(), in CreatedAt or LeasedAt.
Now == clock < MaxClock /\ clock' = clock + 1

\* Some callers leave CreatedAt unset. Then it is the zero time, which is
\* older than any timeout.
CreatedAt(t) == \/ t = 0 /\ UNCHANGED clock
                \/ Now /\ t = clock'

Push(j, t) ==
  /\ j \notin pushed
  /\ pushed' = pushed \cup {j}
  /\ CreatedAt(t)
  /\ pending' = LPush(pending, [job |-> j, retries |-> 0, stamp |-> t])
  /\ UNCHANGED <<processing, dlq, horizon, executed, worker, reaper, faults>>

\* Pop, BLMOVE: from pending to processing in one command.
Lease(p) ==
  /\ pc[p] = "idle"
  /\ pending # <<>>
  /\ LET x == Head(pending) IN
     /\ pending' = Tail(pending)
     /\ processing' = LPush(processing, x)
     /\ raw' = [raw EXCEPT ![p] = x]
     /\ job' = [job EXCEPT ![p] = x]
  /\ pc' = [pc EXCEPT ![p] = "leased"]
  /\ UNCHANGED <<dlq, clock, horizon, pushed, executed, reaper, faults>>

\* Pop stamps LeasedAt in memory and removes the unstamped copy. When a reaper
\* has taken that copy already, Pop keeps the receipt it has.
StampRemove(p) ==
  /\ pc[p] = "leased"
  /\ Now
  /\ job' = [job EXCEPT ![p].stamp = clock']
  /\ processing' = LRem(processing, raw[p])
  /\ pc' = [pc EXCEPT ![p] = IF raw[p] \in ToSet(processing)
                             THEN "restamping" ELSE "running"]
  /\ UNCHANGED <<pending, dlq, horizon, pushed, executed, raw, reaper, faults>>

\* Pop puts the stamped copy back: until then only the worker has the job.
StampPut(p) ==
  /\ pc[p] = "restamping"
  /\ processing' = LPush(processing, job[p])
  /\ raw' = [raw EXCEPT ![p] = job[p]]
  /\ pc' = [pc EXCEPT ![p] = "running"]
  /\ UNCHANGED <<pending, dlq, clock, horizon, pushed, executed, job, reaper,
                 faults>>

\* process() returns nil; Ack follows.
Succeed(p) ==
  /\ pc[p] = "running"
  /\ executed' = executed \cup {job[p].job}
  /\ pc' = [pc EXCEPT ![p] = "acking"]
  /\ UNCHANGED <<lists, clock, horizon, pushed, raw, job, reaper, faults>>

GoIdle(p) ==
  /\ pc' = [pc EXCEPT ![p] = "idle"]
  /\ raw' = [raw EXCEPT ![p] = None]
  /\ job' = [job EXCEPT ![p] = None]

Ack(p) ==
  /\ pc[p] = "acking"
  /\ processing' = LRem(processing, raw[p])
  /\ GoIdle(p)
  /\ UNCHANGED <<pending, dlq, clock, horizon, pushed, executed, reaper, faults>>

\* Broken: the worker acknowledges a job whose handler failed.
NackRemoveAcks(p) ==
  /\ pc[p] = "running"
  /\ processing' = LRem(processing, raw[p])
  /\ GoIdle(p)
  /\ UNCHANGED <<pending, dlq, clock, horizon, pushed, executed, reaper, faults>>

\* process() returns an error: the first half of Nack.
NackRemove(p) ==
  /\ pc[p] = "running"
  /\ processing' = LRem(processing, raw[p])
  /\ job' = [job EXCEPT ![p] = Retried(@)]
  /\ pc' = [pc EXCEPT ![p] = "requeuing"]
  /\ UNCHANGED <<pending, dlq, clock, horizon, pushed, executed, raw, reaper,
                 faults>>

Requeue(p) ==
  /\ pc[p] = "requeuing"
  /\ NackPut(job[p])
  /\ GoIdle(p)
  /\ UNCHANGED <<processing, clock, horizon, pushed, executed, reaper, faults>>

-----------------------------------------------------------------------------
(* The reaper of process p.                                                *)

\* reap: LRANGE processing 0 -1, left to right.
Snapshot(p) ==
  /\ todo[p] = <<>> /\ nacking[p] = None
  /\ processing # <<>>
  /\ todo' = [todo EXCEPT ![p] = Reverse(processing)]
  /\ UNCHANGED <<lists, clock, horizon, pushed, executed, worker, nacking,
                 faults>>

Skip(p) ==
  /\ todo[p] # <<>> /\ nacking[p] = None
  /\ ~TimedOut(Head(todo[p]))
  /\ todo' = [todo EXCEPT ![p] = Tail(@)]
  /\ UNCHANGED <<lists, clock, horizon, pushed, executed, worker, nacking,
                 faults>>

\* Broken: the reaper clears the stuck element and does not requeue it.
ReapRemoveForgets(p) ==
  /\ todo[p] # <<>> /\ nacking[p] = None
  /\ TimedOut(Head(todo[p]))
  /\ processing' = LRem(processing, Head(todo[p]))
  /\ todo' = [todo EXCEPT ![p] = Tail(@)]
  /\ UNCHANGED <<pending, dlq, clock, horizon, pushed, executed, worker,
                 nacking, faults>>

\* A timed-out element of the snapshot is nacked, whether or not it is still
\* in the list: Nack ignores the result of LREM.
ReapRemove(p) ==
  /\ todo[p] # <<>> /\ nacking[p] = None
  /\ TimedOut(Head(todo[p]))
  /\ processing' = LRem(processing, Head(todo[p]))
  /\ nacking' = [nacking EXCEPT ![p] = Retried(Head(todo[p]))]
  /\ todo' = [todo EXCEPT ![p] = Tail(@)]
  /\ UNCHANGED <<pending, dlq, clock, horizon, pushed, executed, worker, faults>>

ReapPut(p) ==
  /\ nacking[p] # None
  /\ NackPut(nacking[p])
  /\ nacking' = [nacking EXCEPT ![p] = None]
  /\ UNCHANGED <<processing, clock, horizon, pushed, executed, worker, todo,
                 faults>>

-----------------------------------------------------------------------------
(* Time and faults.                                                        *)

TimePasses ==
  /\ horizon < clock
  /\ horizon' = horizon + 1
  /\ UNCHANGED <<lists, clock, pushed, executed, worker, reaper, faults>>

Fault == faults < MaxFaults /\ faults' = faults + 1

\* The process dies and is restarted: what its worker and reaper held in
\* memory is gone.
Crash(p) ==
  /\ Fault
  /\ GoIdle(p)
  /\ todo' = [todo EXCEPT ![p] = <<>>]
  /\ nacking' = [nacking EXCEPT ![p] = None]
  /\ UNCHANGED <<lists, clock, horizon, pushed, executed>>

\* LREM fails, or its reply is lost, while Pop stamps: the receipt keeps the
\* unstamped copy.
StampRemoveFails(p) ==
  /\ Fault
  /\ pc[p] = "leased"
  /\ Now
  /\ job' = [job EXCEPT ![p].stamp = clock']
  /\ processing' \in {processing, LRem(processing, raw[p])}
  /\ pc' = [pc EXCEPT ![p] = "running"]
  /\ UNCHANGED <<pending, dlq, horizon, pushed, executed, raw, reaper>>

\* LPUSH fails while Pop stamps, and the worker runs the only copy; or its reply
\* is lost, and the worker's receipt is not the copy in the list.
StampPutFails(p) ==
  /\ Fault
  /\ pc[p] = "restamping"
  /\ processing' \in {processing, LPush(processing, job[p])}
  /\ pc' = [pc EXCEPT ![p] = "running"]
  /\ UNCHANGED <<pending, dlq, clock, horizon, pushed, executed, raw, job,
                 reaper>>

\* LREM fails in Ack, which only logs it: the copy stays in processing.
AckFails(p) ==
  /\ Fault
  /\ pc[p] = "acking"
  /\ GoIdle(p)
  /\ UNCHANGED <<lists, clock, horizon, pushed, executed, reaper>>

\* LREM fails in Nack, which ignores it: the copy stays in processing and the
\* retried copy is queued as well.
NackRemoveFails(p) ==
  /\ Fault
  /\ pc[p] = "running"
  /\ job' = [job EXCEPT ![p] = Retried(@)]
  /\ pc' = [pc EXCEPT ![p] = "requeuing"]
  /\ UNCHANGED <<lists, clock, horizon, pushed, executed, raw, reaper>>

\* LPUSH fails in Nack, which only logs it.
RequeueFails(p) ==
  /\ Fault
  /\ pc[p] = "requeuing"
  /\ GoIdle(p)
  /\ UNCHANGED <<lists, clock, horizon, pushed, executed, reaper>>

\* The same by a reaper: the stuck copy stays and a retried one joins it.
ReapRemoveFails(p) ==
  /\ Fault
  /\ todo[p] # <<>> /\ nacking[p] = None
  /\ TimedOut(Head(todo[p]))
  /\ nacking' = [nacking EXCEPT ![p] = Retried(Head(todo[p]))]
  /\ todo' = [todo EXCEPT ![p] = Tail(@)]
  /\ UNCHANGED <<lists, clock, horizon, pushed, executed, worker>>

ReapPutFails(p) ==
  /\ Fault
  /\ nacking[p] # None
  /\ nacking' = [nacking EXCEPT ![p] = None]
  /\ UNCHANGED <<lists, clock, horizon, pushed, executed, worker, todo>>

-----------------------------------------------------------------------------
WorkerStep(p) ==
  \/ Lease(p) \/ StampRemove(p) \/ StampPut(p)
  \/ Succeed(p) \/ Ack(p) \/ NackRemove(p) \/ Requeue(p)

ReaperStep(p) == Snapshot(p) \/ Skip(p) \/ ReapRemove(p) \/ ReapPut(p)

FaultStep(p) ==
  \/ Crash(p) \/ StampRemoveFails(p) \/ StampPutFails(p) \/ AckFails(p)
  \/ NackRemoveFails(p) \/ RequeueFails(p) \/ ReapRemoveFails(p)
  \/ ReapPutFails(p)

Next ==
  \/ \E j \in Jobs, t \in 0 .. MaxClock : Push(j, t)
  \/ \E p \in Procs : WorkerStep(p) \/ ReaperStep(p) \/ FaultStep(p)
  \/ TimePasses

Spec == Init /\ [][Next]_vars

\* Workers loop for ever and every process() has a timeout of its own; the
\* reaper's ticker and the clock never stop. Nobody has to push or to fail.
Fairness ==
  /\ \A p \in Procs : WF_vars(WorkerStep(p)) /\ WF_vars(ReaperStep(p))
  /\ WF_vars(TimePasses)

FairSpec == Spec /\ Fairness

-----------------------------------------------------------------------------
(* Properties.                                                             *)

\* What a list of work may hold, and what a nack may hold.
Live   == {x \in Entry : x.job \in pushed /\ x.retries < MaxRetries}
Nacked == {x \in Entry : x.job \in pushed /\ x.retries > 0}

ListsConsistent ==
  pending \in Seq(Live) /\ processing \in Seq(Live) /\ dlq \in Seq(Nacked)

WorkerConsistent(p) ==
  /\ pc[p] # "idle" => raw[p] \in Live /\ job[p].job = raw[p].job
  /\ pc[p] \notin {"idle", "requeuing"} => job[p] \in Live
  /\ pc[p] = "requeuing" => job[p] \in Nacked
  /\ pc[p] = "acking" => job[p].job \in executed

ReaperConsistent(p) ==
  todo[p] \in Seq(Live) /\ nacking[p] \in Nacked \cup {None}

\* The invariant behind the ones below: every copy, wherever it is, is of a
\* pushed job; only a copy that is being nacked can have used up its retries;
\* a worker's receipt and its job are about the same job; and what is being
\* acknowledged has been executed.
Consistent ==
  /\ TypeOK
  /\ ListsConsistent
  /\ \A p \in Procs : WorkerConsistent(p) /\ ReaperConsistent(p)

On(list, j) == \E x \in ToSet(list) : x.job = j
InLists(j) == On(pending, j) \/ On(processing, j)

\* Some process holds the job in memory, and will put a copy back or run it.
Working(j) == \E p \in Procs : pc[p] # "idle" /\ job[p].job = j
Reaping(j) == \E p \in Procs : nacking[p] # None /\ nacking[p].job = j

Flying(j) == InLists(j) \/ Working(j) \/ Reaping(j)

InFlight == {j \in Jobs : Flying(j)}
Dead     == {x.job : x \in ToSet(dlq)}
Settled(j) == j \in executed \cup Dead
Accounted(j) == Settled(j) \/ Flying(j)

\* As long as nothing crashes and every Redis command succeeds, a job that was
\* pushed is executed, dead-lettered, on a list, or in the hands of a worker or
\* a reaper, whatever workers and reapers do to each other's copies
\* (queue.go: "at-least-once delivery").
NoJobLost ==
  faults = 0 => \A j \in pushed : Accounted(j)

\* A fault loses a job only when no list held a copy of it, that is between the
\* two commands of a stamp or of a nack, or while a job whose copy was already
\* taken away is still running. A crash at any other moment loses nothing.
LostOnlyFromMemory ==
  [][\A j \in pushed :
       Accounted(j) /\ ~Accounted(j)' => ~InLists(j) /\ faults' > faults]_vars

\* What a waiting copy of job j can grow into. Every reaper may requeue it while
\* Pop is stamping it and once more while it runs, and its worker may nack it as
\* well, but each of these copies has one retry less.
Fanout == 2 * Cardinality(Procs) + 1
Power[n \in 0 .. MaxRetries] == IF n = 0 THEN 1 ELSE Fanout * Power[n - 1]
WaitingWeight(j, x) ==
  IF x.job = j THEN Power[MaxRetries - x.retries] ELSE 0
LeasedWeight(j, x) ==
  IF x.job = j
  THEN (Cardinality(Procs) + 1) * Power[MaxRetries - x.retries - 1]
  ELSE 0

WaitingOn(list, j) ==
  SumFunction([i \in DOMAIN list |-> WaitingWeight(j, list[i])])
LeasedOut(j) ==
  SumFunction([i \in DOMAIN processing |-> LeasedWeight(j, processing[i])])

\* The copies that only a worker or a reaper has.
WithWorkers(j) ==
  SumFunction([p \in Procs |-> CASE pc[p] = "requeuing"  -> WaitingWeight(j, job[p])
                                 [] pc[p] = "restamping" -> LeasedWeight(j, job[p])
                                 [] OTHER -> 0])
WithReapers(j) ==
  SumFunction([p \in Procs |-> IF nacking[p] = None THEN 0
                               ELSE WaitingWeight(j, nacking[p])])

\* Duplicates die out. A job that is reaped while it runs and then fails is
\* queued twice, and so are its copies, but Retries bounds the cascade: however
\* slow the handlers, there is a bound on the copies of a job that are waiting,
\* leased or dead (queue.go: "After MaxRetries attempts they are moved to the
\* DLQ").
DuplicationBounded ==
  faults = 0 =>
    \A j \in pushed :
      WaitingOn(pending, j) + WaitingOn(dlq, j) + LeasedOut(j)
      + WithWorkers(j) + WithReapers(j) <= Power[MaxRetries]

\* A pushed job ends: executed, dead-lettered, or lost to a fault. Nothing is
\* stuck in processing after a crash, whichever step the crash cut short
\* ("Unacked jobs are automatically requeued by the Reaper").
EventuallySettled ==
  \A j \in Jobs : j \in pushed ~> Settled(j) \/ ~Accounted(j)

\* Pushed is pushed: what the package comment promises under any failure of a
\* worker.
AtLeastOnce == \A j \in pushed : Accounted(j)

\* The queue implements its promise.
Promise == INSTANCE AtLeastOnceQueue
           WITH submitted <- pushed, inFlight <- InFlight, dead <- Dead

ImplementsPromise == Promise!Spec
=============================================================================
