-------------------------------- MODULE Cron --------------------------------
(***************************************************************************)
(* internal/worker/cron.go: replicas of the cron worker that share one     *)
(* Redis lock and the table cron_state, for one scheduled thing of kind    *)
(* Kind. Each SQL statement and each Redis command is one step, so a       *)
(* replica may stall between its SELECT and its UPDATE for longer than the *)
(* 55 seconds its lock lives.                                              *)
(*                                                                         *)
(* The clock counts minutes, which is the resolution of a schedule. All    *)
(* replicas read the same clock. An expression is the set of minutes at    *)
(* which it is due (cronx.Schedule).                                       *)
(***************************************************************************)
EXTENDS Naturals, Sequences, FiniteSets

CONSTANTS Replicas,      \* cron worker processes
          Kind,          \* "workflow", "function" or "deploy_target"
          Exprs,         \* cron expressions a user may set
          Invalid,       \* those of them that cronx.Parse rejects
          Occurs,        \* the minutes of each expression
          MissedCap,     \* 1000: where decideCron stops counting
          MaxTime,       \* bound on the clock
          MaxEdits,      \* bound on the user's edits
          MaxCrashes,    \* bound on crashes
          None           \* no expression, no row, NULL

ASSUME ConstantsAssumption ==
  /\ Kind \in {"workflow", "function", "deploy_target"}
  /\ Invalid \subseteq Exprs
  /\ Occurs \in [Exprs -> SUBSET (Nat \ {0})]
  /\ MissedCap \in Nat /\ MaxTime \in Nat
  /\ MaxEdits \in Nat /\ MaxCrashes \in Nat

\* A row of cron_state: expression, next_run_at and missed_runs.
Row == [expr : Exprs, next : Nat \cup {None}, missed : Nat]

ASSUME NoneAssumption == None \notin Exprs \cup Nat /\ None \notin Row

VARIABLES clock,         \* time.Now(), in minutes
          expr,          \* the thing's schedule while it is active
          lock,          \* the minute applad:cron:lock was taken in, or None
          row,           \* its row of cron_state, or None
          pc,            \* where the tick of each replica is
          now,           \* tick's now
          seen,          \* the expression collect returned
          due,           \* storedNext.Time
          pushed,        \* occurrences pushed to a queue by fire
          consumed,      \* how many of them a worker has popped
          ran,           \* how many of those it has run
          \* History, which no action reads.
          since,         \* when expr was set
          seeded,        \* next_run_at and missed_runs as last seeded
          epoch,         \* how often saveState has changed the row
          claims,        \* claims that won, in order
          overran,       \* a tick has outlived its lock
          edits, crashes

local   == <<pc, now, seen, due>>
jobs    == <<pushed, consumed, ran>>
bounded == <<edits, crashes>>
vars == <<clock, expr, lock, row, pc, now, seen, due, pushed, consumed, ran,
          since, seeded, epoch, claims, overran, edits, crashes>>

PC == {"idle", "collecting", "evaluating", "seeding", "claiming", "firing"}

Claim == [epoch : Nat, occ : Nat]

TypeOK ==
  /\ clock \in 0 .. MaxTime
  /\ expr \in Exprs \cup {None}
  /\ lock \in Nat \cup {None}
  /\ row \in Row \cup {None}
  /\ pc \in [Replicas -> PC]
  /\ now \in [Replicas -> 0 .. MaxTime]
  /\ seen \in [Replicas -> Exprs \cup {None}]
  /\ due \in [Replicas -> Nat]
  /\ pushed \in Seq(Nat) /\ consumed \in Nat /\ ran \in Nat
  /\ since \in 0 .. MaxTime
  /\ seeded \in [next : Nat \cup {None}, missed : Nat]
  /\ epoch \in Nat /\ claims \in Seq(Claim) /\ overran \in BOOLEAN
  /\ edits \in Nat /\ crashes \in Nat

Init ==
  /\ clock = 0 /\ lock = None /\ row = None
  /\ expr \in Exprs \cup {None}
  /\ pc = [r \in Replicas |-> "idle"]
  /\ now = [r \in Replicas |-> 0]
  /\ seen = [r \in Replicas |-> None]
  /\ due = [r \in Replicas |-> 0]
  /\ pushed = <<>> /\ consumed = 0 /\ ran = 0
  /\ since = 0 /\ seeded = [next |-> None, missed |-> 0]
  /\ epoch = 0 /\ claims = <<>> /\ overran = FALSE
  /\ edits = 0 /\ crashes = 0

-----------------------------------------------------------------------------
(* decideCron.                                                             *)

\* Schedule.Next: the first occurrence strictly after t, or the zero time when
\* there is none (0 30 30 2 * is a valid expression).
NextRun(e, t) ==
  IF \E o \in Occurs[e] : o > t
  THEN CHOOSE o \in Occurs[e] :
         o > t /\ \A q \in Occurs[e] : q > t => o <= q
  ELSE 0

\* Broken variants of a definition stand before it: each is a bug that some
\* property below must catch. Here the loop starts at storedNext itself.
MissedFromDue(e, d, t) == Cardinality({o \in Occurs[e] : d <= o /\ o <= t})

\* Occurrences after d that are not after t, counted up to the cap.
Missed(e, d, t) ==
  LET n == Cardinality({o \in Occurs[e] : d < o /\ o <= t})
  IN  IF n <= MissedCap THEN n ELSE MissedCap + 1

\* Broken: a changed expression keeps the next run of the old one.
SeededAnyhow(e) == row # None /\ row.next # None

Seeded(e) == row # None /\ row.expr = e /\ row.next # None

\* Broken: what the worker did before it had cron_state.
DueExactly(t) == row.next = t

Due(t) == row.next <= t

-----------------------------------------------------------------------------
(* A tick.                                                                 *)

Goto(r, l) == pc' = [pc EXCEPT ![r] = l]

\* The end of a tick, for this thing: tick's variables go out of scope.
Rest(r) ==
  /\ Goto(r, "idle")
  /\ now' = [now EXCEPT ![r] = 0]
  /\ seen' = [seen EXCEPT ![r] = None]
  /\ due' = [due EXCEPT ![r] = 0]

\* Broken: the result of SETNX is ignored.
TickUnlocked(r) ==
  /\ pc[r] = "idle"
  /\ lock' = clock
  /\ now' = [now EXCEPT ![r] = clock]
  /\ Goto(r, "collecting")
  /\ UNCHANGED <<clock, expr, row, seen, due, jobs, since, seeded, epoch, claims,
                 overran, bounded>>

\* SETNX applad:cron:lock, then now.
Tick(r) ==
  /\ pc[r] = "idle"
  /\ lock = None
  /\ lock' = clock
  /\ now' = [now EXCEPT ![r] = clock]
  /\ Goto(r, "collecting")
  /\ UNCHANGED <<clock, expr, row, seen, due, jobs, since, seeded, epoch, claims,
                 overran, bounded>>

\* collect: the SELECT that finds the thing, if it is active and scheduled.
Collect(r) ==
  /\ pc[r] = "collecting"
  /\ \/ expr = None /\ Rest(r)
     \/ /\ expr # None
        /\ seen' = [seen EXCEPT ![r] = expr]
        /\ Goto(r, "evaluating")
        /\ UNCHANGED <<now, due>>
  /\ UNCHANGED <<clock, expr, lock, row, jobs, since, seeded, epoch,
                 claims, overran, bounded>>

\* evaluate: the SELECT on cron_state and decideCron.
Evaluate(r) ==
  /\ pc[r] = "evaluating"
  /\ seen[r] \notin Invalid
  /\ \/ /\ ~Seeded(seen[r])
        /\ Goto(r, "seeding")
        /\ UNCHANGED <<now, seen, due>>
     \/ /\ Seeded(seen[r])
        /\ ~Due(now[r])
        /\ Rest(r)
     \/ /\ Seeded(seen[r])
        /\ Due(now[r])
        /\ due' = [due EXCEPT ![r] = row.next]
        /\ Goto(r, "claiming")
        /\ UNCHANGED <<now, seen>>
  /\ UNCHANGED <<clock, expr, lock, row, jobs, since, seeded, epoch,
                 claims, overran, bounded>>

\* saveState: an upsert, whatever the row says by now. It never lowers
\* missed_runs and counts no missed run itself.
SaveState(e, next) ==
  LET missed == IF row = None THEN 0 ELSE row.missed
      new    == [expr |-> e, next |-> next, missed |-> missed]
  IN  /\ row' = new
      /\ epoch' = IF row = new THEN epoch ELSE epoch + 1
      /\ seeded' = IF row = new THEN seeded
                                ELSE [next |-> next, missed |-> missed]

\* evaluate, when the expression does not parse.
RecordError(r) ==
  /\ pc[r] = "evaluating"
  /\ seen[r] \in Invalid
  /\ SaveState(seen[r], None)
  /\ Rest(r)
  /\ UNCHANGED <<clock, expr, lock, jobs, since, claims, overran, bounded>>

\* cronInit.
Seed(r) ==
  /\ pc[r] = "seeding"
  /\ SaveState(seen[r], NextRun(seen[r], now[r]))
  /\ Rest(r)
  /\ UNCHANGED <<clock, expr, lock, jobs, since, claims, overran, bounded>>

\* Broken: the UPDATE is not conditional on next_run_at.
WinsAlways(r) == row # None

Wins(r) == row # None /\ row.next = due[r]

\* cronClaim: the conditional UPDATE. The row keeps its expression.
ClaimRun(r) ==
  /\ pc[r] = "claiming"
  /\ \/ /\ Wins(r)
        /\ row' = [row EXCEPT !.next = NextRun(seen[r], now[r]),
                              !.missed = @ + Missed(seen[r], due[r], now[r])]
        /\ claims' = Append(claims, [epoch |-> epoch, occ |-> due[r]])
        /\ Goto(r, "firing")
        /\ UNCHANGED <<now, seen, due>>
     \/ /\ ~Wins(r)
        /\ Rest(r)
        /\ UNCHANGED <<row, claims>>
  /\ UNCHANGED <<clock, expr, lock, jobs, since, seeded, epoch, overran, bounded>>

\* fire: one job on the queue of the kind.
Fire(r) ==
  /\ pc[r] = "firing"
  /\ pushed' = Append(pushed, due[r])
  /\ Rest(r)
  /\ UNCHANGED <<clock, expr, lock, row, consumed, ran, since, seeded, epoch,
                 claims, overran, bounded>>

\* What the worker that pops the job needs to find in its payload: Execute puts
\* an executionId and a workflowId there; fireFunction and fireTarget put no
\* executionId and no deploymentId there, and the workers of their queues
\* acknowledge such a job without running anything.
HasIds == Kind = "workflow"

Consume ==
  /\ consumed < Len(pushed)
  /\ consumed' = consumed + 1
  /\ ran' = IF HasIds THEN ran + 1 ELSE ran
  /\ UNCHANGED <<clock, expr, lock, row, local, pushed, since, seeded, epoch,
                 claims, overran, bounded>>

-----------------------------------------------------------------------------
(* Around the ticks.                                                       *)

\* The lock's time to live ends.
Expire ==
  /\ lock # None
  /\ lock' = None
  /\ overran' = (overran \/ \E r \in Replicas : pc[r] # "idle")
  /\ UNCHANGED <<clock, expr, row, local, jobs, since, seeded, epoch, claims,
                 bounded>>

\* 55 seconds see at most one new minute.
TimePasses ==
  /\ clock < MaxTime
  /\ lock # None => lock = clock
  /\ clock' = clock + 1
  /\ UNCHANGED <<expr, lock, row, local, jobs, since, seeded, epoch, claims,
                 overran, bounded>>

\* The API schedules, reschedules, pauses or resumes the thing. None of its
\* handlers touches cron_state.
Edit(e) ==
  /\ edits < MaxEdits
  /\ edits' = edits + 1
  /\ e # expr
  /\ expr' = e
  /\ since' = clock
  /\ UNCHANGED <<clock, lock, row, local, jobs, seeded, epoch, claims, overran,
                 crashes>>

\* The replica dies, and another one starts in its place; or the statement it
\* was about to execute fails, or the reply to its UPDATE is lost, which ends
\* its evaluate as well.
Crash(r) ==
  /\ pc[r] # "idle"
  /\ crashes < MaxCrashes
  /\ crashes' = crashes + 1
  /\ Rest(r)
  /\ UNCHANGED <<clock, expr, lock, row, jobs, since, seeded, epoch, claims,
                 overran, edits>>

Step(r) ==
  \/ Tick(r) \/ Collect(r) \/ Evaluate(r) \/ RecordError(r) \/ Seed(r)
  \/ ClaimRun(r) \/ Fire(r)

Next ==
  \/ \E r \in Replicas : Step(r) \/ Crash(r)
  \/ \E e \in Exprs \cup {None} : Edit(e)
  \/ Expire \/ TimePasses \/ Consume

Spec == Init /\ [][Next]_vars

\* Each replica's ticker never stops, a tick ends, a lock expires and time goes
\* on. Nobody has to edit or to crash.
Fairness ==
  /\ \A r \in Replicas : WF_vars(Step(r))
  /\ WF_vars(Expire) /\ WF_vars(TimePasses)

FairSpec == Spec /\ Fairness

-----------------------------------------------------------------------------
(* Properties.                                                             *)

\* Every valid expression occurs again after the time considered.
Recurrent ==
  \A e \in Exprs \ Invalid : \E o \in Occurs[e] : o > MaxTime

\* Between two changes by saveState no occurrence is claimed twice, and claims
\* follow the clock, however many replicas tick at the same time with whatever
\* stale reads (claim: "two workers cannot both fire the same occurrence even if
\* one overruns its lock").
ClaimedOncePerSeed ==
  \A i, k \in DOMAIN claims :
    i < k /\ claims[i].epoch = claims[k].epoch => claims[i].occ < claims[k].occ

\* While every tick ends before its lock does, no occurrence is claimed twice,
\* whatever the user does to the schedule and whichever replica crashes.
ClaimedOnce ==
  ~overran => \A i, k \in DOMAIN claims :
                i < k => claims[i].occ < claims[k].occ

\* While every tick ends before its lock does, the next run is one of the
\* schedule it was computed for.
NextRunOnSchedule ==
  ~overran /\ row # None /\ row.expr \notin Invalid =>
    row.next \in Occurs[row.expr]

\* Every occurrence between the first one after a seed and the next run was
\* either claimed or counted in missed_runs.
EveryRunCounted ==
  ~overran /\ row # None /\ row.next # None =>
    Cardinality({o \in Occurs[row.expr] : seeded.next <= o /\ o < row.next})
      = Cardinality({i \in DOMAIN claims : claims[i].epoch = epoch})
        + row.missed - seeded.missed

\* A run is owed: the schedule is always caught up with again, even after a
\* replica died in the middle of a tick or outlived its lock
\* (011_cron_state.sql: "a run something that is owed").
CaughtUp ==
  expr \notin Invalid \cup {None} =>
    row # None /\ row.expr = expr /\ row.next # None /\ row.next > clock

AlwaysCatchesUp == []<>CaughtUp

\* What claim's comment says without a condition.
FiredOnce == \A i, k \in DOMAIN pushed : i # k => pushed[i] # pushed[k]

\* What decideCron's comment says: a schedule that was just set starts from now
\* rather than firing "for a window nobody asked for". Races of the edit with a
\* tick are left out: the schedule was set in an earlier minute.
NoWindowNobodyAskedFor ==
  [][\A r \in Replicas :
       pc[r] = "claiming" /\ pc'[r] = "firing" /\ since < now[r] /\ ~overran
         => due[r] >= since]_vars

\* What the scheduler fires is run by the worker that pops it (functions.mdx:
\* "Give a function a `cron` expression to run it on a schedule").
FiredIsRun == ran = consumed
=============================================================================
