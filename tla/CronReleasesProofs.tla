-------------------------- MODULE CronReleasesProofs --------------------------
(***************************************************************************)
(* Proofs about Cron, for any number of replicas, schedules, edits and     *)
(* crashes.                                                                *)
(*                                                                         *)
(* No occurrence of a schedule is claimed twice: between two seeds for any *)
(* overlap of ticks, and altogether while ticks do not overlap (Inv).      *)
(*                                                                         *)
(* While ticks do not overlap, a tick that is about to claim still has the *)
(* row before it that it has read (RowInv); so a claim moves the next run  *)
(* of the row's own schedule, and closes the gap up to its own time but    *)
(* for the runs it counts as missed (BetweenClaim, CountInv).              *)
(*                                                                         *)
(* Proofs about Releases, for any number of releases, retries and faults:  *)
(* typing for any number of builds workers, and for one worker that no     *)
(* container outlives its target's teardown and that reaping spares the    *)
(* image that serves.                                                      *)
(*                                                                         *)
(* The second rests on where the check of the target stands. A worker that *)
(* has passed it may start a container although the target is deleted by   *)
(* then; but it is the only worker, so the teardown is still to come. The  *)
(* third, on the site being the worker's own from the start of the         *)
(* container to the reaping.                                               *)
(*                                                                         *)
(* And for any number of workers, that a release in "pending" is not       *)
(* forgotten while at most one thing has gone wrong (PendInv): each way to *)
(* lose it without writing its status costs a fault of its own.            *)
(***************************************************************************)
EXTENDS Cron, Releases, SequenceTheorems, WellFoundedInduction,
        FiniteSetTheorems, TLAPS

-----------------------------------------------------------------------------
(* The schedule.                                                           *)

\* Schedule.Next of a schedule that goes on is an occurrence after t.
LEMMA NextRunLemma ==
  ASSUME Recurrent, NEW e \in Exprs \ Invalid, NEW t \in 0 .. MaxTime
  PROVE  /\ NextRun(e, t) \in Occurs[e]
         /\ NextRun(e, t) \in Nat
         /\ NextRun(e, t) > t
         /\ \A q \in Occurs[e] : q > t => NextRun(e, t) <= q
<1>. DEFINE Later == {o \in Occurs[e] : o > t}
            Less == {ss \in Nat \X Nat : ss[1] < ss[2]}
<1>1. Occurs[e] \subseteq Nat
  BY ConstantsAssumption
<1>2. t \in Nat /\ MaxTime \in Nat /\ t <= MaxTime
  BY ConstantsAssumption
<1>3. PICK o \in Occurs[e] : o > MaxTime
  BY DEF Recurrent
<1>4. o \in Later
  BY <1>1, <1>2, <1>3
<1>5. Later # {} /\ Later \subseteq Nat
  BY <1>1, <1>4
<1>6. IsWellFoundedOn(Less, Nat)
  BY NatLessThanWellFounded, Zenon DEF OpToRel
<1>7. \A a, b \in Nat : a < b => <<a, b>> \in Less
  OBVIOUS
<1>. HIDE DEF Less
<1>8. PICK m \in Later : \A q \in Later : <<q, m>> \notin Less
  BY <1>5, <1>6, WFMin
<1>9. \A q \in Occurs[e] : q > t => m <= q
  <2>. SUFFICES ASSUME NEW q \in Occurs[e], q > t PROVE m <= q
    OBVIOUS
  <2>1. q \in Later /\ q \in Nat /\ m \in Nat /\ <<q, m>> \notin Less
    BY <1>5, <1>8
  <2>. QED BY <2>1, <1>7
<1>10. m \in Occurs[e] /\ m > t
  OBVIOUS
<1>. DEFINE First(x) == x > t /\ \A q \in Occurs[e] : q > t => x <= q
<1>11. NextRun(e, t) = CHOOSE x \in Occurs[e] : First(x)
  BY <1>10 DEF NextRun
<1>12. First(m)
  BY <1>9, <1>10
<1>. HIDE DEF First
<1>13. First(NextRun(e, t)) /\ NextRun(e, t) \in Occurs[e]
  BY <1>10, <1>11, <1>12
<1>. QED BY <1>1, <1>13 DEF First

\* The missed runs of a claim are a number.
LEMMA MissedLemma ==
  ASSUME NEW e \in Exprs, NEW d \in Nat, NEW t \in Nat
  PROVE  Missed(e, d, t) \in Nat
<1>. DEFINE S == {o \in Occurs[e] : d < o /\ o <= t}
<1>1. S \subseteq 0 .. t
  BY ConstantsAssumption
<1>2. IsFiniteSet(0 .. t)
  BY FS_Interval
<1>. HIDE DEF S
<1>3. IsFiniteSet(S)
  BY <1>1, <1>2, FS_Subset
<1>4. Cardinality(S) \in Nat
  BY <1>3, FS_CardinalityType
<1>. QED BY <1>4, ConstantsAssumption DEF Missed, S

-----------------------------------------------------------------------------
(* The invariant.                                                          *)

\* What a replica holds between its statements.
LocalInv(r) ==
  /\ pc[r] \notin {"idle", "collecting"} => seen[r] \in Exprs
  /\ pc[r] \in {"seeding", "claiming"} => seen[r] \notin Invalid
  /\ pc[r] = "claiming" => due[r] <= now[r]
  /\ now[r] <= clock

\* The claims of this seed lie before the next run.
SeedInv ==
  /\ \A i \in DOMAIN claims : claims[i].epoch <= epoch /\ claims[i].occ <= clock
  /\ row = None => claims = <<>>
  /\ row # None /\ row.next = None =>
       \A i \in DOMAIN claims : claims[i].epoch < epoch
  /\ row # None /\ row.next # None =>
       \A i \in DOMAIN claims :
         claims[i].epoch = epoch => claims[i].occ < row.next

\* While no tick outlives its lock there is one tick, and every claim lies
\* before the next run and not after the tick's now.
LockInv ==
  ~overran =>
    /\ \A r \in Replicas : pc[r] # "idle" => lock # None
    /\ \A r, q \in Replicas : pc[r] # "idle" /\ pc[q] # "idle" => r = q
    /\ \A r \in Replicas : pc[r] # "idle" =>
         \A i \in DOMAIN claims : claims[i].occ <= now[r]
    /\ row # None /\ row.next # None =>
         \A i \in DOMAIN claims : claims[i].occ < row.next

Inv ==
  /\ TypeOK
  /\ \A r \in Replicas : LocalInv(r)
  /\ SeedInv
  /\ LockInv
  /\ ClaimedOncePerSeed
  /\ ClaimedOnce

\* A claim names a seed and an occurrence.
LEMMA ClaimLemma ==
  ASSUME claims \in Seq(Claim), NEW i \in DOMAIN claims
  PROVE  claims[i].epoch \in Nat /\ claims[i].occ \in Nat
<1>1. claims[i] \in Claim
  OBVIOUS
<1>. QED BY <1>1 DEF Claim

-----------------------------------------------------------------------------
(* Steps that claim nothing.                                               *)

\* A step that leaves the row and the claims alone.
LEMMA NoClaim ==
  ASSUME Inv, UNCHANGED <<clock, row, epoch, claims>>, overran => overran'
  PROVE  SeedInv' /\ ClaimedOncePerSeed' /\ ClaimedOnce'
BY DEF Inv, SeedInv, ClaimedOncePerSeed, ClaimedOnce

\* A step that also leaves the replicas alone.
LEMMA NoStep ==
  ASSUME Inv, UNCHANGED <<row, epoch, claims, overran, lock, local>>,
         clock' = clock \/ clock' = clock + 1
  PROVE  /\ \A r \in Replicas : LocalInv(r)'
         /\ SeedInv' /\ LockInv' /\ ClaimedOncePerSeed' /\ ClaimedOnce'
<1>1. clock \in Nat /\ clock' \in Nat /\ clock' >= clock
  BY ConstantsAssumption DEF Inv, TypeOK
<1>2. ASSUME NEW r \in Replicas PROVE LocalInv(r)'
  BY <1>1, ConstantsAssumption DEF Inv, TypeOK, LocalInv, local
<1>3. SeedInv'
  <2>1. \A i \in DOMAIN claims : claims[i].occ \in Nat
    BY ClaimLemma DEF Inv, TypeOK
  <2>. QED BY <1>1, <2>1 DEF Inv, SeedInv
<1>4. LockInv'
  BY DEF Inv, LockInv, local
<1>5. ClaimedOncePerSeed' /\ ClaimedOnce'
  BY DEF Inv, ClaimedOncePerSeed, ClaimedOnce
<1>. QED BY <1>2, <1>3, <1>4, <1>5

\* The end of a tick.
LEMMA RestLemma ==
  ASSUME Inv, NEW r \in Replicas, Rest(r), clock' = clock
  PROVE  /\ pc' \in [Replicas -> PC] /\ now' \in [Replicas -> 0 .. MaxTime]
         /\ seen' \in [Replicas -> Exprs \cup {None}]
         /\ due' \in [Replicas -> Nat]
         /\ pc'[r] = "idle"
         /\ \A q \in Replicas \ {r} : pc'[q] = pc[q] /\ now'[q] = now[q]
         /\ \A q \in Replicas : LocalInv(q)'
<1>1. 0 \in 0 .. MaxTime /\ clock \in Nat /\ clock >= 0
  BY ConstantsAssumption DEF Inv, TypeOK
<1>. QED BY <1>1 DEF Inv, TypeOK, LocalInv, Rest, Goto, PC

\* A tick that ends without a trace, and a replica that dies.
LEMMA RestInv ==
  ASSUME Inv, NEW r \in Replicas, Rest(r), crashes' \in Nat,
         UNCHANGED <<clock, expr, lock, row, jobs, since, seeded, epoch, claims,
                     overran, edits>>
  PROVE  Inv'
<1>1. TypeOK'
  BY RestLemma DEF Inv, TypeOK, jobs
<1>2. LockInv'
  BY RestLemma DEF Inv, LockInv
<1>. QED BY <1>1, <1>2, RestLemma, NoClaim DEF Inv

LEMMA TickInv ==
  ASSUME Inv, NEW r \in Replicas, Tick(r)
  PROVE  Inv'
<1>1. TypeOK'
  BY ConstantsAssumption DEF Inv, TypeOK, Tick, Goto, PC, jobs, bounded
<1>2. ASSUME NEW q \in Replicas PROVE LocalInv(q)'
  BY ConstantsAssumption DEF Inv, TypeOK, LocalInv, Tick, Goto
<1>3. LockInv'
  <2>1. clock \in Nat /\ clock # None
    BY NoneAssumption, ConstantsAssumption DEF Inv, TypeOK
  <2>2. \A i \in DOMAIN claims : claims[i].occ <= clock
    BY DEF Inv, SeedInv
  <2>3. ~overran => \A q \in Replicas : pc[q] = "idle"
    BY DEF Inv, LockInv, Tick
  <2>. QED BY <2>1, <2>2, <2>3 DEF Inv, TypeOK, LockInv, Tick, Goto
<1>. QED BY <1>1, <1>2, <1>3, NoClaim DEF Inv, Tick

LEMMA CollectInv ==
  ASSUME Inv, NEW r \in Replicas, Collect(r)
  PROVE  Inv'
<1>1. CASE Rest(r)
  BY <1>1, RestInv DEF Collect, bounded, Inv, TypeOK
<1>2. CASE ~Rest(r)
  <2>1. TypeOK'
    <3>1. expr \in Exprs /\ seen' = [seen EXCEPT ![r] = expr]
          /\ pc' = [pc EXCEPT ![r] = "evaluating"]
      BY <1>2 DEF Inv, TypeOK, Collect, Goto
    <3>2. seen' \in [Replicas -> Exprs \cup {None}] /\ pc' \in [Replicas -> PC]
      BY <3>1 DEF Inv, TypeOK, PC
    <3>3. UNCHANGED <<now, due, jobs, clock, expr, lock, row, since, seeded,
                      epoch, claims, overran, bounded>>
      BY <1>2 DEF Collect, jobs
    <3> QED
      BY <3>2, <3>3 DEF Inv, TypeOK, jobs, bounded
  <2>2. ASSUME NEW q \in Replicas PROVE LocalInv(q)'
    BY <1>2 DEF Inv, TypeOK, LocalInv, Collect, Goto
  <2>3. LockInv'
    BY <1>2 DEF Inv, TypeOK, LockInv, Collect, Goto
  <2>. QED BY <2>1, <2>2, <2>3, NoClaim DEF Inv, Collect
<1>. QED BY <1>1, <1>2

LEMMA EvaluateInv ==
  ASSUME Inv, NEW r \in Replicas, Evaluate(r)
  PROVE  Inv'
<1>1. CASE Rest(r)
  BY <1>1, RestInv DEF Evaluate, bounded, Inv, TypeOK
<1>2. CASE ~Rest(r)
  <2>1. row # None /\ row.next # None => row.next \in Nat
    BY DEF Inv, TypeOK, Row
  <2>2. TypeOK'
    BY <1>2, <2>1 DEF Inv, TypeOK, Evaluate, Seeded, Goto, PC, jobs, bounded
  <2>3. ASSUME NEW q \in Replicas PROVE LocalInv(q)'
    BY <1>2, <2>1 DEF Inv, TypeOK, LocalInv, Evaluate, Seeded, Due, Goto
  <2>4. LockInv'
    BY <1>2 DEF Inv, TypeOK, LockInv, Evaluate, Goto
  <2>. QED BY <2>2, <2>3, <2>4, NoClaim DEF Inv, Evaluate
<1>. QED BY <1>1, <1>2

LEMMA FireInv ==
  ASSUME Inv, NEW r \in Replicas, Fire(r)
  PROVE  Inv'
<1>1. due[r] \in Nat /\ pushed \in Seq(Nat)
  BY DEF Inv, TypeOK
<1>2. pushed' \in Seq(Nat)
  BY <1>1 DEF Fire
<1>3. TypeOK'
  BY <1>2, RestLemma DEF Inv, TypeOK, Fire, bounded
<1>4. LockInv'
  BY RestLemma DEF Inv, LockInv, Fire
<1>. QED BY <1>3, <1>4, RestLemma, NoClaim DEF Inv, Fire

\* Consuming a job, an edit and a new minute change no tick and no claim.
LEMMA AroundInv ==
  ASSUME Inv, Consume \/ TimePasses \/ \E e \in Exprs \cup {None} : Edit(e)
  PROVE  Inv'
<1>1. TypeOK'
  <2>1. CASE Consume
    BY <2>1 DEF Inv, TypeOK, Consume, local, bounded
  <2>2. CASE TimePasses
    BY <2>2, ConstantsAssumption DEF Inv, TypeOK, TimePasses, local, jobs, bounded
  <2>3. ASSUME NEW e \in Exprs \cup {None}, Edit(e) PROVE TypeOK'
    BY <2>3 DEF Inv, TypeOK, Edit, local, jobs
  <2>. QED BY <2>1, <2>2, <2>3
<1>2. /\ UNCHANGED <<row, epoch, claims, overran, lock, local>>
      /\ clock' = clock \/ clock' = clock + 1
  BY DEF Consume, TimePasses, Edit
<1>. QED BY <1>1, <1>2, NoStep DEF Inv

\* When the lock expires under a tick, overran says so.
LEMMA ExpireInv ==
  ASSUME Inv, Expire
  PROVE  Inv'
<1>1. TypeOK'
  BY DEF Inv, TypeOK, Expire, local, jobs, bounded
<1>2. ASSUME NEW q \in Replicas PROVE LocalInv(q)'
  BY DEF Inv, LocalInv, Expire, local
<1>3. LockInv'
  BY DEF Inv, LockInv, Expire, local
<1>4. overran => overran'
  BY DEF Expire
<1>. QED BY <1>1, <1>2, <1>3, <1>4, NoClaim DEF Inv, Expire

-----------------------------------------------------------------------------
(* saveState and claim.                                                    *)

\* An upsert starts a new seed, unless it leaves the row as it is.
LEMMA SaveStateInv ==
  ASSUME Inv, NEW r \in Replicas, pc[r] # "idle", NEW e \in Exprs,
         NEW n \in Nat \cup {None}, n \in Nat => n > now[r],
         SaveState(e, n), Rest(r),
         UNCHANGED <<clock, expr, lock, jobs, since, claims, overran, bounded>>
  PROVE  Inv'
<1>. DEFINE missed == IF row = None THEN 0 ELSE row.missed
            new == [expr |-> e, next |-> n, missed |-> missed]
<1>1. missed \in Nat
  BY DEF Inv, TypeOK, Row
<1>2. new \in Row /\ new.next = n
  BY <1>1 DEF Row
<1>3. new # None /\ (n # None => n \in Nat)
  BY <1>2, NoneAssumption
<1>4. row' = new /\ epoch \in Nat
  BY DEF SaveState, Inv, TypeOK
<1>. HIDE DEF new
<1>5. TypeOK'
  <2>1. epoch' \in Nat /\ seeded' \in [next : Nat \cup {None}, missed : Nat]
    BY <1>1, <1>4 DEF SaveState, Inv, TypeOK, new
  <2>. QED BY <1>2, <1>4, <2>1, RestLemma DEF Inv, TypeOK, jobs, bounded
<1>6. CASE row = new
  <2>1. row' = row /\ epoch' = epoch
    BY <1>4, <1>6 DEF SaveState, new
  <2>2. LockInv'
    BY <2>1, RestLemma DEF Inv, LockInv
  <2>. QED BY <1>5, <2>1, <2>2, RestLemma, NoClaim DEF Inv
<1>7. CASE row # new
  <2>1. epoch' = epoch + 1
    BY <1>7 DEF SaveState, new
  <2>2. \A i \in DOMAIN claims : claims[i].epoch \in Nat /\ claims[i].occ \in Nat
    BY ClaimLemma DEF Inv, TypeOK
  <2>3. \A i \in DOMAIN claims : claims[i].epoch < epoch'
    BY <1>4, <2>1, <2>2 DEF Inv, SeedInv
  <2>4. SeedInv'
    BY <1>2, <1>3, <1>4, <2>1, <2>2, <2>3 DEF Inv, SeedInv
  <2>5. ~overran /\ n # None => \A i \in DOMAIN claims : claims[i].occ < n
    <3>1. now[r] \in Nat
      BY ConstantsAssumption DEF Inv, TypeOK
    <3>. QED BY <1>3, <2>2, <3>1 DEF Inv, LockInv
  <2>6. LockInv'
    BY <1>2, <1>4, <2>5, RestLemma DEF Inv, LockInv
  <2>7. ClaimedOncePerSeed' /\ ClaimedOnce'
    BY DEF Inv, ClaimedOncePerSeed, ClaimedOnce
  <2>. QED BY <1>5, <2>4, <2>6, <2>7, RestLemma DEF Inv
<1>. QED BY <1>6, <1>7

\* cronInit seeds a run after the tick's now.
LEMMA SeedStepInv ==
  ASSUME Recurrent, Inv, NEW r \in Replicas, Seed(r)
  PROVE  Inv'
<1>1. seen[r] \in Exprs \ Invalid /\ now[r] \in 0 .. MaxTime /\ pc[r] # "idle"
  BY DEF Inv, TypeOK, LocalInv, Seed
<1>. DEFINE n == NextRun(seen[r], now[r])
<1>2. n \in Nat /\ n > now[r]
  BY <1>1, NextRunLemma
<1>3. /\ SaveState(seen[r], n) /\ Rest(r)
      /\ UNCHANGED <<clock, expr, lock, jobs, since, claims, overran, bounded>>
  BY DEF Seed
<1>. HIDE DEF n
<1>. QED BY <1>1, <1>2, <1>3, SaveStateInv

\* An expression that does not parse leaves no next run.
LEMMA RecordErrorInv ==
  ASSUME Inv, NEW r \in Replicas, RecordError(r)
  PROVE  Inv'
<1>1. seen[r] \in Exprs /\ pc[r] # "idle"
  BY DEF Inv, LocalInv, RecordError
<1>2. /\ SaveState(seen[r], None) /\ Rest(r)
      /\ UNCHANGED <<clock, expr, lock, jobs, since, claims, overran, bounded>>
  BY DEF RecordError
<1>. QED BY <1>1, <1>2, NoneAssumption, SaveStateInv

\* The conditional UPDATE: a claim that wins takes the run the row names, and
\* every claim of the same seed lies before that run.
LEMMA ClaimRunInv ==
  ASSUME Recurrent, Inv, NEW r \in Replicas, ClaimRun(r)
  PROVE  Inv'
<1>1. CASE Rest(r) /\ ~Wins(r)
  BY <1>1, RestInv DEF ClaimRun, bounded, Inv, TypeOK
<1>2. CASE ~(Rest(r) /\ ~Wins(r))
  <2>. DEFINE c == [epoch |-> epoch, occ |-> due[r]]
              n == NextRun(seen[r], now[r])
              m == row.missed + Missed(seen[r], due[r], now[r])
  <2>1. /\ row # None /\ row.next = due[r] /\ due[r] \in Nat /\ row \in Row
        /\ now[r] \in 0 .. MaxTime /\ now[r] \in Nat /\ due[r] <= now[r]
        /\ seen[r] \in Exprs \ Invalid /\ now[r] <= clock /\ epoch \in Nat
        /\ clock \in Nat /\ pc[r] = "claiming" /\ claims \in Seq(Claim)
    <3>1. Wins(r)
      BY <1>2 DEF ClaimRun
    <3>2. clock \in Nat /\ now[r] \in Nat
      BY ConstantsAssumption DEF Inv, TypeOK
    <3>. QED BY <3>1, <3>2 DEF ClaimRun, Wins, Inv, TypeOK, LocalInv
  <2>2. n \in Nat /\ n > now[r]
    BY <2>1, NextRunLemma
  <2>3. m \in Nat
    <3>1. row.missed \in Nat
      BY <2>1 DEF Row
    <3>2. Missed(seen[r], due[r], now[r]) \in Nat
      BY <2>1, MissedLemma
    <3>. QED BY <3>1, <3>2
  <2>4. row' = [row EXCEPT !.next = n, !.missed = m]
    BY <1>2 DEF ClaimRun
  <2>5. claims' = Append(claims, c) /\ c \in Claim
    BY <1>2, <2>1 DEF ClaimRun, Claim
  <2>6. /\ pc' = [pc EXCEPT ![r] = "firing"]
        /\ UNCHANGED <<now, seen, due>>
    BY <1>2 DEF ClaimRun, Goto
  <2>7. UNCHANGED <<clock, expr, lock, jobs, since, seeded, epoch, overran, bounded>>
    BY DEF ClaimRun
  <2>. HIDE DEF n, m
  <2>8. row' \in Row /\ row' # None /\ row'.next = n
    BY <2>1, <2>2, <2>3, <2>4, NoneAssumption DEF Row
  <2>9. claims' \in Seq(Claim)
    BY <2>1, <2>5
  <2>10. TypeOK'
    BY <2>6, <2>7, <2>8, <2>9 DEF Inv, TypeOK, PC, jobs, bounded
  <2>11. ASSUME NEW q \in Replicas PROVE LocalInv(q)'
    BY <2>1, <2>6, <2>7 DEF Inv, TypeOK, LocalInv
  <2>. DEFINE last == Len(claims) + 1
  <2>12. /\ DOMAIN claims' = DOMAIN claims \cup {last}
         /\ DOMAIN claims = 1 .. Len(claims) /\ Len(claims) \in Nat
         /\ claims'[last] = c
         /\ \A i \in DOMAIN claims : claims'[i] = claims[i]
    BY <2>1, <2>5
  <2>13. \A i \in DOMAIN claims : claims[i].epoch \in Nat /\ claims[i].occ \in Nat
    BY <2>1, ClaimLemma
  <2>14. \A i \in DOMAIN claims : claims[i].epoch = epoch => claims[i].occ < due[r]
    BY <2>1, NoneAssumption DEF Inv, SeedInv
  <2>15. ~overran => \A i \in DOMAIN claims : claims[i].occ < due[r]
    BY <2>1, NoneAssumption DEF Inv, LockInv
  <2>16. c.epoch = epoch /\ c.occ = due[r]
    OBVIOUS
  <2>. HIDE DEF c, last
  <2>17. SeedInv'
    <3>1. \A i \in DOMAIN claims' : claims'[i].epoch <= epoch /\ claims'[i].occ <= clock
      BY <2>1, <2>12, <2>16 DEF Inv, SeedInv
    <3>2. \A i \in DOMAIN claims' : claims'[i].epoch = epoch => claims'[i].occ < n
      BY <2>1, <2>2, <2>12, <2>13, <2>14, <2>16
    <3>3. n # None
      BY <2>2, NoneAssumption
    <3>. QED BY <2>7, <2>8, <3>1, <3>2, <3>3 DEF SeedInv
  <2>18. LockInv'
    <3>. SUFFICES ASSUME ~overran' PROVE LockInv'
      BY DEF LockInv
    <3>1. ~overran
      BY <2>7
    <3>2. \A q \in Replicas : pc'[q] # "idle" => q = r
      BY <2>1, <2>6, <3>1 DEF Inv, TypeOK, LockInv
    <3>3. \A i \in DOMAIN claims' : claims'[i].occ <= now[r]
      BY <2>1, <2>12, <2>16, <3>1 DEF Inv, LockInv
    <3>4. \A i \in DOMAIN claims' : claims'[i].occ < n
      BY <2>1, <2>2, <2>12, <2>13, <2>15, <2>16, <3>1
    <3>5. lock # None
      BY <2>1, <3>1 DEF Inv, LockInv
    <3>. QED BY <2>6, <2>7, <2>8, <3>2, <3>3, <3>4, <3>5 DEF LockInv
  <2>19. ClaimedOncePerSeed'
    <3>. SUFFICES ASSUME NEW i \in DOMAIN claims', NEW k \in DOMAIN claims',
                         i < k, claims'[i].epoch = claims'[k].epoch
                  PROVE  claims'[i].occ < claims'[k].occ
      BY DEF ClaimedOncePerSeed
    <3>1. i \in DOMAIN claims
      BY <2>12 DEF last
    <3>2. CASE k \in DOMAIN claims
      BY <2>12, <3>1, <3>2 DEF Inv, ClaimedOncePerSeed
    <3>3. CASE k = last
      BY <2>12, <2>14, <2>16, <3>1, <3>3
    <3>. QED BY <2>12, <3>2, <3>3
  <2>20. ClaimedOnce'
    <3>. SUFFICES ASSUME ~overran', NEW i \in DOMAIN claims',
                         NEW k \in DOMAIN claims', i < k
                  PROVE  claims'[i].occ < claims'[k].occ
      BY DEF ClaimedOnce
    <3>1. i \in DOMAIN claims /\ ~overran
      BY <2>7, <2>12 DEF last
    <3>2. CASE k \in DOMAIN claims
      BY <2>12, <3>1, <3>2 DEF Inv, ClaimedOnce
    <3>3. CASE k = last
      BY <2>12, <2>15, <2>16, <3>1, <3>3
    <3>. QED BY <2>12, <3>2, <3>3
  <2>. QED BY <2>10, <2>11, <2>17, <2>18, <2>19, <2>20 DEF Inv
<1>. QED BY <1>1, <1>2

-----------------------------------------------------------------------------
(* The theorems.                                                           *)

LEMMA InitInv == Init => Inv
<1>. SUFFICES ASSUME Init PROVE Inv
  OBVIOUS
<1>1. TypeOK
  <2>1. 0 \in 0 .. MaxTime
    BY ConstantsAssumption
  <2>2. <<>> \in Seq(Nat) /\ <<>> \in Seq(Claim)
    OBVIOUS
  <2>. QED BY <2>1, <2>2 DEF Init, TypeOK, PC
<1>2. DOMAIN claims = {}
  BY DEF Init
<1>. QED BY <1>1, <1>2 DEF Inv, Init, LocalInv, SeedInv, LockInv,
                           ClaimedOncePerSeed, ClaimedOnce

LEMMA NextInv ==
  ASSUME Recurrent, Inv, [Next]_vars
  PROVE  Inv'
<1>1. ASSUME NEW r \in Replicas, Step(r) PROVE Inv'
  BY <1>1, TickInv, CollectInv, EvaluateInv, RecordErrorInv, SeedStepInv,
     ClaimRunInv, FireInv DEF Step
<1>2. ASSUME NEW r \in Replicas, Crash(r) PROVE Inv'
  <2>1. crashes' \in Nat
    BY <1>2 DEF Inv, TypeOK, Crash
  <2>. QED BY <1>2, <2>1, RestInv DEF Crash
<1>3. CASE UNCHANGED vars
  <2>1. TypeOK'
    BY <1>3 DEF Inv, TypeOK, vars
  <2>. QED BY <1>3, <2>1, NoStep DEF Inv, vars, local
<1>. QED BY <1>1, <1>2, <1>3, AroundInv, ExpireInv DEF Next

\* The invariant: claims of a seed lie before the next run the row names, and
\* while no tick outlives its lock all claims do (claim and saveState).
THEOREM InvTheorem ==
  ASSUME Recurrent
  PROVE  Spec => []Inv
<1>1. Init => Inv
  BY InitInv
<1>2. Inv /\ [Next]_vars => Inv'
  BY NextInv
<1>. QED BY <1>1, <1>2, PTL DEF Spec

\* Type correctness of cron_state's row and of the replicas' variables.
THEOREM TypeTheorem ==
  ASSUME Recurrent
  PROVE  Spec => []TypeOK
<1>1. Inv => TypeOK
  BY DEF Inv
<1>. QED BY <1>1, InvTheorem, PTL

\* The conditional UPDATE of claim does arbitrate: however many replicas run
\* the same tick on stale reads, an occurrence is claimed once between two
\* writes of saveState.
THEOREM ClaimedOncePerSeedTheorem ==
  ASSUME Recurrent
  PROVE  Spec => []ClaimedOncePerSeed
<1>1. Inv => ClaimedOncePerSeed
  BY DEF Inv
<1>. QED BY <1>1, InvTheorem, PTL

\* While ticks end before the lock of 55 seconds does, no occurrence is claimed
\* twice, through any edits of the schedule and any crashes.
THEOREM ClaimedOnceTheorem ==
  ASSUME Recurrent
  PROVE  Spec => []ClaimedOnce
<1>1. Inv => ClaimedOnce
  BY DEF Inv
<1>. QED BY <1>1, InvTheorem, PTL

-----------------------------------------------------------------------------
(* The row between two ticks, while ticks do not overlap.                  *)

\* A tick that is about to claim has the row before it that it has read.
RowInv ==
  ~overran =>
    /\ row # None /\ row.expr \notin Invalid => row.next \in Occurs[row.expr]
    /\ \A r \in Replicas :
         pc[r] = "claiming" => row # None /\ row.expr = seen[r] /\ row.next = due[r]

\* What lies between the seed and the next run, and what became of it.
Between(e, s, n) == {o \in Occurs[e] : s <= o /\ o < n}
Claims == {i \in DOMAIN claims : claims[i].epoch = epoch}

CountInv ==
  ~overran /\ row # None /\ row.next # None =>
    /\ seeded.next \in Nat /\ seeded.next <= row.next
    /\ IsFiniteSet(Claims)
    /\ Cardinality(Between(row.expr, seeded.next, row.next)) + seeded.missed
         = Cardinality(Claims) + row.missed

LEMMA BetweenFinite ==
  ASSUME NEW e \in Exprs, NEW s \in Nat, NEW n \in Nat
  PROVE  IsFiniteSet(Between(e, s, n)) /\ Cardinality(Between(e, s, n)) \in Nat
<1>1. Between(e, s, n) \subseteq 0 .. n
  BY ConstantsAssumption DEF Between
<1>2. IsFiniteSet(0 .. n)
  BY FS_Interval
<1>3. IsFiniteSet(Between(e, s, n))
  BY <1>1, <1>2, FS_Subset
<1>. QED BY <1>3, FS_CardinalityType

\* No schedule has more occurrences than decideCron counts.
UnderCap == \A e \in Exprs : Cardinality({o \in Occurs[e] : o <= MaxTime}) <= MissedCap

LEMMA MissedExact ==
  ASSUME UnderCap, NEW e \in Exprs, NEW d \in Nat, NEW t \in 0 .. MaxTime
  PROVE  /\ IsFiniteSet({o \in Occurs[e] : d < o /\ o <= t})
         /\ Missed(e, d, t) = Cardinality({o \in Occurs[e] : d < o /\ o <= t})
<1>. DEFINE S == {o \in Occurs[e] : d < o /\ o <= t}
            T == {o \in Occurs[e] : o <= MaxTime}
<1>1. t \in Nat /\ MaxTime \in Nat /\ t <= MaxTime /\ MissedCap \in Nat
  BY ConstantsAssumption
<1>2. Occurs[e] \subseteq Nat
  BY ConstantsAssumption
<1>3. S \subseteq T /\ T \subseteq 0 .. MaxTime
  BY <1>1, <1>2
<1>. HIDE DEF S, T
<1>4. IsFiniteSet(T) /\ IsFiniteSet(S)
  <2>1. IsFiniteSet(0 .. MaxTime)
    BY <1>1, FS_Interval
  <2>2. IsFiniteSet(T)
    BY <1>3, <2>1, FS_Subset
  <2>. QED BY <1>3, <2>2, FS_Subset
<1>5. Cardinality(S) \in Nat /\ Cardinality(T) \in Nat /\ Cardinality(S) <= Cardinality(T)
  BY <1>3, <1>4, FS_Subset, FS_CardinalityType
<1>6. Cardinality(T) <= MissedCap
  BY DEF UnderCap, T
<1>7. Cardinality(S) <= MissedCap
  BY <1>1, <1>5, <1>6
<1>8. Missed(e, d, t) = IF Cardinality(S) <= MissedCap THEN Cardinality(S) ELSE MissedCap + 1
  BY DEF Missed, S
<1>. QED BY <1>4, <1>7, <1>8 DEF S

\* A claim closes the gap up to its own time.
LEMMA BetweenClaim ==
  ASSUME Recurrent, UnderCap, NEW e \in Exprs \ Invalid, NEW s \in Nat, NEW d \in Occurs[e],
         NEW t \in 0 .. MaxTime, s <= d, d <= t
  PROVE  Cardinality(Between(e, s, NextRun(e, t)))
           = Cardinality(Between(e, s, d)) + Missed(e, d, t) + 1
<1>. DEFINE n == NextRun(e, t)
            M == {o \in Occurs[e] : d < o /\ o <= t}
            B == Between(e, s, d)
<1>1. /\ n \in Nat /\ n > t /\ \A q \in Occurs[e] : q > t => n <= q
      /\ Occurs[e] \subseteq Nat /\ d \in Nat /\ t \in Nat
  BY NextRunLemma, ConstantsAssumption
<1>2. Between(e, s, n) = (B \cup {d}) \cup M
  BY <1>1 DEF Between
<1>3. IsFiniteSet(B) /\ Cardinality(B) \in Nat /\ d \notin B
  BY <1>1, BetweenFinite DEF Between
<1>4. IsFiniteSet(B \cup {d}) /\ Cardinality(B \cup {d}) = Cardinality(B) + 1
  BY <1>3, FS_AddElement
<1>5. IsFiniteSet(M) /\ Missed(e, d, t) = Cardinality(M)
  BY <1>1, MissedExact
<1>6. (B \cup {d}) \cap M = {}
  BY <1>1 DEF Between
<1>. HIDE DEF B, M, n
<1>7. Cardinality((B \cup {d}) \cup M)
        = Cardinality(B \cup {d}) + Cardinality(M) - Cardinality((B \cup {d}) \cap M)
  BY <1>4, <1>5, FS_Union
<1>8. Cardinality((B \cup {d}) \cap M) = 0
  BY <1>6, FS_EmptySet
<1>9. Cardinality(M) \in Nat
  BY <1>5, FS_CardinalityType
<1>. QED BY <1>2, <1>3, <1>4, <1>5, <1>7, <1>8, <1>9 DEF B, n

-----------------------------------------------------------------------------
(* Steps.                                                                  *)

\* A step that leaves the row and the claims alone, and makes nobody claim.
LEMMA RowKept ==
  ASSUME UNCHANGED <<row, epoch, claims, seeded>>, overran => overran',
         \A r \in Replicas : pc'[r] = "claiming" =>
           \/ pc[r] = "claiming" /\ seen'[r] = seen[r] /\ due'[r] = due[r]
           \/ row # None /\ row.expr = seen'[r] /\ row.next = due'[r]
  PROVE  (RowInv => RowInv') /\ (CountInv => CountInv')
<1>1. RowInv => RowInv'
  BY DEF RowInv
<1>2. Claims' = Claims
  BY DEF Claims
<1>. QED BY <1>1, <1>2 DEF CountInv

LEMMA RowRest ==
  ASSUME Inv, NEW r \in Replicas, Rest(r),
         UNCHANGED <<row, epoch, claims, seeded, overran>>
  PROVE  (RowInv => RowInv') /\ (CountInv => CountInv')
<1>1. /\ pc'[r] = "idle"
      /\ \A q \in Replicas \ {r} : pc'[q] = pc[q] /\ seen'[q] = seen[q] /\ due'[q] = due[q]
  BY DEF Rest, Goto, Inv, TypeOK
<1>. QED BY <1>1, RowKept

\* Ticks up to the claim.
LEMMA RowTick ==
  ASSUME Inv, NEW r \in Replicas, Tick(r) \/ Collect(r) \/ Evaluate(r)
  PROVE  (RowInv => RowInv') /\ (CountInv => CountInv')
<1>1. UNCHANGED <<row, epoch, claims, seeded, overran>>
  BY DEF Tick, Collect, Evaluate
<1>2. CASE Rest(r)
  BY <1>1, <1>2, RowRest
<1>3. CASE ~Rest(r)
  <2>1. /\ \A q \in Replicas \ {r} : pc'[q] = pc[q] /\ seen'[q] = seen[q] /\ due'[q] = due[q]
        /\ pc'[r] = "claiming" => row # None /\ row.expr = seen'[r] /\ row.next = due'[r]
    <3>1. CASE Tick(r) \/ Collect(r)
      BY <1>3, <3>1 DEF Tick, Collect, Goto, Inv, TypeOK
    <3>2. CASE Evaluate(r)
      BY <1>3, <3>2 DEF Evaluate, Seeded, Goto, Inv, TypeOK
    <3>. QED BY <3>1, <3>2
  <2>. QED BY <1>1, <2>1, RowKept
<1>. QED BY <1>2, <1>3

LEMMA ClaimsFinite ==
  ASSUME Inv PROVE IsFiniteSet(Claims) /\ Cardinality(Claims) \in Nat
<1>1. DOMAIN claims = 1 .. Len(claims) /\ Len(claims) \in Nat
  BY DEF Inv, TypeOK
<1>2. Claims \subseteq 1 .. Len(claims)
  BY <1>1 DEF Claims
<1>3. IsFiniteSet(Claims)
  <2>1. IsFiniteSet(1 .. Len(claims))
    BY <1>1, FS_Interval
  <2>. QED BY <1>2, <2>1, FS_Subset
<1>. QED BY <1>3, FS_CardinalityType

\* A seed begins a new count.
LEMMA RowSave ==
  ASSUME Inv, NEW r \in Replicas, pc[r] # "idle", NEW e \in Exprs,
         NEW n \in Nat \cup {None}, e \notin Invalid => n \in Occurs[e],
         SaveState(e, n), Rest(r), UNCHANGED <<claims, overran>>
  PROVE  (RowInv => RowInv') /\ (CountInv => CountInv')
<1>. DEFINE missed == IF row = None THEN 0 ELSE row.missed
            new == [expr |-> e, next |-> n, missed |-> missed]
<1>1. /\ missed \in Nat /\ row' = new /\ new.expr = e /\ new.next = n /\ new.missed = missed
      /\ new \in Row
  BY DEF SaveState, Inv, TypeOK, Row
<1>2. /\ pc'[r] = "idle"
      /\ \A q \in Replicas \ {r} : pc'[q] = pc[q] /\ seen'[q] = seen[q] /\ due'[q] = due[q]
  BY DEF Rest, Goto, Inv, TypeOK
<1>3. CASE row = new
  <2>1. UNCHANGED <<row, epoch, seeded>>
    BY <1>1, <1>3 DEF SaveState
  <2>. QED BY <2>1, RowRest
<1>4. CASE row # new
  <2>1. epoch' = epoch + 1 /\ seeded' = [next |-> n, missed |-> missed]
    BY <1>4 DEF SaveState
  <2>2. ~overran => \A q \in Replicas : pc'[q] = "idle"
    BY <1>2 DEF Inv, LockInv
  <2>3. RowInv'
    BY <1>1, <2>2 DEF RowInv
  <2>4. \A i \in DOMAIN claims : claims[i].epoch <= epoch /\ claims[i].epoch \in Nat
        /\ epoch \in Nat
    BY ClaimLemma DEF Inv, TypeOK, SeedInv
  <2>5. Claims' = {}
    BY <2>1, <2>4 DEF Claims
  <2>6. ASSUME row'.next # None
        PROVE  /\ seeded'.next \in Nat /\ seeded'.next <= row'.next
               /\ IsFiniteSet(Claims')
               /\ Cardinality(Between(row'.expr, seeded'.next, row'.next)) + seeded'.missed
                    = Cardinality(Claims') + row'.missed
    <3>1. seeded'.next = n /\ row'.next = n /\ n \in Nat /\ row'.missed = missed
          /\ seeded'.missed = missed /\ row'.expr = e
      BY <1>1, <2>1, <2>6
    <3>2. Between(e, n, n) = {}
      BY <3>1, ConstantsAssumption DEF Between
    <3>3. Cardinality(Claims') = 0 /\ IsFiniteSet(Claims')
          /\ Cardinality(Between(row'.expr, seeded'.next, row'.next)) = 0
      BY <2>5, <3>1, <3>2, FS_EmptySet
    <3>. QED BY <1>1, <3>1, <3>3
  <2>. QED BY <2>3, <2>6 DEF CountInv
<1>. QED BY <1>3, <1>4

LEMMA Sums ==
  ASSUME NEW b \in Nat, NEW x \in Nat, NEW s \in Nat, NEW k \in Nat, NEW v \in Nat,
         NEW y, NEW j, NEW m, b + s = k + v, y = b + x + 1, j = k + 1, m = v + x
  PROVE  y + s = j + m
OBVIOUS

\* Under its lock a tick claims what it has read.
LEMMA RowClaim ==
  ASSUME Recurrent, Inv, RowInv, NEW r \in Replicas, ClaimRun(r)
  PROVE  /\ RowInv'
         /\ UnderCap /\ CountInv => CountInv'
<1>. SUFFICES ASSUME ~overran
              PROVE  /\ RowInv'
                     /\ UnderCap /\ CountInv => CountInv'
  BY DEF RowInv, CountInv, ClaimRun
<1>. DEFINE e == seen[r]
            d == due[r]
            n == NextRun(e, now[r])
            m == row.missed + Missed(e, d, now[r])
            c == [epoch |-> epoch, occ |-> d]
<1>1. /\ pc[r] = "claiming" /\ e \in Exprs \ Invalid /\ d \in Nat /\ now[r] \in 0 .. MaxTime
      /\ d <= now[r] /\ row # None /\ row.expr = e /\ row.next = d /\ row \in Row
      /\ row.missed \in Nat /\ epoch \in Nat /\ claims \in Seq(Claim) /\ now[r] \in Nat
      /\ seeded \in [next : Nat \cup {None}, missed : Nat]
  <2>1. /\ pc[r] = "claiming" /\ row # None /\ row.expr = e /\ row.next = d
    BY DEF ClaimRun, RowInv
  <2>2. row \in Row
    BY <2>1 DEF Inv, TypeOK
  <2>3. row.missed \in Nat
    BY <2>2 DEF Row
  <2>4. now[r] \in 0 .. MaxTime /\ now[r] \in Nat
    BY ConstantsAssumption DEF Inv, TypeOK
  <2>. QED BY <2>1, <2>2, <2>3, <2>4 DEF Inv, TypeOK, LocalInv
<1>2. Wins(r)
  BY <1>1 DEF Wins
<1>3. /\ row' = [row EXCEPT !.next = n, !.missed = m] /\ claims' = Append(claims, c)
      /\ pc' = [pc EXCEPT ![r] = "firing"]
      /\ UNCHANGED <<now, seen, due, seeded, epoch, overran>>
  BY <1>2 DEF ClaimRun, Goto
<1>4. n \in Nat /\ n > now[r] /\ n \in Occurs[e]
  BY <1>1, NextRunLemma
<1>5. Missed(e, d, now[r]) \in Nat
  BY <1>1, MissedLemma
<1>6. m \in Nat
  BY <1>1, <1>5
<1>. HIDE DEF n, m, e, d
<1>7. /\ row' # None /\ row'.expr = e /\ row'.next = n /\ row'.missed = m
  <2>1. row' \in Row /\ row'.expr = e /\ row'.next = n /\ row'.missed = m
    BY <1>1, <1>3, <1>4, <1>6 DEF Row
  <2>. QED BY <2>1, NoneAssumption
<1>8. \A q \in Replicas : pc'[q] # "claiming"
  BY <1>1, <1>3 DEF Inv, TypeOK, LockInv
<1>9. RowInv'
  BY <1>4, <1>7, <1>8 DEF RowInv
<1>10. ASSUME UnderCap, CountInv PROVE CountInv'
  <2>1. /\ seeded.next \in Nat /\ seeded.next <= d /\ IsFiniteSet(Claims)
        /\ Cardinality(Between(e, seeded.next, d)) + seeded.missed
             = Cardinality(Claims) + row.missed
    BY <1>1, <1>10, NoneAssumption DEF CountInv
  <2>2. d \in Occurs[e]
    BY <1>1 DEF RowInv
  <2>3. Cardinality(Between(e, seeded.next, n))
          = Cardinality(Between(e, seeded.next, d)) + Missed(e, d, now[r]) + 1
    BY <1>1, <1>10, <2>1, <2>2, BetweenClaim DEF n
  <2>. DEFINE last == Len(claims) + 1
  <2>4. /\ DOMAIN claims' = DOMAIN claims \cup {last} /\ last \notin DOMAIN claims
        /\ claims'[last].epoch = epoch
        /\ \A i \in DOMAIN claims : claims'[i] = claims[i]
    BY <1>1, <1>3
  <2>. HIDE DEF last
  <2>5. Claims' = Claims \cup {last} /\ last \notin Claims
    BY <1>3, <2>4 DEF Claims
  <2>6. IsFiniteSet(Claims') /\ Cardinality(Claims') = Cardinality(Claims) + 1
    BY <2>1, <2>5, FS_AddElement
  <2>7. Cardinality(Claims) \in Nat /\ Cardinality(Between(e, seeded.next, d)) \in Nat
    BY <1>1, <2>1, FS_CardinalityType, BetweenFinite
  <2>8. m = row.missed + Missed(e, d, now[r]) /\ seeded.missed \in Nat
    BY <1>1 DEF m, d, e
  <2>9. seeded.next <= n
    BY <1>1, <1>4, <2>1
  <2>10. Cardinality(Between(e, seeded.next, n)) + seeded.missed = Cardinality(Claims') + m
    <3>1. row.missed \in Nat
      BY <1>1
    <3>. QED BY <1>5, <2>1, <2>3, <2>6, <2>7, <2>8, <3>1, Sums
  <2>. QED BY <1>3, <1>7, <2>1, <2>6, <2>9, <2>10 DEF CountInv
<1>. QED BY <1>9, <1>10

LEMMA RowCountStep ==
  ASSUME Recurrent, Inv, [Next]_vars
  PROVE  /\ RowInv => RowInv'
         /\ UnderCap /\ RowInv /\ CountInv => CountInv'
<1>1. ASSUME NEW r \in Replicas, Tick(r) \/ Collect(r) \/ Evaluate(r)
      PROVE  (RowInv => RowInv') /\ (CountInv => CountInv')
  BY <1>1, RowTick
<1>2. ASSUME NEW r \in Replicas, Seed(r)
      PROVE  (RowInv => RowInv') /\ (CountInv => CountInv')
  <2>1. seen[r] \in Exprs \ Invalid /\ now[r] \in 0 .. MaxTime /\ pc[r] # "idle"
    BY <1>2 DEF Inv, TypeOK, LocalInv, Seed
  <2>. DEFINE n == NextRun(seen[r], now[r])
  <2>2. n \in Nat /\ n \in Occurs[seen[r]]
    BY <2>1, NextRunLemma
  <2>3. SaveState(seen[r], n) /\ Rest(r) /\ UNCHANGED <<claims, overran>>
    BY <1>2 DEF Seed
  <2>. HIDE DEF n
  <2>. QED BY <2>1, <2>2, <2>3, RowSave
<1>3. ASSUME NEW r \in Replicas, RecordError(r)
      PROVE  (RowInv => RowInv') /\ (CountInv => CountInv')
  <2>1. seen[r] \in Exprs /\ seen[r] \in Invalid /\ pc[r] # "idle"
    BY <1>3 DEF Inv, LocalInv, RecordError
  <2>2. SaveState(seen[r], None) /\ Rest(r) /\ UNCHANGED <<claims, overran>>
    BY <1>3 DEF RecordError
  <2>. QED BY <2>1, <2>2, RowSave
<1>4. ASSUME NEW r \in Replicas, ClaimRun(r)
      PROVE  /\ RowInv => RowInv'
             /\ UnderCap /\ RowInv /\ CountInv => CountInv'
  BY <1>4, RowClaim
<1>5. ASSUME NEW r \in Replicas, Fire(r) \/ Crash(r)
      PROVE  (RowInv => RowInv') /\ (CountInv => CountInv')
  <2>1. Rest(r) /\ UNCHANGED <<row, epoch, claims, seeded, overran>>
    BY <1>5 DEF Fire, Crash
  <2>. QED BY <2>1, RowRest
<1>6. CASE Consume \/ TimePasses \/ Expire \/ (\E e \in Exprs \cup {None} : Edit(e))
           \/ UNCHANGED vars
  <2>1. /\ UNCHANGED <<row, epoch, claims, seeded>> /\ UNCHANGED <<pc, seen, due>>
        /\ overran => overran'
    <3>1. CASE Consume \/ TimePasses \/ UNCHANGED vars
      BY <3>1 DEF Consume, TimePasses, vars, local
    <3>2. CASE Expire
      BY <3>2 DEF Expire, local
    <3>3. CASE \E e \in Exprs \cup {None} : Edit(e)
      BY <3>3 DEF Edit, local
    <3>. QED BY <1>6, <3>1, <3>2, <3>3
  <2>. QED BY <2>1, RowKept
<1>. QED BY <1>1, <1>2, <1>3, <1>4, <1>5, <1>6 DEF Next, Step

LEMMA RowCountInit == Init => RowInv /\ CountInv
BY DEF Init, RowInv, CountInv

\* While a tick ends before its lock does, the next run that cron_state names
\* is one of the schedule it stands beside: an edit between collect and the
\* claim leaves a row whose expression and next run still belong together
\* (saveState writes both, claim keeps the expression it was computed for).
THEOREM NextRunOnScheduleTheorem ==
  ASSUME Recurrent
  PROVE  Spec => []NextRunOnSchedule
<1>1. RowInv => NextRunOnSchedule
  BY DEF RowInv, NextRunOnSchedule
<1>2. Init => RowInv
  BY RowCountInit
<1>3. Inv /\ RowInv /\ [Next]_vars => RowInv'
  BY RowCountStep
<1>. QED BY <1>1, <1>2, <1>3, InvTheorem, PTL DEF Spec

\* And no run is lost count of: what lies between a seed and the next run was
\* claimed or is in missed_runs, whichever replicas died in between, for every
\* schedule that decideCron can count, that is with at most MissedCap runs.
THEOREM EveryRunCountedTheorem ==
  ASSUME Recurrent, UnderCap
  PROVE  Spec => []EveryRunCounted
<1>1. Inv /\ RowInv /\ CountInv => EveryRunCounted
  <2>. SUFFICES ASSUME Inv, CountInv, ~overran, row # None, row.next # None
                PROVE  Cardinality({o \in Occurs[row.expr] : seeded.next <= o /\ o < row.next})
                         = Cardinality({i \in DOMAIN claims : claims[i].epoch = epoch})
                           + row.missed - seeded.missed
    BY DEF EveryRunCounted
  <2>1. /\ row \in Row /\ seeded.missed \in Nat
    BY DEF Inv, TypeOK
  <2>2. /\ row.missed \in Nat /\ row.expr \in Exprs /\ row.next \in Nat
    BY <2>1 DEF Row
  <2>3. /\ seeded.next \in Nat
        /\ Cardinality(Between(row.expr, seeded.next, row.next)) + seeded.missed
             = Cardinality(Claims) + row.missed
    BY DEF CountInv
  <2>4. Cardinality(Between(row.expr, seeded.next, row.next)) \in Nat
        /\ Cardinality(Claims) \in Nat
    BY <2>2, <2>3, BetweenFinite, ClaimsFinite
  <2>5. Cardinality(Between(row.expr, seeded.next, row.next))
          = Cardinality(Claims) + row.missed - seeded.missed
    BY <2>1, <2>2, <2>3, <2>4
  <2>. QED BY <2>5 DEF Between, Claims
<1>2. Init => RowInv /\ CountInv
  BY RowCountInit
<1>3. Inv /\ RowInv /\ CountInv /\ [Next]_vars => RowInv' /\ CountInv'
  BY RowCountStep
<1>. QED BY <1>1, <1>2, <1>3, InvTheorem, PTL DEF Spec

-----------------------------------------------------------------------------
(***************************************************************************)
(* The deploy releases.                                                    *)
(***************************************************************************)

\* Jobs exist of created releases only, and so do rollbacks; and a worker's job
\* fits what the worker is doing.
JobInv ==
  /\ \A r \in Releases : r > created =>
       /\ ~Has(queue, r) /\ ~Has(stranded, r)
       /\ \A w \in Workers : Rel(w) # r
       /\ \A k \in Releases : origin[k] # r
  /\ \A w \in Workers :
       /\ Stage(w) = "stop" => Rel(w) = Teardown
       /\ Stage(w) \notin {"idle", "stop", "ack"} => Rel(w) \in Releases

TypeInv == ReleasesTypeOK /\ JobInv

----------------------------------------------------------------------------
(***************************************************************************)
(* Lists of jobs.                                                          *)
(***************************************************************************)

Contents(s) == {s[i] : i \in 1 .. Len(s)}

LEMMA HasContents ==
  ASSUME NEW s, NEW r
  PROVE  Has(s, r) <=> \E job \in Contents(s) : job.rel = r
BY DEF Has, Contents

\* A job that is appended is on the list, with those that were.
LEMMA ContentsAppend ==
  ASSUME NEW s \in Seq(Jobs), NEW job \in Jobs
  PROVE  /\ Append(s, job) \in Seq(Jobs)
         /\ Contents(Append(s, job)) = Contents(s) \cup {job}
<1>1. /\ Append(s, job) \in Seq(Jobs)
      /\ Len(Append(s, job)) = Len(s) + 1
      /\ Append(s, job)[Len(s) + 1] = job
      /\ \A i \in 1 .. Len(s) : Append(s, job)[i] = s[i]
      /\ Len(s) \in Nat
  BY AppendProperties, LenProperties
<1>2. 1 .. Len(s) + 1 = (1 .. Len(s)) \cup {Len(s) + 1}
  BY <1>1
<1>3. \A i \in 1 .. Len(s) : i # Len(s) + 1
  BY <1>1
<1> QED
  BY <1>1, <1>2, <1>3 DEF Contents

LEMMA HasAppend ==
  ASSUME NEW s \in Seq(Jobs), NEW job \in Jobs, NEW r
  PROVE  /\ Append(s, job) \in Seq(Jobs)
         /\ Has(Append(s, job), r) <=> (Has(s, r) \/ job.rel = r)
BY ContentsAppend, HasContents

\* Taking the head leaves what else is on the list.
LEMMA ContentsTail ==
  ASSUME NEW s \in Seq(Jobs), s # <<>>
  PROVE  /\ Head(s) \in Jobs /\ Tail(s) \in Seq(Jobs)
         /\ Contents(s) = Contents(Tail(s)) \cup {Head(s)}
<1>1. /\ Head(s) \in Jobs /\ Tail(s) \in Seq(Jobs)
      /\ Head(s) = s[1] /\ Len(s) \in Nat \ {0}
      /\ Len(Tail(s)) = Len(s) - 1
      /\ \A i \in 1 .. Len(s) - 1 : Tail(s)[i] = s[i + 1]
  BY HeadTailProperties, LenProperties, EmptySeq
<1>2. ASSUME NEW i \in 1 .. Len(s), i # 1
      PROVE  s[i] \in Contents(Tail(s))
  <2>1. i - 1 \in 1 .. Len(s) - 1 /\ Tail(s)[i - 1] = s[i]
    BY <1>1, <1>2
  <2> QED
    BY <1>1, <2>1 DEF Contents
<1>3. ASSUME NEW i \in 1 .. Len(Tail(s))
      PROVE  Tail(s)[i] \in Contents(s)
  <2>1. i + 1 \in 1 .. Len(s) /\ s[i + 1] = Tail(s)[i]
    BY <1>1
  <2> QED
    BY <2>1 DEF Contents
<1>4. Head(s) \in Contents(s)
  BY <1>1 DEF Contents
<1>5. Contents(s) \subseteq Contents(Tail(s)) \cup {Head(s)}
  BY <1>1, <1>2 DEF Contents
<1>6. Contents(Tail(s)) \subseteq Contents(s)
  BY <1>3 DEF Contents
<1> QED
  BY <1>1, <1>4, <1>5, <1>6

LEMMA HasTail ==
  ASSUME NEW s \in Seq(Jobs), s # <<>>, NEW r
  PROVE  /\ Head(s) \in Jobs /\ Tail(s) \in Seq(Jobs)
         /\ Has(s, r) <=> (Head(s).rel = r \/ Has(Tail(s), r))
BY ContentsTail, HasContents

\* A job is cut out of the list.
Without(s, i) == SubSeq(s, 1, i - 1) \o SubSeq(s, i + 1, Len(s))

LEMMA ContentsWithout ==
  ASSUME NEW s \in Seq(Jobs), NEW i \in 1 .. Len(s)
  PROVE  /\ s[i] \in Jobs /\ Without(s, i) \in Seq(Jobs)
         /\ Contents(s) = Contents(Without(s, i)) \cup {s[i]}
<1> DEFINE a == SubSeq(s, 1, i - 1)
           b == SubSeq(s, i + 1, Len(s))
<1>0. Len(s) \in Nat /\ i \in Nat /\ s[i] \in Jobs
  <2>1. Len(s) \in Nat
    BY LenProperties
  <2>2. s[i] \in Jobs
    BY ElementOfSeq
  <2> QED
    BY <2>1, <2>2
<1>1. /\ a \in Seq(Jobs) /\ Len(a) = i - 1
      /\ \A j \in 1 .. i - 1 : a[j] = s[j]
  BY <1>0, SubSeqProperties
<1>2. /\ b \in Seq(Jobs) /\ Len(b) = Len(s) - i
      /\ \A j \in 1 .. Len(s) - i : b[j] = s[i + j]
  BY <1>0, SubSeqProperties
<1>3. /\ a \o b \in Seq(Jobs) /\ Len(a \o b) = Len(s) - 1
      /\ \A j \in 1 .. i - 1 : (a \o b)[j] = s[j]
      /\ \A j \in i .. Len(s) - 1 : (a \o b)[j] = s[j + 1]
  <2>1. /\ a \o b \in Seq(Jobs) /\ Len(a \o b) = Len(a) + Len(b)
        /\ \A j \in 1 .. Len(a) + Len(b) : (a \o b)[j] = IF j <= Len(a) THEN a[j] ELSE b[j - Len(a)]
    BY <1>1, <1>2, ConcatProperties
  <2> HIDE DEF a, b
  <2>2. Len(a) + Len(b) = Len(s) - 1
    BY <1>0, <1>1, <1>2
  <2>3. ASSUME NEW j \in 1 .. i - 1 PROVE (a \o b)[j] = s[j]
    <3>1. j \in 1 .. Len(a) + Len(b) /\ j <= Len(a)
      BY <1>0, <1>1, <2>2
    <3> QED
      BY <1>1, <2>1, <3>1
  <2>4. ASSUME NEW j \in i .. Len(s) - 1 PROVE (a \o b)[j] = s[j + 1]
    <3>1. j \in 1 .. Len(a) + Len(b) /\ ~(j <= Len(a))
      BY <1>0, <1>1, <2>2
    <3>2. j - Len(a) \in 1 .. Len(s) - i /\ i + (j - Len(a)) = j + 1
      BY <1>0, <1>1
    <3> QED
      BY <1>2, <2>1, <3>1, <3>2
  <2> QED
    BY <2>1, <2>2, <2>3, <2>4
<1> HIDE DEF a, b
<1>4. ASSUME NEW j \in 1 .. Len(s), j # i
      PROVE  s[j] \in Contents(a \o b)
  <2>1. CASE j < i
    <3>1. j \in 1 .. i - 1 /\ j \in 1 .. Len(a \o b)
      BY <1>0, <1>3, <2>1
    <3> QED
      BY <1>3, <3>1 DEF Contents
  <2>2. CASE j > i
    <3>1. j - 1 \in i .. Len(s) - 1 /\ j - 1 \in 1 .. Len(a \o b) /\ j - 1 + 1 = j
      BY <1>0, <1>3, <2>2
    <3>2. (a \o b)[j - 1] = s[j]
      BY <1>3, <3>1
    <3> QED
      BY <3>1, <3>2 DEF Contents
  <2> QED
    BY <1>0, <1>4, <2>1, <2>2
<1>5. ASSUME NEW j \in 1 .. Len(a \o b)
      PROVE  (a \o b)[j] \in Contents(s)
  <2>1. CASE j < i
    <3>1. j \in 1 .. i - 1 /\ j \in 1 .. Len(s)
      BY <1>0, <1>3, <2>1
    <3> QED
      BY <1>3, <3>1 DEF Contents
  <2>2. CASE j >= i
    <3>1. j \in i .. Len(s) - 1 /\ j + 1 \in 1 .. Len(s)
      BY <1>0, <1>3, <2>2
    <3> QED
      BY <1>3, <3>1 DEF Contents
  <2> QED
    BY <1>0, <1>3, <2>1, <2>2
<1>6. Without(s, i) = a \o b
  BY DEF Without, a, b
<1>7. s[i] \in Contents(s)
  BY DEF Contents
<1>8. Contents(s) \subseteq Contents(a \o b) \cup {s[i]}
  BY <1>4 DEF Contents
<1>9. Contents(a \o b) \subseteq Contents(s)
  BY <1>5 DEF Contents
<1> QED
  BY <1>0, <1>3, <1>6, <1>7, <1>8, <1>9

LEMMA HasWithout ==
  ASSUME NEW s \in Seq(Jobs), NEW i \in 1 .. Len(s), NEW r
  PROVE  /\ s[i] \in Jobs /\ Without(s, i) \in Seq(Jobs)
         /\ Has(s, r) <=> (s[i].rel = r \/ Has(Without(s, i), r))
BY ContentsWithout, HasContents

----------------------------------------------------------------------------
(***************************************************************************)
(* Typing.                                                                 *)
(***************************************************************************)

LEMMA JobTypes ==
  /\ Teardown \in Releases \cup {Teardown} /\ 0 \in Releases \cup {0}
  /\ \A r \in Releases \cup {Teardown} : NewJob(r) \in Jobs
  /\ Idle \in Worker /\ NoSite \in Site
  /\ Idle.pc = "idle"
<1>1. 0 \in 0 .. MaxRetries - 1
  BY ReleasesAssumption
<1>2. \A r \in Releases \cup {Teardown} : NewJob(r) \in Jobs
  BY <1>1 DEF NewJob, Jobs
<1>3. Idle \in Worker
  BY <1>1 DEF Idle, Worker, PCs, Jobs
<1> QED
  BY <1>2, <1>3 DEF NoSite, Site, Idle

\* A worker that goes on keeps its job.
LEMMA GotoType ==
  ASSUME ReleasesTypeOK, NEW w \in Workers, NEW step \in PCs, Advance(w, step)
  PROVE  /\ worker' \in [Workers -> Worker]
         /\ worker'[w].pc = step /\ worker'[w].job = worker[w].job
         /\ worker'[w].leased = worker[w].leased
         /\ \A v \in Workers \ {w} : worker'[v] = worker[v]
<1>1. worker \in [Workers -> Worker]
  BY DEF ReleasesTypeOK
<1>2. worker' = [worker EXCEPT ![w].pc = step]
  BY DEF Advance
<1> QED
  BY <1>1, <1>2 DEF Worker

\* A step of one worker that moves jobs about, and invents none.
LEMMA JobInvStep ==
  ASSUME JobInv, NEW w \in Workers, origin' = origin, created' = created,
         \A r \in Releases : Has(queue', r) => Has(queue, r) \/ Rel(w) = r \/ Has(stranded, r),
         \A r \in Releases : Has(stranded', r) => Has(stranded, r) \/ Rel(w) = r,
         \A v \in Workers \ {w} : worker'[v] = worker[v],
         worker'[w].pc = "stop" => worker'[w].job.rel = Teardown,
         worker'[w].pc \notin {"idle", "stop", "ack"} => worker'[w].job.rel \in Releases,
         \A r \in Releases : worker'[w].job.rel = r => Rel(w) = r \/ Has(queue, r)
  PROVE  JobInv'
<1>1. \A v \in Workers \ {w} : Stage(v)' = Stage(v) /\ Rel(v)' = Rel(v)
  BY DEF Stage, Rel
<1>2. Stage(w)' = worker'[w].pc /\ Rel(w)' = worker'[w].job.rel
  BY DEF Stage, Rel
<1> QED
  BY <1>1, <1>2 DEF JobInv

\* A status that is written keeps the rows apart that are there and are not.
LEMMA WrittenType ==
  ASSUME ReleasesTypeOK, NEW r, NEW s \in Statuses \ {"none", "gone"},
         r \in Releases => status[r] # "none",
         status' = Written(r, s), created' = created, target' = target
  PROVE  /\ status' \in [Releases -> Statuses]
         /\ \A k \in Releases :
              /\ status'[k] = "none" <=> k > created'
              /\ k <= created' => (status'[k] = "gone" <=> target' = "deleted")
<1>1. status \in [Releases -> Statuses]
  BY DEF ReleasesTypeOK
<1>2. \A k \in Releases : status'[k] = IF k = r /\ status[k] # "gone" THEN s ELSE status[k]
  BY <1>1 DEF Written
<1>3. status' \in [Releases -> Statuses]
  BY <1>1 DEF Written
<1> QED
  BY <1>1, <1>2, <1>3 DEF ReleasesTypeOK

LEMMA RequeueType ==
  ASSUME ReleasesTypeOK, NEW job \in Jobs, Requeue(job)
  PROVE  /\ queue' \in Seq(Jobs) /\ dlq' \subseteq Releases \cup {Teardown}
         /\ dlq \subseteq dlq'
         /\ \A r : Has(queue, r) => Has(queue', r)
         /\ \A r : Has(queue', r) => Has(queue, r) \/ job.rel = r
         /\ Has(queue', job.rel) \/ job.rel \in dlq'
<1> DEFINE again == [job EXCEPT !.retries = @ + 1]
<1>1. queue \in Seq(Jobs) /\ dlq \subseteq Releases \cup {Teardown} /\ MaxRetries \in Nat
  BY ReleasesAssumption DEF ReleasesTypeOK
<1>2. CASE job.retries + 1 < MaxRetries
  <2>1. again \in Jobs /\ again.rel = job.rel
    <3>1. job.retries + 1 \in 0 .. MaxRetries - 1
      <4>1. job.retries \in 0 .. MaxRetries - 1
        BY DEF Jobs
      <4> QED
        BY <1>1, <1>2, <4>1
    <3>2. job \in [rel : Releases \cup {Teardown}, retries : 0 .. MaxRetries - 1]
      BY DEF Jobs
    <3>3. /\ again \in [rel : Releases \cup {Teardown}, retries : 0 .. MaxRetries - 1]
          /\ again.rel = job.rel
      BY <3>1, <3>2
    <3> QED
      BY <3>3 DEF Jobs
  <2>2. queue' = Append(queue, again) /\ dlq' = dlq
    BY <1>2 DEF Requeue
  <2> HIDE DEF again
  <2> QED
    BY <1>1, <2>1, <2>2, HasAppend
<1>3. CASE ~(job.retries + 1 < MaxRetries)
  <2>1. dlq' = dlq \cup {job.rel} /\ queue' = queue
    BY <1>3 DEF Requeue
  <2>2. job.rel \in Releases \cup {Teardown}
    BY DEF Jobs
  <2> QED
    BY <1>1, <2>1, <2>2
<1> QED
  BY <1>2, <1>3

\* What ReleasesTypeOK says of the rows.
RowsOK ==
  /\ status \in [Releases -> Statuses]
  /\ \A r \in Releases :
       /\ status[r] = "none" <=> r > created
       /\ r <= created => (status[r] = "gone" <=> target = "deleted")

\* The release of a job, and the one that a rollback is of, have a row.
LEMMA RelCreated ==
  ASSUME TypeInv, NEW w \in Workers
  PROVE  /\ Rel(w) \in Releases => status[Rel(w)] # "none"
         /\ Rel(w) \in Releases /\ origin[Rel(w)] \in Releases => status[origin[Rel(w)]] # "none"
         /\ worker[w].job \in Jobs /\ Rel(w) \in Releases \cup {Teardown}
<1>1. worker[w] \in Worker
  BY DEF TypeInv, ReleasesTypeOK
<1>2. worker[w].job \in Jobs /\ Rel(w) \in Releases \cup {Teardown}
  BY <1>1 DEF Worker, Jobs, Rel
<1> QED
  BY <1>2 DEF TypeInv, ReleasesTypeOK, JobInv

\* A worker goes on to step, and what it does meanwhile is typed.
LEMMA GotoInv ==
  ASSUME TypeInv, NEW w \in Workers, NEW step \in PCs \ {"idle", "stop"}, Advance(w, step),
         step # "ack" => Stage(w) \notin {"idle", "stop", "ack"},
         UNCHANGED <<target, created, origin, queue, stranded, dlq>>,
         RowsOK', site' \in Site, images' \subseteq Releases,
         unpushed' \subseteq Releases, orphaned' \in BOOLEAN, faults' \in 0 .. MaxFaults
  PROVE  TypeInv'
<1>1. /\ worker' \in [Workers -> Worker]
      /\ worker'[w].pc = step /\ worker'[w].job = worker[w].job
      /\ \A v \in Workers \ {w} : worker'[v] = worker[v]
  BY GotoType DEF TypeInv
<1>2. ReleasesTypeOK'
  BY <1>1 DEF TypeInv, ReleasesTypeOK, RowsOK
<1>3. JobInv'
  <2>1. worker'[w].pc \notin {"idle", "stop", "ack"} => worker'[w].job.rel \in Releases
    BY <1>1 DEF TypeInv, JobInv, Rel
  <2>2. \A r \in Releases : Has(queue', r) <=> Has(queue, r)
    BY DEF Has
  <2>3. \A r \in Releases : Has(stranded', r) <=> Has(stranded, r)
    BY DEF Has
  <2>4. worker'[w].job.rel = Rel(w)
    BY <1>1 DEF Rel
  <2> QED
    BY <1>1, <2>1, <2>2, <2>3, <2>4, JobInvStep DEF TypeInv
<1> QED
  BY <1>2, <1>3 DEF TypeInv

\* A worker writes the status of its release or of the original, and goes on.
LEMMA WriteInv ==
  ASSUME TypeInv, NEW w \in Workers, NEW step \in PCs \ {"idle", "stop"}, Advance(w, step),
         Stage(w) \notin {"idle", "stop", "ack"},
         NEW r \in {Rel(w), origin[Rel(w)]}, NEW s \in Statuses \ {"none", "gone"},
         status' = Written(r, s),
         UNCHANGED <<target, created, origin, lists, docker, history, faults>>
  PROVE  TypeInv'
<1>1. Rel(w) \in Releases
  BY DEF TypeInv, JobInv
<1>2. r \in Releases => status[r] # "none"
  BY <1>1, RelCreated
<1>3. RowsOK'
  BY <1>2, WrittenType DEF TypeInv, RowsOK
<1> QED
  BY <1>3, GotoInv DEF TypeInv, ReleasesTypeOK, lists, docker, history

\* A worker is idle again, and its job is on a list, or done.
LEMMA ResetInv ==
  ASSUME TypeInv, NEW w \in Workers, worker' = [worker EXCEPT ![w] = Idle],
         UNCHANGED <<rows, docker, history>>,
         queue' \in Seq(Jobs), stranded' \in Seq(Jobs), dlq' \subseteq Releases \cup {Teardown},
         faults' \in 0 .. MaxFaults,
         \A r \in Releases : Has(queue', r) => Has(queue, r) \/ Rel(w) = r,
         \A r \in Releases : Has(stranded', r) => Has(stranded, r) \/ Rel(w) = r
  PROVE  TypeInv'
<1>1. /\ worker' \in [Workers -> Worker] /\ worker'[w] = Idle
      /\ \A v \in Workers \ {w} : worker'[v] = worker[v]
  BY JobTypes DEF TypeInv, ReleasesTypeOK
<1>2. ReleasesTypeOK'
  BY <1>1 DEF TypeInv, ReleasesTypeOK, rows, docker, history
<1>3. \A r \in Releases : worker'[w].job.rel # r /\ worker'[w].pc = "idle"
  BY <1>1 DEF Idle, Releases, Teardown
<1>4. worker'[w].pc = "idle"
  BY <1>1 DEF Idle
<1>5. JobInv'
  BY <1>1, <1>3, <1>4, JobInvStep DEF TypeInv, rows
<1> QED
  BY <1>2, <1>5 DEF TypeInv

LEMMA ReleasesInitInv == ReleasesInit => TypeInv
<1> SUFFICES ASSUME ReleasesInit PROVE TypeInv
  OBVIOUS
<1>1. <<>> \in Seq(Jobs) /\ \A r : ~Has(<<>>, r)
  BY EmptySeq DEF Has
<1>2. ReleasesTypeOK
  <2>1. /\ status \in [Releases -> Statuses]
        /\ \A r \in Releases : status[r] = "none" /\ r > 0
    BY DEF ReleasesInit, Statuses, Releases
  <2>2. origin \in [Releases -> Releases \cup {0}]
    BY DEF ReleasesInit
  <2>3. worker \in [Workers -> Worker]
    BY JobTypes DEF ReleasesInit
  <2>4. created \in 0 .. MaxReleases /\ faults \in 0 .. MaxFaults /\ created = 0
    BY ReleasesAssumption DEF ReleasesInit
  <2>5. \A r \in Releases : ~(r <= created)
    BY <2>1, <2>4 DEF Releases
  <2>6. target \in {"live", "deleted"} /\ orphaned \in BOOLEAN
    BY DEF ReleasesInit
  <2>7. /\ queue \in Seq(Jobs) /\ stranded \in Seq(Jobs) /\ dlq = {} /\ images = {} /\ unpushed = {}
        /\ site \in Site
    BY <1>1, JobTypes DEF ReleasesInit
  <2> QED
    BY <2>1, <2>2, <2>3, <2>4, <2>5, <2>6, <2>7 DEF ReleasesTypeOK
<1>3. JobInv
  BY <1>1 DEF ReleasesInit, JobInv, Stage, Rel, Idle, Teardown, Releases
<1> QED
  BY <1>2, <1>3 DEF TypeInv

LEMMA NewReleaseInv ==
  ASSUME TypeInv, NEW from \in Releases \cup {0}, from <= created, NewRelease(from)
  PROVE  TypeInv'
<1> DEFINE n == created + 1
<1>1. created \in 0 .. MaxReleases /\ MaxReleases \in Nat /\ n \in Releases /\ created' = n
  BY ReleasesAssumption DEF TypeInv, ReleasesTypeOK, NewRelease, Releases
<1>2. NewJob(n) \in Jobs /\ NewJob(n).rel = n
  BY <1>1, JobTypes DEF NewJob
<1>3. queue \in Seq(Jobs)
  BY DEF TypeInv, ReleasesTypeOK
<1>4. /\ queue' \in Seq(Jobs)
      /\ \A r : Has(queue', r) => Has(queue, r) \/ r = n
  <2>1. CASE queue' = Append(queue, NewJob(n))
    BY <1>2, <1>3, <2>1, HasAppend
  <2>2. CASE queue' = queue
    BY <1>3, <2>2
  <2> QED
    BY <2>1, <2>2 DEF NewRelease
<1>5. /\ status' = [status EXCEPT ![n] = "pending"]
      /\ origin' = [origin EXCEPT ![n] = from]
      /\ target = "live" /\ UNCHANGED <<target, stranded, dlq, worker, docker, orphaned>>
  BY DEF NewRelease
<1>6. RowsOK'
  <2>1. /\ status' \in [Releases -> Statuses]
        /\ \A r \in Releases : status'[r] = IF r = n THEN "pending" ELSE status[r]
    BY <1>1, <1>5 DEF TypeInv, ReleasesTypeOK, Statuses
  <2>2. \A r \in Releases : r > created' <=> r > created /\ r # n
    BY <1>1 DEF Releases
  <2>3. target' = "live"
    BY <1>5
  <2>4. ASSUME NEW r \in Releases
        PROVE  /\ status'[r] = "none" <=> r > created'
               /\ status'[r] # "gone"
    <3>1. status[r] = "none" <=> r > created
      BY DEF TypeInv, ReleasesTypeOK
    <3>2. r <= created => status[r] # "gone"
      BY <1>5 DEF TypeInv, ReleasesTypeOK
    <3>3. ~(r <= created) => r > created
      BY <1>1 DEF Releases
    <3> QED
      BY <2>1, <2>2, <3>1, <3>2, <3>3
  <2> QED
    BY <2>1, <2>3, <2>4 DEF RowsOK
<1>7. ReleasesTypeOK'
  <2>1. unpushed' \subseteq Releases /\ faults' \in 0 .. MaxFaults
    BY <1>1, ReleasesAssumption DEF TypeInv, ReleasesTypeOK, NewRelease, Fault
  <2>2. origin' \in [Releases -> Releases \cup {0}]
    BY <1>5 DEF TypeInv, ReleasesTypeOK
  <2>3. created' \in 0 .. MaxReleases
    BY <1>1 DEF Releases
  <2> QED
    BY <1>4, <1>5, <1>6, <2>1, <2>2, <2>3 DEF TypeInv, ReleasesTypeOK, RowsOK, docker
<1>8. JobInv'
  <2>1. ASSUME NEW r \in Releases, r > created'
        PROVE  /\ ~Has(queue', r) /\ ~Has(stranded', r)
               /\ \A w \in Workers : Rel(w)' # r
               /\ \A k \in Releases : origin'[k] # r
    <3>1. r > created /\ r # n /\ from # r
      BY <1>1, <2>1 DEF Releases
    <3>2. \A k \in Releases : origin'[k] \in {origin[k], from}
      BY <1>5 DEF TypeInv, ReleasesTypeOK
    <3> QED
      BY <1>4, <1>5, <3>1, <3>2 DEF TypeInv, JobInv, Rel
  <2> QED
    BY <1>5, <2>1 DEF TypeInv, JobInv, Stage, Rel
<1> QED
  BY <1>7, <1>8 DEF TypeInv

LEMMA RollbackReleaseInv ==
  ASSUME TypeInv, NEW r \in Releases, RollbackRelease(r)
  PROVE  TypeInv'
<1>1. r <= created
  BY DEF TypeInv, ReleasesTypeOK, RollbackRelease, Releases
<1> QED
  BY <1>1, NewReleaseInv DEF RollbackRelease

LEMMA TriggerPipelineInv ==
  ASSUME TypeInv, TriggerPipeline \/ OpenPullRequest
  PROVE  TypeInv'
<1>1. 0 <= created
  BY DEF TypeInv, ReleasesTypeOK
<1> QED
  BY <1>1, NewReleaseInv DEF TriggerPipeline, OpenPullRequest

\* A step that changes a status and nothing else.
LEMMA StatusInv ==
  ASSUME TypeInv, RowsOK', UNCHANGED <<target, created, origin, lists, worker, docker, history, faults>>
  PROVE  TypeInv'
  BY DEF TypeInv, ReleasesTypeOK, RowsOK, JobInv, Has, Stage, Rel, lists, docker, history

LEMMA DestroyPreviewReleaseInv ==
  ASSUME TypeInv, NEW r \in Releases, DestroyPreviewRelease(r)
  PROVE  TypeInv'
<1>1. /\ status' = [status EXCEPT ![r] = "destroyed"] /\ status[r] \notin {"none", "gone"}
      /\ UNCHANGED <<target, created, origin, lists, worker, docker, history, faults>>
  BY DEF DestroyPreviewRelease
<1>2. RowsOK'
  BY <1>1 DEF TypeInv, ReleasesTypeOK, RowsOK, Statuses
<1> QED
  BY <1>1, <1>2, StatusInv

LEMMA ClosePullRequestInv ==
  ASSUME TypeInv, ClosePullRequest
  PROVE  TypeInv'
<1>1. PICK open \in SUBSET Releases :
        /\ \A r \in open : status[r] \notin {"none", "gone"}
        /\ status' = [r \in Releases |-> IF r \in open THEN "destroyed" ELSE status[r]]
  BY DEF ClosePullRequest
<1>2. UNCHANGED <<target, created, origin, lists, worker, docker, history, faults>>
  BY DEF ClosePullRequest
<1>3. RowsOK'
  BY <1>1, <1>2 DEF TypeInv, ReleasesTypeOK, RowsOK, Statuses
<1> QED
  BY <1>2, <1>3, StatusInv

LEMMA SweepStaleReleasesInv ==
  ASSUME TypeInv, NEW r \in Releases, SweepStaleReleases(r)
  PROVE  TypeInv'
<1>1. /\ status' = Written(r, "failed") /\ status[r] # "none"
      /\ UNCHANGED <<target, created, origin, lists, worker, docker, history, faults>>
  BY DEF SweepStaleReleases, Stale
<1>2. RowsOK'
  BY <1>1, WrittenType DEF TypeInv, RowsOK, Statuses
<1> QED
  BY <1>1, <1>2, StatusInv

LEMMA DeleteTargetInv ==
  ASSUME TypeInv, DeleteTarget
  PROVE  TypeInv'
<1>1. /\ target' = "deleted" /\ orphaned' \in BOOLEAN /\ faults' \in 0 .. MaxFaults
      /\ UNCHANGED <<created, origin, stranded, dlq, worker, docker, unpushed>>
  <2>1. orphaned' \in BOOLEAN
    BY DEF DeleteTarget, TypeInv, ReleasesTypeOK
  <2>2. faults' \in 0 .. MaxFaults
    BY ReleasesAssumption DEF DeleteTarget, TypeInv, ReleasesTypeOK, Fault
  <2> QED
    BY <2>1, <2>2 DEF DeleteTarget
<1>2. RowsOK'
  BY DEF TypeInv, ReleasesTypeOK, RowsOK, DeleteTarget, Statuses, Releases
<1>3. queue \in Seq(Jobs)
  BY DEF TypeInv, ReleasesTypeOK
<1>4. NewJob(Teardown) \in Jobs /\ NewJob(Teardown).rel = Teardown
  BY JobTypes DEF NewJob
<1>5. /\ queue' \in Seq(Jobs)
      /\ \A r \in Releases : Has(queue', r) => Has(queue, r)
  <2>1. CASE queue' = Append(queue, NewJob(Teardown))
    BY <1>3, <1>4, <2>1, HasAppend DEF Releases, Teardown
  <2>2. CASE queue' = queue
    BY <1>3, <2>2
  <2> QED
    BY <2>1, <2>2 DEF DeleteTarget
<1> QED
  BY <1>1, <1>2, <1>5 DEF TypeInv, ReleasesTypeOK, RowsOK, JobInv, Stage, Rel, docker

LEMMA TakeInv ==
  ASSUME TypeInv, NEW w \in Workers, Take(w)
  PROVE  TypeInv'
<1> DEFINE job == Head(queue)
           step == IF job.rel = Teardown THEN "stop" ELSE "begin"
<1>1. /\ queue \in Seq(Jobs) /\ queue # <<>> /\ queue' = Tail(queue)
      /\ worker' = [worker EXCEPT ![w] = [pc |-> step, job |-> job, leased |-> TRUE]]
      /\ UNCHANGED <<rows, stranded, dlq, docker, history, faults>>
  BY DEF TypeInv, ReleasesTypeOK, Take
<1>2. /\ job \in Jobs /\ queue' \in Seq(Jobs)
      /\ \A r : Has(queue, r) <=> (job.rel = r \/ Has(queue', r))
  BY <1>1, HasTail
<1>3. /\ step \in {"stop", "begin"} /\ (step = "stop" => job.rel = Teardown)
      /\ step = "begin" => job.rel \in Releases
  BY <1>2 DEF Jobs
<1> HIDE DEF job, step
<1>4. /\ worker' \in [Workers -> Worker]
      /\ worker'[w].pc = step /\ worker'[w].job = job
      /\ \A v \in Workers \ {w} : worker'[v] = worker[v]
  <2>1. [pc |-> step, job |-> job, leased |-> TRUE] \in Worker
    BY <1>2, <1>3 DEF Worker, PCs
  <2> QED
    BY <1>1, <2>1 DEF TypeInv, ReleasesTypeOK
<1>5. ReleasesTypeOK'
  BY <1>1, <1>2, <1>4 DEF TypeInv, ReleasesTypeOK, rows, docker, history
<1>6. JobInv'
  <2>1. \A r \in Releases : worker'[w].job.rel = r => Has(queue, r)
    BY <1>2, <1>4
  <2>2. \A r \in Releases : Has(stranded', r) => Has(stranded, r)
    BY <1>1
  <2> QED
    BY <1>1, <1>2, <1>3, <1>4, <2>1, <2>2, JobInvStep DEF TypeInv, rows
<1> QED
  BY <1>5, <1>6 DEF TypeInv

LEMMA BeginInv ==
  ASSUME TypeInv, NEW w \in Workers, Begin(w)
  PROVE  TypeInv'
<1> DEFINE s == IF IsRollback(w) THEN "deploying" ELSE "building"
<1>1. s \in Statuses \ {"none", "gone"} /\ "load" \in PCs \ {"idle", "stop"}
  BY DEF Statuses, PCs
<1> QED
  BY <1>1, WriteInv DEF Begin

LEMMA MarkOriginalInv ==
  ASSUME TypeInv, NEW w \in Workers, MarkOriginal(w)
  PROVE  TypeInv'
<1>1. "rolled_back" \in Statuses \ {"none", "gone"} /\ "record" \in PCs \ {"idle", "stop"}
  BY DEF Statuses, PCs
<1> QED
  BY <1>1, WriteInv DEF MarkOriginal

LEMMA RecordInv ==
  ASSUME TypeInv, NEW w \in Workers, Record(w)
  PROVE  TypeInv'
<1>1. "success" \in Statuses \ {"none", "gone"} /\ "reap" \in PCs \ {"idle", "stop"}
  BY DEF Statuses, PCs
<1> QED
  BY <1>1, WriteInv DEF Record

LEMMA FailInv ==
  ASSUME TypeInv, NEW w \in Workers, Fail(w)
  PROVE  TypeInv'
<1>1. "failed" \in Statuses \ {"none", "gone"} /\ "nack" \in PCs \ {"idle", "stop"}
  BY DEF Statuses, PCs
<1> QED
  BY <1>1, WriteInv DEF Fail

\* A worker goes on and leaves the rows alone.
LEMMA QuietGotoInv ==
  ASSUME TypeInv, NEW w \in Workers, NEW step \in PCs \ {"idle", "stop"}, Advance(w, step),
         step # "ack" => Stage(w) \notin {"idle", "stop", "ack"},
         UNCHANGED <<rows, lists>>, site' \in Site, images' \subseteq Releases,
         unpushed' \subseteq Releases, orphaned' \in BOOLEAN, faults' \in 0 .. MaxFaults
  PROVE  TypeInv'
<1>1. RowsOK'
  BY DEF TypeInv, ReleasesTypeOK, RowsOK, rows
<1> QED
  BY <1>1, GotoInv DEF rows, lists

LEMMA LoadInv ==
  ASSUME TypeInv, NEW w \in Workers, Load(w)
  PROVE  TypeInv'
<1>1. /\ Stage(w) = "load" /\ "build" \in PCs \ {"idle", "stop"} /\ "fail" \in PCs \ {"idle", "stop"}
      /\ UNCHANGED <<target, created, origin, lists, docker, history, faults>>
  BY DEF Load, PCs
<1>2. CASE status' = Written(Rel(w), "deploying") /\ Advance(w, "build")
  <2>1. "deploying" \in Statuses \ {"none", "gone"}
    BY DEF Statuses
  <2> QED
    BY <1>1, <1>2, <2>1, WriteInv
<1>3. ASSUME NEW step \in {"build", "fail"}, UNCHANGED status, Advance(w, step)
      PROVE  TypeInv'
  BY <1>1, <1>3, QuietGotoInv DEF TypeInv, ReleasesTypeOK, rows, docker, history
<1> QED
  BY <1>2, <1>3 DEF Load

LEMMA BuildInv ==
  ASSUME TypeInv, NEW w \in Workers, Build(w)
  PROVE  TypeInv'
<1>1. PICK step \in {"create", "fail"} : Advance(w, step)
  BY DEF Build
<1>2. step \in PCs \ {"idle", "stop"}
  BY DEF PCs
<1>3. images' \subseteq Releases
  BY DEF Build, TypeInv, ReleasesTypeOK, JobInv
<1> QED
  BY <1>1, <1>2, <1>3, QuietGotoInv DEF Build, TypeInv, ReleasesTypeOK, history

LEMMA ClearInv ==
  ASSUME TypeInv, NEW w \in Workers, Clear(w)
  PROVE  TypeInv'
<1>1. site' = NoSite /\ UNCHANGED <<rows, lists, worker, images, history, faults>>
  BY DEF Clear
<1>2. ReleasesTypeOK'
  BY <1>1, JobTypes DEF TypeInv, ReleasesTypeOK, rows, lists, history
<1>3. JobInv'
  BY <1>1 DEF TypeInv, JobInv, Has, Stage, Rel, rows, lists
<1> QED
  BY <1>2, <1>3 DEF TypeInv

LEMMA CreateInv ==
  ASSUME TypeInv, NEW w \in Workers, Create(w)
  PROVE  TypeInv'
<1>1. PICK step \in {"probe", "fail"} : Advance(w, step)
  BY DEF Create
<1>2. step \in PCs \ {"idle", "stop"}
  BY DEF PCs
<1>3. site' \in Site
  BY DEF Create, TypeInv, ReleasesTypeOK, JobInv, Site
<1> QED
  BY <1>1, <1>2, <1>3, QuietGotoInv DEF Create, TypeInv, ReleasesTypeOK, history

LEMMA ProbeInv ==
  ASSUME TypeInv, NEW w \in Workers, Probe(w)
  PROVE  TypeInv'
<1>1. PICK step \in {"original", "record", "fail"} : Advance(w, step)
  BY DEF Probe
<1>2. step \in PCs \ {"idle", "stop"}
  BY DEF PCs
<1> QED
  BY <1>1, <1>2, QuietGotoInv DEF Probe, TypeInv, ReleasesTypeOK, docker, history

LEMMA ReapImagesInv ==
  ASSUME TypeInv, NEW w \in Workers, ReapImages(w)
  PROVE  TypeInv'
<1>1. "ack" \in PCs \ {"idle", "stop"}
  BY DEF PCs
<1>2. images' \subseteq Releases
  BY DEF ReapImages, TypeInv, ReleasesTypeOK
<1> QED
  BY <1>1, <1>2, QuietGotoInv DEF ReapImages, TypeInv, ReleasesTypeOK, history

LEMMA StopInv ==
  ASSUME TypeInv, NEW w \in Workers, Stop(w)
  PROVE  TypeInv'
<1>1. "ack" \in PCs \ {"idle", "stop"}
  BY DEF PCs
<1> QED
  BY <1>1, JobTypes, QuietGotoInv DEF Stop, TypeInv, ReleasesTypeOK, history

LEMMA StopFailsInv ==
  ASSUME TypeInv, NEW w \in Workers, StopFails(w)
  PROVE  TypeInv'
<1>1. "ack" \in PCs \ {"idle", "stop"}
  BY DEF PCs
<1>2. faults' \in 0 .. MaxFaults
  BY ReleasesAssumption DEF StopFails, Fault, TypeInv, ReleasesTypeOK
<1>3. orphaned' \in BOOLEAN
  BY DEF StopFails
<1> QED
  BY <1>1, <1>2, <1>3, QuietGotoInv DEF StopFails, TypeInv, ReleasesTypeOK, docker

LEMMA WriteFailsInv ==
  ASSUME TypeInv, NEW w \in Workers, WriteFails(w)
  PROVE  TypeInv'
<1>1. /\ AfterWrite[Stage(w)] \in PCs \ {"idle", "stop"}
      /\ Stage(w) \notin {"idle", "stop", "ack"}
  BY DEF WriteFails, AfterWrite, PCs
<1>2. faults' \in 0 .. MaxFaults
  BY ReleasesAssumption DEF WriteFails, Fault, TypeInv, ReleasesTypeOK
<1>3. Advance(w, AfterWrite[Stage(w)]) /\ UNCHANGED <<rows, lists, docker, history>>
  BY DEF WriteFails
<1> QED
  BY <1>1, <1>2, <1>3, QuietGotoInv DEF TypeInv, ReleasesTypeOK, docker, history

LEMMA AckInv ==
  ASSUME TypeInv, NEW w \in Workers, Ack(w)
  PROVE  TypeInv'
<1>1. \A r \in Releases : (Has(queue', r) <=> Has(queue, r)) /\ (Has(stranded', r) <=> Has(stranded, r))
  BY DEF Ack, lists, Has
<1> QED
  BY <1>1, ResetInv DEF Ack, TypeInv, ReleasesTypeOK, lists

LEMMA NackInv ==
  ASSUME TypeInv, NEW w \in Workers, Nack(w)
  PROVE  TypeInv'
<1> DEFINE job == worker[w].job
<1>1. job \in Jobs /\ Requeue(job)
  BY RelCreated DEF Nack
<1> HIDE DEF job
<1>2. /\ queue' \in Seq(Jobs) /\ dlq' \subseteq Releases \cup {Teardown}
      /\ \A r : Has(queue', r) => Has(queue, r) \/ job.rel = r
  BY <1>1, RequeueType DEF TypeInv
<1>3. \A r \in Releases : Has(queue', r) => Has(queue, r) \/ Rel(w) = r
  BY <1>2 DEF Rel, job
<1>4. \A r \in Releases : Has(stranded', r) <=> Has(stranded, r)
  BY DEF Nack, Has
<1> QED
  BY <1>2, <1>3, <1>4, ResetInv DEF Nack, TypeInv, ReleasesTypeOK

LEMMA CrashInv ==
  ASSUME TypeInv, NEW w \in Workers, Die(w)
  PROVE  TypeInv'
<1> DEFINE job == worker[w].job
<1>1. job \in Jobs /\ stranded \in Seq(Jobs)
  BY RelCreated DEF TypeInv, ReleasesTypeOK
<1> HIDE DEF job
<1>2. /\ stranded' \in Seq(Jobs)
      /\ \A r \in Releases : Has(stranded', r) => Has(stranded, r) \/ job.rel = r
  <2>1. CASE stranded' = Append(stranded, job)
    BY <1>1, <2>1, HasAppend
  <2>2. CASE stranded' = stranded
    BY <1>1, <2>2
  <2> QED
    BY <2>1, <2>2 DEF Die, job
<1>3. \A r \in Releases : Has(stranded', r) => Has(stranded, r) \/ Rel(w) = r
  BY <1>2 DEF Rel, job
<1>4. \A r \in Releases : Has(queue', r) <=> Has(queue, r)
  BY DEF Die, Has
<1>5. faults' \in 0 .. MaxFaults
  BY ReleasesAssumption DEF Die, Fault, TypeInv, ReleasesTypeOK
<1> QED
  BY <1>2, <1>3, <1>4, <1>5, ResetInv DEF Die, TypeInv, ReleasesTypeOK

LEMMA TimeOutInv ==
  ASSUME TypeInv, NEW w \in Workers, TimeOut(w)
  PROVE  TypeInv'
<1> DEFINE job == worker[w].job
<1>1. job \in Jobs /\ Requeue(job)
  BY RelCreated DEF TimeOut
<1>2. /\ worker' \in [Workers -> Worker]
      /\ worker'[w].pc = Stage(w) /\ worker'[w].job = job
      /\ \A v \in Workers \ {w} : worker'[v] = worker[v]
  BY DEF TimeOut, TypeInv, ReleasesTypeOK, Worker, Stage
<1> HIDE DEF job
<1>3. /\ queue' \in Seq(Jobs) /\ dlq' \subseteq Releases \cup {Teardown}
      /\ \A r : Has(queue', r) => Has(queue, r) \/ job.rel = r
  BY <1>1, RequeueType DEF TypeInv
<1>4. UNCHANGED <<rows, stranded, docker, history>>
  BY DEF TimeOut
<1>5. faults' \in 0 .. MaxFaults
  BY ReleasesAssumption DEF TimeOut, Fault, TypeInv, ReleasesTypeOK
<1>6. ReleasesTypeOK'
  BY <1>2, <1>3, <1>4, <1>5 DEF TypeInv, ReleasesTypeOK, rows, docker, history
<1>7. job.rel = Rel(w)
  BY DEF Rel, job
<1>8. JobInv'
  <2>1. \A r \in Releases : Has(stranded', r) <=> Has(stranded, r)
    BY <1>4 DEF Has
  <2>2. /\ worker'[w].pc = "stop" => worker'[w].job.rel = Teardown
        /\ worker'[w].pc \notin {"idle", "stop", "ack"} => worker'[w].job.rel \in Releases
    BY <1>2, <1>7 DEF TypeInv, JobInv
  <2> QED
    BY <1>2, <1>3, <1>4, <1>7, <2>1, <2>2, JobInvStep DEF TypeInv, rows
<1> QED
  BY <1>6, <1>8 DEF TypeInv

\* The job that the reaper comes to goes from one list to the other, or is given up.
LEMMA ReapJobType ==
  ASSUME TypeInv, ReapJob
  PROVE  /\ queue' \in Seq(Jobs) /\ stranded' \in Seq(Jobs)
         /\ dlq' \subseteq Releases \cup {Teardown} /\ dlq \subseteq dlq'
         /\ \A r : Has(queue, r) => Has(queue', r)
         /\ \A r : Has(queue', r) => Has(queue, r) \/ Has(stranded, r)
         /\ \A r : Has(stranded', r) => Has(stranded, r)
         /\ \A r : Has(stranded, r) => Has(stranded', r) \/ Has(queue', r) \/ r \in dlq'
<1>1. PICK i \in 1 .. Len(stranded) : stranded' = Without(stranded, i) /\ Requeue(stranded[i])
  BY DEF ReapJob, Without
<1> DEFINE job == stranded[i]
<1>2. /\ job \in Jobs /\ stranded' \in Seq(Jobs)
      /\ \A r : Has(stranded, r) <=> (job.rel = r \/ Has(stranded', r))
  <2>1. stranded \in Seq(Jobs)
    BY DEF TypeInv, ReleasesTypeOK
  <2> QED
    BY <1>1, <2>1, HasWithout
<1> HIDE DEF job
<1>3. /\ queue' \in Seq(Jobs) /\ dlq' \subseteq Releases \cup {Teardown}
      /\ dlq \subseteq dlq'
      /\ \A r : Has(queue, r) => Has(queue', r)
      /\ \A r : Has(queue', r) => Has(queue, r) \/ job.rel = r
      /\ Has(queue', job.rel) \/ job.rel \in dlq'
  <2>1. Requeue(job)
    BY <1>1 DEF job
  <2> QED
    BY <1>2, <2>1, RequeueType DEF TypeInv
<1> QED
  BY <1>2, <1>3

LEMMA ReapJobInv ==
  ASSUME TypeInv, ReapJob
  PROVE  TypeInv'
<1>1. UNCHANGED <<rows, worker, docker, history, faults>>
  BY DEF ReapJob
<1>2. ReleasesTypeOK'
  BY <1>1, ReapJobType DEF TypeInv, ReleasesTypeOK, rows, docker, history
<1>3. JobInv'
  BY <1>1, ReapJobType DEF TypeInv, JobInv, Stage, Rel, rows
<1> QED
  BY <1>2, <1>3 DEF TypeInv

LEMMA ReleasesNextInv == TypeInv /\ [ReleasesNext]_releasesVars => TypeInv'
<1> SUFFICES ASSUME TypeInv, [ReleasesNext]_releasesVars PROVE TypeInv'
  OBVIOUS
<1>1. CASE UNCHANGED releasesVars
  BY <1>1 DEF releasesVars, TypeInv, ReleasesTypeOK, JobInv, Has, Stage, Rel
<1>2. ASSUME NEW r \in Releases, RollbackRelease(r) \/ DestroyPreviewRelease(r) \/ SweepStaleReleases(r)
      PROVE  TypeInv'
  BY <1>2, RollbackReleaseInv, DestroyPreviewReleaseInv, SweepStaleReleasesInv
<1>3. ASSUME NEW w \in Workers, WorkerStep(w) PROVE TypeInv'
  BY <1>3, TakeInv, BeginInv, LoadInv, BuildInv, ClearInv, CreateInv, ProbeInv, MarkOriginalInv,
     RecordInv, ReapImagesInv, StopInv, AckInv, FailInv, NackInv DEF WorkerStep
<1>4. ASSUME NEW w \in Workers, WorkerFault(w) PROVE TypeInv'
  BY <1>4, WriteFailsInv, StopFailsInv, CrashInv, TimeOutInv DEF WorkerFault
<1> QED
  BY <1>1, <1>2, <1>3, <1>4, TriggerPipelineInv, ClosePullRequestInv,
     DeleteTargetInv, ReapJobInv DEF ReleasesNext

\* The rows, the lists, the workers' memory and Docker hold what their types
\* say, and a job never outruns the row it is about, for any number of workers.
THEOREM ReleasesTypeTheorem == ReleasesSpec => []ReleasesTypeOK
<1>1. ReleasesInit => TypeInv
  BY ReleasesInitInv
<1>2. TypeInv /\ [ReleasesNext]_releasesVars => TypeInv'
  BY ReleasesNextInv
<1>3. TypeInv => ReleasesTypeOK
  BY DEF TypeInv
<1> QED
  BY <1>1, <1>2, <1>3, PTL DEF ReleasesSpec

----------------------------------------------------------------------------
(***************************************************************************)
(* The teardown of a deleted target.                                       *)
(***************************************************************************)

OneWorker == \A v, w \in Workers : v = w

\* The teardown is on a list, or is known to be lost.
Kept ==
  Has(queue, Teardown) \/ Has(stranded, Teardown) \/ orphaned \/ Teardown \in dlq

\* Once the target is deleted, a container and a worker that may yet start one
\* have a teardown before them; and a worker whose teardown timed out is not
\* the last to know of it.
GoneInv ==
  /\ target = "deleted" /\ (site # NoSite \/ \E w \in Workers : Stage(w) \in {"build", "create"})
       => Kept \/ \E w \in Workers : Stage(w) = "stop"
  /\ \A w \in Workers : Stage(w) = "stop" /\ ~worker[w].leased => Kept

\* A step of w that keeps the teardown.
LEMMA GoneStep ==
  ASSUME GoneInv, NEW w \in Workers, target' = target, Kept => Kept',
         \A v \in Workers \ {w} : worker'[v] = worker[v],
         Stage(w)' \in {"build", "create"} => Stage(w) \in {"build", "create"} \/ target = "live",
         site' # NoSite => site # NoSite \/ Stage(w) = "create",
         Stage(w) = "stop" \/ Stage(w)' = "stop" => Kept'
  PROVE  GoneInv'
<1>1. \A v \in Workers \ {w} : Stage(v)' = Stage(v)
  BY DEF Stage
<1>2. ASSUME target' = "deleted", site' # NoSite \/ \E v \in Workers : Stage(v)' \in {"build", "create"}
      PROVE  Kept' \/ \E v \in Workers : Stage(v)' = "stop"
  <2>1. site # NoSite \/ \E v \in Workers : Stage(v) \in {"build", "create"}
    BY <1>1, <1>2
  <2>2. Kept \/ \E v \in Workers : Stage(v) = "stop"
    BY <1>2, <2>1 DEF GoneInv
  <2> QED
    BY <1>1, <2>2
<1>3. ASSUME NEW v \in Workers, Stage(v)' = "stop", ~worker'[v].leased
      PROVE  Kept'
  BY <1>1, <1>3 DEF GoneInv
<1> QED
  BY <1>2, <1>3 DEF GoneInv

LEMMA KeptSame ==
  ASSUME UNCHANGED <<lists, orphaned>>
  PROVE  Kept' <=> Kept
  BY DEF Kept, Has, lists

\* A worker goes on, and neither comes from a teardown nor to one.
LEMMA GotoGone ==
  ASSUME TypeInv, GoneInv, NEW w \in Workers, NEW step \in PCs \ {"stop"}, Advance(w, step),
         Stage(w) # "stop", UNCHANGED <<target, lists, orphaned>>,
         step \in {"build", "create"} => Stage(w) \in {"build", "create"} \/ target = "live",
         site' # NoSite => site # NoSite \/ Stage(w) = "create"
  PROVE  GoneInv'
<1>1. Stage(w)' = step /\ \A v \in Workers \ {w} : worker'[v] = worker[v]
  BY GotoType DEF TypeInv, Stage
<1> QED
  BY <1>1, KeptSame, GoneStep

LEMMA TakeGone ==
  ASSUME TypeInv, GoneInv, OneWorker, NEW w \in Workers, Take(w)
  PROVE  GoneInv'
<1>1. /\ queue \in Seq(Jobs) /\ queue # <<>> /\ queue' = Tail(queue)
      /\ UNCHANGED <<rows, stranded, dlq, docker, history, faults>>
      /\ Stage(w) = "idle"
  BY DEF TypeInv, ReleasesTypeOK, Take
<1>2. /\ worker'[w].pc = IF Head(queue).rel = Teardown THEN "stop" ELSE "begin"
      /\ worker'[w].leased
      /\ \A v \in Workers \ {w} : worker'[v] = worker[v]
  BY DEF Take, TypeInv, ReleasesTypeOK
<1>3. \A r : Has(queue, r) <=> (Head(queue).rel = r \/ Has(queue', r))
  BY <1>1, HasTail
<1>4. CASE Head(queue).rel = Teardown
  <2>1. Stage(w)' = "stop" /\ worker'[w].leased
    BY <1>2, <1>4 DEF Stage
  <2>2. \A v \in Workers : v = w
    BY DEF OneWorker
  <2> QED
    BY <2>1, <2>2 DEF GoneInv
<1>5. CASE Head(queue).rel # Teardown
  <2>1. Stage(w)' = "begin"
    BY <1>2, <1>5 DEF Stage
  <2>2. Has(stranded', Teardown) <=> Has(stranded, Teardown)
    BY <1>1 DEF Has
  <2>3. Kept => Kept'
    BY <1>1, <1>3, <1>5, <2>2 DEF Kept, history
  <2> QED
    BY <1>1, <1>2, <2>1, <2>3, GoneStep DEF rows, docker
<1> QED
  BY <1>4, <1>5

LEMMA StopGone ==
  ASSUME TypeInv, OneWorker, NEW w \in Workers, Stop(w)
  PROVE  GoneInv'
<1>1. Stage(w)' = "ack"
  BY GotoType DEF Stop, TypeInv, Stage, PCs
<1>2. \A v \in Workers : v = w
  BY DEF OneWorker
<1>3. site' = NoSite
  BY DEF Stop
<1> QED
  BY <1>1, <1>2, <1>3 DEF GoneInv

LEMMA StopFailsGone ==
  ASSUME NEW w \in Workers, StopFails(w)
  PROVE  GoneInv'
<1>1. Kept'
  BY DEF StopFails, Kept
<1> QED
  BY <1>1 DEF GoneInv

\* A worker is idle again after anything but a teardown.
LEMMA ResetGone ==
  ASSUME TypeInv, GoneInv, NEW w \in Workers, worker' = [worker EXCEPT ![w] = Idle],
         Kept => Kept', Stage(w) = "stop" => Kept', UNCHANGED <<target, site>>
  PROVE  GoneInv'
<1>1. worker'[w] = Idle /\ \A v \in Workers \ {w} : worker'[v] = worker[v]
  BY DEF TypeInv, ReleasesTypeOK
<1>2. Stage(w)' = "idle"
  BY <1>1 DEF Stage, Idle
<1> QED
  BY <1>1, <1>2, GoneStep

LEMMA NackGone ==
  ASSUME TypeInv, GoneInv, NEW w \in Workers, Nack(w)
  PROVE  GoneInv'
<1>1. /\ dlq \subseteq dlq'
      /\ \A r : Has(queue, r) => Has(queue', r)
  <2>1. worker[w].job \in Jobs /\ Requeue(worker[w].job)
    BY RelCreated DEF Nack
  <2> QED
    BY <2>1, RequeueType DEF TypeInv
<1>2. UNCHANGED <<rows, stranded, docker, history>> /\ Stage(w) = "nack"
  BY DEF Nack
<1>3. Has(stranded', Teardown) <=> Has(stranded, Teardown)
  BY <1>2 DEF Has
<1>4. Kept => Kept'
  BY <1>1, <1>2, <1>3 DEF Kept, history
<1> QED
  BY <1>2, <1>4, ResetGone DEF Nack, rows, docker

LEMMA CrashGone ==
  ASSUME TypeInv, GoneInv, NEW w \in Workers, Die(w)
  PROVE  GoneInv'
<1> DEFINE job == worker[w].job
<1>1. /\ job \in Jobs /\ stranded \in Seq(Jobs)
      /\ Stage(w) = "stop" => job.rel = Teardown
      /\ UNCHANGED <<rows, queue, dlq, docker, history>>
      /\ stranded' = IF worker[w].leased THEN Append(stranded, job) ELSE stranded
  BY RelCreated DEF TypeInv, ReleasesTypeOK, JobInv, Rel, Die
<1> HIDE DEF job
<1>2. /\ Has(stranded, Teardown) => Has(stranded', Teardown)
      /\ worker[w].leased /\ job.rel = Teardown => Has(stranded', Teardown)
  <2>1. CASE worker[w].leased
    <3>1. stranded' = Append(stranded, job)
      BY <1>1, <2>1
    <3> QED
      BY <1>1, <3>1, HasAppend
  <2>2. CASE ~worker[w].leased
    <3>1. stranded' = stranded
      BY <1>1, <2>2
    <3> QED
      BY <2>2, <3>1
  <2> QED
    BY <2>1, <2>2
<1>3. Has(queue', Teardown) <=> Has(queue, Teardown)
  BY <1>1 DEF Has
<1>4. Kept => Kept'
  BY <1>1, <1>2, <1>3 DEF Kept, history
<1>5. Stage(w) = "stop" => Kept'
  <2>1. CASE worker[w].leased
    BY <1>1, <1>2, <2>1 DEF Kept
  <2>2. CASE ~worker[w].leased
    BY <1>4, <2>2 DEF GoneInv
  <2> QED
    BY <2>1, <2>2
<1> QED
  BY <1>1, <1>4, <1>5, ResetGone DEF Die, rows, docker

LEMMA TimeOutGone ==
  ASSUME TypeInv, GoneInv, NEW w \in Workers, TimeOut(w)
  PROVE  GoneInv'
<1> DEFINE job == worker[w].job
<1>1. /\ job \in Jobs /\ Requeue(job)
      /\ Stage(w) = "stop" => job.rel = Teardown
      /\ UNCHANGED <<rows, stranded, docker, history>>
  BY RelCreated DEF TypeInv, ReleasesTypeOK, JobInv, Rel, TimeOut
<1>2. Stage(w)' = Stage(w) /\ \A v \in Workers \ {w} : worker'[v] = worker[v]
  BY DEF TimeOut, TypeInv, ReleasesTypeOK, Worker, Stage
<1> HIDE DEF job
<1>3. /\ dlq \subseteq dlq'
      /\ \A r : Has(queue, r) => Has(queue', r)
      /\ Has(queue', job.rel) \/ job.rel \in dlq'
  BY <1>1, RequeueType DEF TypeInv
<1>4. Has(stranded', Teardown) <=> Has(stranded, Teardown)
  BY <1>1 DEF Has
<1>5. (Kept => Kept') /\ (Stage(w) = "stop" => Kept')
  BY <1>1, <1>3, <1>4 DEF Kept, history
<1> QED
  BY <1>1, <1>2, <1>5, GoneStep DEF rows, docker

LEMMA ReapJobGone ==
  ASSUME TypeInv, GoneInv, ReapJob
  PROVE  GoneInv'
<1>1. UNCHANGED <<rows, worker, docker, history>>
  BY DEF ReapJob
<1>2. Kept => Kept'
  BY <1>1, ReapJobType DEF Kept, history
<1> QED
  BY <1>1, <1>2 DEF GoneInv, Stage, rows, docker

LEMMA NewReleaseGone ==
  ASSUME TypeInv, GoneInv, NEW from, NewRelease(from)
  PROVE  GoneInv'
<1>1. target' = "live" /\ UNCHANGED <<stranded, dlq, worker, orphaned>>
  BY DEF NewRelease
<1>2. Has(queue, Teardown) => Has(queue', Teardown)
  <2>1. CASE queue' = Append(queue, NewJob(created + 1))
    <3>1. created + 1 \in Releases
      BY ReleasesAssumption DEF TypeInv, ReleasesTypeOK, NewRelease, Releases
    <3>2. queue \in Seq(Jobs) /\ NewJob(created + 1) \in Jobs
      BY <3>1, JobTypes DEF TypeInv, ReleasesTypeOK
    <3> QED
      BY <2>1, <3>2, HasAppend
  <2>2. CASE queue' = queue
    BY <2>2
  <2> QED
    BY <2>1, <2>2 DEF NewRelease
<1>3. Has(stranded', Teardown) <=> Has(stranded, Teardown)
  BY <1>1 DEF Has
<1>4. Kept => Kept'
  BY <1>1, <1>2, <1>3 DEF Kept
<1> QED
  BY <1>1, <1>4 DEF GoneInv, Stage

LEMMA DeleteTargetGone ==
  ASSUME TypeInv, DeleteTarget
  PROVE  GoneInv'
<1>1. Kept'
  <2>1. CASE queue' = Append(queue, NewJob(Teardown))
    <3>1. queue \in Seq(Jobs) /\ NewJob(Teardown) \in Jobs /\ NewJob(Teardown).rel = Teardown
      BY JobTypes DEF TypeInv, ReleasesTypeOK, NewJob
    <3>2. Has(queue', Teardown)
      BY <2>1, <3>1, HasAppend
    <3> QED
      BY <3>2 DEF Kept
  <2>2. CASE orphaned'
    BY <2>2 DEF Kept
  <2> QED
    BY <2>1, <2>2 DEF DeleteTarget
<1> QED
  BY <1>1 DEF GoneInv

\* A step that touches neither target, workers, containers nor lists, or that
\* only takes the container away.
LEMMA QuietGone ==
  ASSUME GoneInv, UNCHANGED <<target, worker, lists, orphaned>>, site' \in {site, NoSite}
  PROVE  GoneInv'
  BY KeptSame DEF GoneInv, Stage

LEMMA GotosGone ==
  ASSUME TypeInv, GoneInv, NEW w \in Workers,
         \/ Begin(w) \/ Load(w) \/ Build(w) \/ Create(w) \/ Probe(w) \/ MarkOriginal(w)
         \/ Record(w) \/ ReapImages(w) \/ Fail(w) \/ WriteFails(w)
  PROVE  GoneInv'
<1>1. CASE Begin(w) \/ MarkOriginal(w) \/ Record(w) \/ Fail(w)
  <2>1. PICK step \in {"load", "record", "reap", "nack"} : Advance(w, step)
    BY <1>1 DEF Begin, MarkOriginal, Record, Fail
  <2> QED
    BY <1>1, <2>1, GotoGone DEF Begin, MarkOriginal, Record, Fail, PCs, docker, history
<1>2. CASE Load(w)
  <2>1. PICK step \in {"build", "fail"} : Advance(w, step) /\ (step = "build" => target = "live")
    BY <1>2 DEF Load
  <2> QED
    BY <1>2, <2>1, GotoGone DEF Load, PCs, docker, history
<1>3. CASE Build(w)
  <2>1. PICK step \in {"create", "fail"} : Advance(w, step)
    BY <1>3 DEF Build
  <2> QED
    BY <1>3, <2>1, GotoGone DEF Build, PCs, rows, history
<1>4. CASE Create(w)
  <2>1. PICK step \in {"probe", "fail"} : Advance(w, step)
    BY <1>4 DEF Create
  <2> QED
    BY <1>4, <2>1, GotoGone DEF Create, PCs, rows, history
<1>5. CASE Probe(w) \/ ReapImages(w)
  <2>1. PICK step \in {"original", "record", "fail", "ack"} : Advance(w, step)
    BY <1>5 DEF Probe, ReapImages
  <2> QED
    BY <1>5, <2>1, GotoGone DEF Probe, ReapImages, PCs, rows, docker, history
<1>6. CASE WriteFails(w)
  <2>1. /\ Stage(w) \in {"begin", "original", "record", "fail"}
        /\ AfterWrite[Stage(w)] \in {"load", "record", "reap", "nack"}
        /\ Advance(w, AfterWrite[Stage(w)])
        /\ UNCHANGED <<rows, lists, docker, history>>
    BY <1>6 DEF WriteFails, AfterWrite
  <2> QED
    BY <2>1, GotoGone DEF PCs, rows, docker, history
<1> QED
  BY <1>1, <1>2, <1>3, <1>4, <1>5, <1>6

LEMMA GoneNext == OneWorker /\ TypeInv /\ GoneInv /\ [ReleasesNext]_releasesVars => GoneInv'
<1> SUFFICES ASSUME OneWorker, TypeInv, GoneInv, [ReleasesNext]_releasesVars PROVE GoneInv'
  OBVIOUS
<1>1. CASE UNCHANGED releasesVars
  BY <1>1, QuietGone DEF releasesVars, lists
<1>2. ASSUME NEW r \in Releases, RollbackRelease(r) \/ DestroyPreviewRelease(r) \/ SweepStaleReleases(r)
      PROVE  GoneInv'
  <2>1. CASE RollbackRelease(r)
    BY <2>1, NewReleaseGone DEF RollbackRelease
  <2>2. CASE DestroyPreviewRelease(r) \/ SweepStaleReleases(r)
    BY <2>2, QuietGone DEF DestroyPreviewRelease, SweepStaleReleases, docker, history
  <2> QED
    BY <1>2, <2>1, <2>2
<1>3. ASSUME NEW w \in Workers, WorkerStep(w) PROVE GoneInv'
  <2>1. CASE Clear(w)
    BY <2>1, QuietGone DEF Clear, rows, history
  <2>2. CASE Ack(w)
    <3>1. Stage(w) # "stop" /\ UNCHANGED <<rows, lists, docker, history>>
      BY <2>2 DEF Ack
    <3> QED
      BY <2>2, <3>1, KeptSame, ResetGone DEF Ack, rows, docker, history
  <2> QED
    BY <1>3, <2>1, <2>2, TakeGone, StopGone, NackGone, GotosGone DEF WorkerStep
<1>4. ASSUME NEW w \in Workers, WorkerFault(w) PROVE GoneInv'
  BY <1>4, GotosGone, StopFailsGone, CrashGone, TimeOutGone DEF WorkerFault
<1>5. TriggerPipeline \/ OpenPullRequest \/ ClosePullRequest => GoneInv'
  BY NewReleaseGone, QuietGone
     DEF TriggerPipeline, OpenPullRequest, ClosePullRequest, docker, history
<1> QED
  BY <1>1, <1>2, <1>3, <1>4, <1>5, DeleteTargetGone, ReapJobGone DEF ReleasesNext

\* With one builds worker, no container outlives the teardown of its target:
\* neither the build that was running at the time nor a retry or a redelivery
\* brings the site back, however often jobs fail, time out and are stranded.
THEOREM DeletedIsGoneTheorem == OneWorker => (ReleasesSpec => []DeletedIsGone)
<1> SUFFICES ASSUME OneWorker PROVE ReleasesSpec => []DeletedIsGone
  OBVIOUS
<1>1. ReleasesInit => TypeInv /\ GoneInv
  BY ReleasesInitInv DEF ReleasesInit, GoneInv, Stage, Idle
<1>2. TypeInv /\ GoneInv /\ [ReleasesNext]_releasesVars => TypeInv' /\ GoneInv'
  BY ReleasesNextInv, GoneNext
<1>3. GoneInv => DeletedIsGone
  BY DEF GoneInv, Kept, DeletedIsGone, TeardownOutstanding, TeardownLost
<1> QED
  BY <1>1, <1>2, <1>3, PTL DEF ReleasesSpec

----------------------------------------------------------------------------
(***************************************************************************)
(* The image of the container that serves.                                 *)
(***************************************************************************)

Started == {"probe", "original", "record", "reap"}

\* From the start of its container to the end, a release that is no rollback
\* has the site's name.
ServeInv ==
  \A w \in Workers :
    Stage(w) \in Started /\ ~IsRollback(w) => site.rel = Rel(w)

\* A step that keeps the site, and starts no container.
LEMMA ServeStep ==
  ASSUME TypeInv, ServeInv, UNCHANGED site,
         \A w \in Workers :
           Stage(w)' \in Started =>
             /\ Stage(w) \in Started
             /\ Rel(w)' = Rel(w),
         \A r \in Releases : r <= created => origin'[r] = origin[r]
  PROVE  ServeInv'
<1> SUFFICES ASSUME NEW w \in Workers, Stage(w)' \in Started, ~IsRollback(w)'
             PROVE  site'.rel = Rel(w)'
  BY DEF ServeInv
<1>1. Stage(w) \in Started /\ Rel(w)' = Rel(w)
  OBVIOUS
<1>2. Rel(w) \in Releases
  BY <1>1 DEF TypeInv, JobInv, Started
<1>3. Rel(w) <= created
  <2>1. status[Rel(w)] # "none"
    BY <1>2, RelCreated
  <2> QED
    BY <1>2, <2>1 DEF TypeInv, ReleasesTypeOK, Releases
<1>4. ~IsRollback(w)
  BY <1>1, <1>2, <1>3 DEF IsRollback
<1> QED
  BY <1>1, <1>4 DEF ServeInv

\* One worker moves on within its release, or is done with it.
LEMMA ServeGoto ==
  ASSUME TypeInv, ServeInv, NEW w \in Workers, NEW step \in PCs, Advance(w, step),
         step \in Started => Stage(w) \in Started, UNCHANGED <<origin, site>>
  PROVE  ServeInv'
<1>1. /\ Stage(w)' = step /\ Rel(w)' = Rel(w)
      /\ \A v \in Workers \ {w} : Stage(v)' = Stage(v) /\ Rel(v)' = Rel(v)
  BY GotoType DEF TypeInv, Stage, Rel
<1> QED
  BY <1>1, ServeStep

\* One worker leaves its release, or takes another one up.
LEMMA ServeOther ==
  ASSUME TypeInv, ServeInv, NEW w \in Workers, NEW state,
         worker' = [worker EXCEPT ![w] = state], state.pc \notin Started, UNCHANGED <<origin, site>>
  PROVE  ServeInv'
<1>1. Stage(w)' \notin Started /\ \A v \in Workers \ {w} : Stage(v)' = Stage(v) /\ Rel(v)' = Rel(v)
  BY DEF TypeInv, ReleasesTypeOK, Stage, Rel
<1> QED
  BY <1>1, ServeStep

\* The workers are left alone.
LEMMA ServeQuiet ==
  ASSUME TypeInv, ServeInv, UNCHANGED <<worker, site>>,
         \A r \in Releases : r <= created => origin'[r] = origin[r]
  PROVE  ServeInv'
<1>1. \A w \in Workers : Stage(w)' = Stage(w) /\ Rel(w)' = Rel(w)
  BY DEF Stage, Rel
<1> QED
  BY <1>1, ServeStep

LEMMA CreateServe ==
  ASSUME TypeInv, ServeInv, OneWorker, NEW w \in Workers, Create(w)
  PROVE  ServeInv'
<1>1. \A v \in Workers : v = w
  BY DEF OneWorker
<1>2. UNCHANGED <<rows, lists, images, history, faults>>
  BY DEF Create
<1>3. CASE Advance(w, "fail") /\ UNCHANGED site
  BY <1>2, <1>3, ServeGoto DEF rows, Started, PCs
<1>4. CASE /\ \E up \in BOOLEAN :
                site' = IF IsRollback(w) THEN site ELSE [rel |-> Rel(w), up |-> up]
           /\ Advance(w, "probe")
  <2>1. Stage(w)' = "probe" /\ Rel(w)' = Rel(w)
    BY <1>4, GotoType DEF TypeInv, Stage, Rel, PCs
  <2>2. IsRollback(w)' <=> IsRollback(w)
    BY <1>2, <2>1 DEF IsRollback, rows
  <2> QED
    BY <1>1, <1>4, <2>1, <2>2 DEF ServeInv
<1> QED
  BY <1>3, <1>4 DEF Create

LEMMA ServeNext == OneWorker /\ TypeInv /\ ServeInv /\ [ReleasesNext]_releasesVars => ServeInv'
<1> SUFFICES ASSUME OneWorker, TypeInv, ServeInv, [ReleasesNext]_releasesVars PROVE ServeInv'
  OBVIOUS
<1>1. CASE UNCHANGED releasesVars
  BY <1>1, ServeQuiet DEF releasesVars
<1>2. ASSUME NEW from, NewRelease(from) PROVE ServeInv'
  <2>1. /\ UNCHANGED <<worker, site>> /\ created \in 0 .. MaxReleases
        /\ origin' = [origin EXCEPT ![created + 1] = from]
    BY <1>2 DEF NewRelease, docker, TypeInv, ReleasesTypeOK
  <2>2. \A r \in Releases : r <= created => origin'[r] = origin[r]
    BY <2>1 DEF TypeInv, ReleasesTypeOK, Releases
  <2> QED
    BY <2>1, <2>2, ServeQuiet
<1>3. ASSUME NEW r \in Releases, DestroyPreviewRelease(r) \/ SweepStaleReleases(r)
      PROVE  ServeInv'
  BY <1>3, ServeQuiet DEF DestroyPreviewRelease, SweepStaleReleases, docker
<1>4. DeleteTarget \/ ReapJob => ServeInv'
  BY ServeQuiet DEF DeleteTarget, ReapJob, docker, rows
<1>5. ASSUME NEW w \in Workers, WorkerStep(w) PROVE ServeInv'
  <2>1. CASE Take(w)
    <3> DEFINE state == [pc |-> IF Head(queue).rel = Teardown THEN "stop" ELSE "begin",
                         job |-> Head(queue), leased |-> TRUE]
    <3>1. state.pc \notin Started
      BY DEF Started
    <3>2. worker' = [worker EXCEPT ![w] = state] /\ UNCHANGED <<origin, site>>
      BY <2>1 DEF Take, rows, docker
    <3> HIDE DEF state
    <3> QED
      BY <3>1, <3>2, ServeOther
  <2>2. CASE Ack(w) \/ Nack(w)
    BY <2>2, ServeOther DEF Ack, Nack, Idle, Started, rows, docker
  <2>3. CASE Begin(w) \/ Fail(w) \/ MarkOriginal(w) \/ Record(w) \/ Load(w) \/ Build(w) \/ Probe(w) \/ ReapImages(w)
    <3>1. PICK step \in PCs : Advance(w, step) /\ (step \in Started => Stage(w) \in Started)
      BY <2>3 DEF Begin, Fail, MarkOriginal, Record, Load, Build, Probe, ReapImages, Started, PCs
    <3>2. UNCHANGED <<origin, site>>
      BY <2>3 DEF Begin, Fail, MarkOriginal, Record, Load, Build, Probe, ReapImages, rows, docker
    <3> QED
      BY <3>1, <3>2, ServeGoto
  <2>4. CASE Clear(w) \/ Stop(w)
    <3>1. Stage(w)' \notin Started
      <4>1. CASE Clear(w)
        BY <4>1 DEF Clear, Stage, Started
      <4>2. CASE Stop(w)
        BY <4>2, GotoType DEF Stop, TypeInv, Stage, Started, PCs
      <4> QED
        BY <2>4, <4>1, <4>2
    <3> QED
      BY <3>1 DEF OneWorker, ServeInv
  <2> QED
    BY <1>5, <2>1, <2>2, <2>3, <2>4, CreateServe DEF WorkerStep
<1>6. ASSUME NEW w \in Workers, WorkerFault(w) PROVE ServeInv'
  <2>1. CASE Die(w)
    BY <2>1, ServeOther DEF Die, Idle, Started, rows, docker
  <2>2. CASE TimeOut(w)
    <3>1. \A v \in Workers : Stage(v)' = Stage(v) /\ Rel(v)' = Rel(v)
      BY <2>2 DEF TimeOut, TypeInv, ReleasesTypeOK, Worker, Stage, Rel
    <3> QED
      BY <2>2, <3>1, ServeStep DEF TimeOut, rows, docker
  <2>3. CASE WriteFails(w) \/ StopFails(w)
    <3>1. PICK step \in PCs : Advance(w, step) /\ (step \in Started => Stage(w) \in Started)
      BY <2>3 DEF WriteFails, StopFails, AfterWrite, Started, PCs
    <3> QED
      BY <2>3, <3>1, ServeGoto DEF WriteFails, StopFails, rows, docker
  <2> QED
    BY <1>6, <2>1, <2>2, <2>3 DEF WorkerFault
<1>7. ClosePullRequest => ServeInv'
  BY ServeQuiet DEF ClosePullRequest, docker
<1> QED
  BY <1>1, <1>2, <1>3, <1>4, <1>5, <1>6, <1>7
     DEF ReleasesNext, TriggerPipeline, OpenPullRequest, RollbackRelease

\* With one builds worker, reaping old images spares the one that the serving
\* container runs, whichever releases are retried or redelivered.
THEOREM ServingImageKeptTheorem == OneWorker => (ReleasesSpec => ServingImageKept)
<1> SUFFICES ASSUME OneWorker PROVE ReleasesSpec => ServingImageKept
  OBVIOUS
<1>1. ReleasesInit => TypeInv /\ ServeInv
  BY ReleasesInitInv DEF ReleasesInit, ServeInv, Stage, Idle, Started
<1>2. TypeInv /\ ServeInv /\ [ReleasesNext]_releasesVars => TypeInv' /\ ServeInv'
  BY ReleasesNextInv, ServeNext
<1>3. TypeInv /\ ServeInv /\ [ReleasesNext]_releasesVars =>
        [\A w \in Workers :
           Stage(w) = "reap" /\ ~IsRollback(w) /\ site.rel \in images => site.rel \in images']_releasesVars
  <2> SUFFICES ASSUME TypeInv, ServeInv, [ReleasesNext]_releasesVars, NEW w \in Workers,
                      Stage(w) = "reap", ~IsRollback(w), site.rel \in images
               PROVE  site.rel \in images'
    OBVIOUS
  <2>1. site.rel = Rel(w) /\ \A v \in Workers : v = w
    BY DEF ServeInv, Started, OneWorker
  <2>2. CASE ReapImages(w)
    BY <2>1, <2>2 DEF ReapImages
  <2>3. CASE ~ReapImages(w)
    <3>1. images' = images
      BY <2>1, <2>3
         DEF releasesVars, ReleasesNext, NewRelease, TriggerPipeline, OpenPullRequest, ClosePullRequest,
             RollbackRelease, DestroyPreviewRelease,
             SweepStaleReleases, DeleteTarget, WorkerStep, WorkerFault, ReapJob, Take, Begin,
             Load, Build, Clear, Create, Probe, MarkOriginal, Record, Stop, Ack, Fail, Nack,
             WriteFails, StopFails, Die, TimeOut, docker
    <3> QED
      BY <3>1
  <2> QED
    BY <2>2, <2>3
<1> QED
  BY <1>1, <1>2, <1>3, PTL DEF ReleasesSpec, ServingImageKept

----------------------------------------------------------------------------
(***************************************************************************)
(* The releases that the sweep does not look at.                           *)
(***************************************************************************)

Few == faults < 2 /\ faults < MaxRetries

Bare(r) == r \in Releases /\ status[r] = "pending"

\* A release in "pending" has cost the worker that is beyond its begin a fault,
\* and one that is through with it two; so has a job that was handed out again,
\* one fault for each retry.
WorkerHolds(w) ==
  Bare(Rel(w)) =>
    /\ Stage(w) \notin {"reap", "ack", "nack"}
    /\ Stage(w) \in Writes => worker[w].job.retries <= faults
    /\ Stage(w) \in Writes \ {"begin"} \/ ~worker[w].leased => Stage(w) = "idle" \/ faults > 0

Held(r) ==
  \/ Has(queue, r) \/ Has(stranded, r)
  \/ \E w \in Workers : Rel(w) = r /\ Stage(w) \in Writes

ListsHold ==
  /\ \A job \in Contents(queue) : Bare(job.rel) => job.retries <= faults
  /\ \A job \in Contents(stranded) : Bare(job.rel) => job.retries < faults

PendInv ==
  Few => /\ \A w \in Workers : WorkerHolds(w)
         /\ ListsHold
         /\ \A r \in Releases : Bare(r) /\ r \notin unpushed => Held(r)

\* A step of w that makes no release pending.
LEMMA PendStep ==
  ASSUME TypeInv, PendInv, NEW w \in Workers, faults' \in {faults, faults + 1},
         unpushed' = unpushed, \A r : Bare(r)' => Bare(r),
         \A v \in Workers \ {w} : worker'[v] = worker[v],
         Few /\ Few' => WorkerHolds(w)' /\ ListsHold',
         Few /\ Few' => \A r \in Releases :
           /\ Bare(r)' /\ r \notin unpushed
           /\ Has(queue, r) \/ Has(stranded, r) \/ (Rel(w) = r /\ Stage(w) \in Writes)
           => Held(r)'
  PROVE  PendInv'
<1>1. faults \in Nat /\ MaxRetries \in Nat
  BY ReleasesAssumption DEF TypeInv, ReleasesTypeOK
<1>2. Few' => Few
  BY <1>1, ReleasesAssumption DEF Few
<1>3. \A v \in Workers \ {w} : Stage(v)' = Stage(v) /\ Rel(v)' = Rel(v)
  BY DEF Stage, Rel
<1>4. ASSUME Few', NEW v \in Workers \ {w} PROVE WorkerHolds(v)'
  <2>1. WorkerHolds(v)
    BY <1>2, <1>4 DEF PendInv
  <2>2. worker[v].job.retries \in Nat
    BY RelCreated DEF Jobs
  <2> QED
    BY <1>1, <1>3, <2>1, <2>2 DEF WorkerHolds
<1>5. ASSUME Few', NEW r \in Releases, Bare(r)', r \notin unpushed'
      PROVE  Held(r)'
  <2>1. Held(r)
    BY <1>2, <1>5 DEF PendInv
  <2>2. CASE \E v \in Workers \ {w} : Rel(v) = r /\ Stage(v) \in Writes
    BY <1>3, <2>2 DEF Held
  <2> QED
    BY <1>2, <1>5, <2>1, <2>2 DEF Held
<1> QED
  BY <1>2, <1>4, <1>5 DEF PendInv

LEMMA ListsHoldSame ==
  ASSUME TypeInv, ListsHold, UNCHANGED <<queue, stranded>>, faults' \in {faults, faults + 1},
         \A r : Bare(r)' => Bare(r)
  PROVE  ListsHold' /\ \A r : (Has(queue', r) <=> Has(queue, r)) /\ (Has(stranded', r) <=> Has(stranded, r))
<1>1. Contents(queue)' = Contents(queue) /\ Contents(stranded)' = Contents(stranded)
  BY DEF Contents
<1>2. faults \in Nat
  BY ReleasesAssumption DEF TypeInv, ReleasesTypeOK
<1>3. \A job \in Contents(queue) \cup Contents(stranded) : job.retries \in Nat
  <2>1. queue \in Seq(Jobs) /\ stranded \in Seq(Jobs)
    BY DEF TypeInv, ReleasesTypeOK
  <2>2. Contents(queue) \subseteq Jobs /\ Contents(stranded) \subseteq Jobs
    BY <2>1, ElementOfSeq DEF Contents
  <2> QED
    BY <2>2 DEF Jobs
<1>4. ListsHold'
  BY <1>1, <1>2, <1>3 DEF ListsHold
<1> QED
  BY <1>4 DEF Has

\* A worker writes a status: its release is "pending" no more.
LEMMA WrittenBare ==
  ASSUME TypeInv, NEW k, NEW s, s # "pending", status' = Written(k, s)
  PROVE  \A r : Bare(r)' => Bare(r) /\ r # k
BY DEF TypeInv, ReleasesTypeOK, Written, Bare

\* A worker goes on with its job.
LEMMA PendGoto ==
  ASSUME TypeInv, PendInv, NEW w \in Workers, NEW step \in PCs, Advance(w, step),
         UNCHANGED <<queue, stranded, unpushed>>, faults' \in {faults, faults + 1},
         \A r : Bare(r)' => Bare(r),
         \A r : r = Rel(w) /\ Few /\ Few' /\ Bare(r)' =>
           /\ step \in Writes \ {"begin"} /\ Stage(w) \in Writes
           /\ faults' > 0
  PROVE  PendInv'
<1>1. /\ worker'[w].pc = step /\ worker'[w].job = worker[w].job
      /\ \A v \in Workers \ {w} : worker'[v] = worker[v]
  BY GotoType DEF TypeInv
<1>2. /\ Stage(w)' = step /\ Rel(w)' = Rel(w)
      /\ worker[w].job.retries \in Nat /\ faults \in Nat
  BY <1>1, RelCreated, ReleasesAssumption DEF Stage, Rel, Jobs, TypeInv, ReleasesTypeOK
<1>3. ASSUME Few, Few'
      PROVE  /\ WorkerHolds(w)' /\ ListsHold'
             /\ \A r \in Releases :
                  /\ Bare(r)' /\ r \notin unpushed
                  /\ Has(queue, r) \/ Has(stranded, r) \/ (Rel(w) = r /\ Stage(w) \in Writes)
                  => Held(r)'
  <2>1. ListsHold /\ WorkerHolds(w)
    BY <1>3 DEF PendInv
  <2>2. WorkerHolds(w)'
    <3>0. ASSUME Bare(Rel(w))'
          PROVE  /\ Bare(Rel(w)) /\ step \in Writes \ {"begin"} /\ Stage(w) \in Writes
                 /\ faults' > 0
      <4>1. PICK r : r = Rel(w)
        OBVIOUS
      <4>2. Bare(r)'
        BY <1>2, <3>0, <4>1 DEF Bare
      <4> QED
        BY <1>3, <4>1, <4>2
    <3>1. Bare(Rel(w))' => worker[w].job.retries <= faults'
      BY <1>2, <2>1, <3>0 DEF WorkerHolds
    <3> QED
      BY <1>1, <1>2, <3>0, <3>1 DEF WorkerHolds, Writes
  <2>3. \A r \in Releases : Bare(r)' /\ Rel(w) = r => Rel(w)' = r /\ Stage(w)' \in Writes
    BY <1>2, <1>3
  <2> QED
    BY <2>1, <2>2, <2>3, ListsHoldSame DEF Held
<1> QED
  BY <1>1, <1>3, PendStep

LEMMA GotosPend ==
  ASSUME TypeInv, PendInv, NEW w \in Workers,
         \/ Begin(w) \/ Load(w) \/ Build(w) \/ Create(w) \/ Probe(w) \/ MarkOriginal(w)
         \/ Record(w) \/ ReapImages(w) \/ Stop(w) \/ Fail(w) \/ WriteFails(w) \/ StopFails(w)
  PROVE  PendInv'
<1>0. /\ Few /\ Bare(Rel(w)) =>
           /\ Stage(w) \notin {"reap", "ack", "nack"}
           /\ Stage(w) \in Writes \ {"begin"} => faults > 0
      /\ Stage(w) = "stop" => ~Bare(Rel(w))
      /\ faults \in Nat
  BY ReleasesAssumption
     DEF PendInv, WorkerHolds, TypeInv, ReleasesTypeOK, JobInv, Bare, Teardown, Releases, Writes
<1>1. CASE Begin(w) \/ Record(w) \/ Fail(w)
  <2>1. PICK step \in {"load", "reap", "nack"}, s \in Statuses \ {"pending"} :
          Advance(w, step) /\ status' = Written(Rel(w), s)
    <3>1. {"deploying", "building", "success", "failed"} \subseteq Statuses \ {"pending"}
      BY DEF Statuses
    <3> QED
      BY <1>1, <3>1 DEF Begin, Record, Fail
  <2>2. \A r : Bare(r)' => Bare(r) /\ r # Rel(w)
    BY <2>1, WrittenBare
  <2>3. UNCHANGED <<lists, history, faults>>
    BY <1>1 DEF Begin, Record, Fail
  <2> QED
    BY <2>1, <2>2, <2>3, PendGoto DEF lists, history, PCs
<1>2. CASE MarkOriginal(w)
  <2>1. \A r : Bare(r)' => Bare(r)
    BY <1>2, WrittenBare DEF MarkOriginal
  <2> QED
    BY <1>0, <1>2, <2>1, PendGoto DEF MarkOriginal, lists, history, PCs, Writes
<1>3. CASE Load(w)
  <2>1. \A r : Bare(r)' => Bare(r)
    <3>1. CASE status' = status
      BY <3>1 DEF Bare
    <3>2. CASE status' = Written(Rel(w), "deploying")
      BY <3>2, WrittenBare
    <3> QED
      BY <1>3, <3>1, <3>2 DEF Load
  <2>2. PICK step \in {"build", "fail"} : Advance(w, step)
    BY <1>3 DEF Load
  <2> QED
    BY <1>0, <1>3, <2>1, <2>2, PendGoto DEF Load, lists, history, PCs, Writes
<1>4. CASE Build(w) \/ Create(w) \/ Probe(w)
  <2>1. PICK step \in {"create", "probe", "original", "record", "fail"} : Advance(w, step)
    BY <1>4 DEF Build, Create, Probe
  <2>2. UNCHANGED <<rows, lists, history, faults>> /\ Stage(w) \in Writes \ {"begin"}
    BY <1>4 DEF Build, Create, Probe, Writes
  <2>3. \A r : Bare(r)' => Bare(r)
    BY <2>2 DEF Bare, rows
  <2> QED
    BY <1>0, <2>1, <2>2, <2>3, PendGoto DEF lists, history, PCs, Writes
<1>5. CASE ReapImages(w) \/ Stop(w) \/ StopFails(w)
  <2>1. /\ UNCHANGED <<rows, lists, unpushed>> /\ Advance(w, "ack")
        /\ Stage(w) \in {"reap", "stop"} /\ faults' \in {faults, faults + 1}
    BY <1>5 DEF ReapImages, Stop, StopFails, history, Fault
  <2>2. \A r : Bare(r)' => Bare(r)
    BY <2>1 DEF Bare, rows
  <2> QED
    BY <1>0, <2>1, <2>2, PendGoto DEF lists, PCs
<1>6. CASE WriteFails(w)
  <2>1. /\ UNCHANGED <<rows, lists, history>> /\ faults' = faults + 1
        /\ \/ Stage(w) = "begin" /\ Advance(w, "load")
           \/ Stage(w) = "original" /\ Advance(w, "record")
           \/ Stage(w) = "record" /\ Advance(w, "reap")
           \/ Stage(w) = "fail" /\ Advance(w, "nack")
    BY <1>6 DEF WriteFails, AfterWrite, Fault
  <2>2. \A r : Bare(r)' => Bare(r)
    BY <2>1 DEF Bare, rows
  <2>3. PICK step \in PCs :
          /\ Advance(w, step)
          /\ step \in {"load", "record"} \/ Stage(w) \in {"record", "fail"}
          /\ Stage(w) \in Writes
    BY <2>1 DEF PCs, Writes
  <2>4. \A r : r = Rel(w) /\ Few /\ Few' /\ Bare(r)' => step \in {"load", "record"} /\ faults' > 0
    BY <1>0, <2>1, <2>2, <2>3 DEF Few, Writes
  <2> QED
    BY <2>1, <2>2, <2>3, <2>4, PendGoto DEF lists, history, Writes
<1> QED
  BY <1>1, <1>2, <1>3, <1>4, <1>5, <1>6

\* A job that is handed out again has one retry more, or is given up.
LEMMA RequeueContents ==
  ASSUME TypeInv, NEW job \in Jobs, Requeue(job)
  PROVE  /\ \A k \in Contents(queue') : k \in Contents(queue) \/ k = [job EXCEPT !.retries = @ + 1]
         /\ [job EXCEPT !.retries = @ + 1].rel = job.rel
         /\ [job EXCEPT !.retries = @ + 1].retries = job.retries + 1
         /\ job.retries + 1 < MaxRetries => Has(queue', job.rel)
<1> DEFINE again == [job EXCEPT !.retries = @ + 1]
<1>1. again.rel = job.rel /\ again.retries = job.retries + 1
  BY DEF Jobs
<1>2. CASE job.retries + 1 < MaxRetries
  <2>1. queue' = Append(queue, again)
    BY <1>2 DEF Requeue
  <2>2. queue \in Seq(Jobs) /\ job.retries \in 0 .. MaxRetries - 1 /\ MaxRetries \in Nat
    BY ReleasesAssumption DEF TypeInv, ReleasesTypeOK, Jobs
  <2>3. again \in Jobs
    <3>1. job.retries + 1 \in 0 .. MaxRetries - 1
      BY <1>2, <2>2
    <3> QED
      BY <3>1 DEF Jobs
  <2> HIDE DEF again
  <2>4. Contents(queue') = Contents(queue) \cup {again}
    BY <2>1, <2>2, <2>3, ContentsAppend
  <2> QED
    BY <1>1, <2>4, HasContents DEF again
<1>3. CASE ~(job.retries + 1 < MaxRetries)
  <2>1. queue' = queue
    BY <1>3 DEF Requeue
  <2> QED
    BY <1>1, <1>3, <2>1
<1> QED
  BY <1>2, <1>3

\* Whose job is a release's is a worker with that release.
LEMMA WorkerJob ==
  ASSUME TypeInv, PendInv, NEW w \in Workers
  PROVE  /\ worker[w].job \in Jobs /\ worker[w].job.rel = Rel(w)
         /\ worker[w].job.retries \in Nat /\ faults \in Nat /\ MaxRetries \in Nat
         /\ queue \in Seq(Jobs) /\ stranded \in Seq(Jobs)
         /\ Stage(w) = "stop" => ~Bare(Rel(w))
         /\ Few => WorkerHolds(w) /\ ListsHold
         /\ Few /\ Bare(Rel(w)) => Stage(w) \in Writes \cup {"idle"}
<1>1. worker[w].job \in Jobs /\ worker[w].job.rel = Rel(w)
  BY RelCreated DEF Rel
<1>2. faults \in Nat /\ MaxRetries \in Nat /\ queue \in Seq(Jobs) /\ stranded \in Seq(Jobs)
  BY ReleasesAssumption DEF TypeInv, ReleasesTypeOK
<1>3. Stage(w) \in PCs
  BY DEF TypeInv, ReleasesTypeOK, Worker, Stage
<1>4. Stage(w) = "stop" => ~Bare(Rel(w))
  BY DEF TypeInv, JobInv, Bare, Teardown, Releases
<1> QED
  BY <1>1, <1>2, <1>3, <1>4 DEF Jobs, PendInv, WorkerHolds, PCs, Writes

LEMMA TakePend ==
  ASSUME TypeInv, PendInv, NEW w \in Workers, Take(w)
  PROVE  PendInv'
<1> DEFINE job == Head(queue)
<1>1. /\ queue # <<>> /\ queue' = Tail(queue) /\ Stage(w) = "idle"
      /\ UNCHANGED <<rows, stranded, dlq, docker, history, faults>>
  BY DEF Take
<1>2. /\ worker'[w].pc = (IF job.rel = Teardown THEN "stop" ELSE "begin")
      /\ worker'[w].job = job /\ worker'[w].leased
      /\ \A v \in Workers \ {w} : worker'[v] = worker[v]
  BY DEF Take, TypeInv, ReleasesTypeOK
<1>3. job \in Jobs /\ Contents(queue) = Contents(queue') \cup {job}
  BY <1>1, ContentsTail, WorkerJob
<1> HIDE DEF job
<1>4. Stage(w)' = (IF job.rel = Teardown THEN "stop" ELSE "begin") /\ Rel(w)' = job.rel
  BY <1>2 DEF Stage, Rel
<1>5. \A r : Bare(r)' <=> Bare(r)
  BY <1>1 DEF Bare, rows
<1>6. Contents(stranded') = Contents(stranded)
  BY <1>1 DEF Contents
<1>7. ASSUME Few
      PROVE  /\ WorkerHolds(w)' /\ ListsHold'
             /\ \A r \in Releases :
                  /\ Bare(r)' /\ r \notin unpushed
                  /\ Has(queue, r) \/ Has(stranded, r) \/ (Rel(w) = r /\ Stage(w) \in Writes)
                  => Held(r)'
  <2>1. ListsHold
    BY <1>7, WorkerJob
  <2>2. ListsHold'
    BY <1>1, <1>3, <1>5, <1>6, <2>1 DEF ListsHold
  <2>3. WorkerHolds(w)'
    <3>1. Bare(Rel(w))' => Bare(job.rel)
      BY <1>1, <1>4 DEF Bare, rows
    <3>2. Bare(job.rel) => job.retries <= faults
      BY <1>3, <2>1 DEF ListsHold
    <3> QED
      BY <1>1, <1>2, <1>4, <3>1, <3>2 DEF WorkerHolds, Writes
  <2>4. ASSUME NEW r \in Releases, Has(queue, r)
        PROVE  Held(r)'
    <3>1. Has(queue', r) \/ job.rel = r
      BY <1>3, <2>4, HasContents
    <3>2. r # Teardown
      BY DEF Releases, Teardown
    <3> QED
      BY <1>4, <3>1, <3>2 DEF Held, Writes
  <2>5. ASSUME NEW r \in Releases, Has(stranded, r)
        PROVE  Held(r)'
    BY <1>6, <2>5, HasContents DEF Held
  <2> QED
    BY <1>1, <2>2, <2>3, <2>4, <2>5 DEF Writes
<1> QED
  BY <1>1, <1>2, <1>5, <1>7, PendStep DEF history

\* A worker is idle again.
LEMMA PendReset ==
  ASSUME TypeInv, PendInv, NEW w \in Workers, worker' = [worker EXCEPT ![w] = Idle],
         unpushed' = unpushed, status' = status, faults' \in {faults, faults + 1},
         Few /\ Few' => ListsHold',
         \A r : Has(queue, r) => Has(queue', r),
         \A r : Has(stranded, r) => Has(stranded', r),
         \A r \in Releases : Few /\ Few' /\ Bare(r) /\ Rel(w) = r /\ Stage(w) \in Writes
           => Has(queue', r) \/ Has(stranded', r)
  PROVE  PendInv'
<1>1. worker'[w] = Idle /\ \A v \in Workers \ {w} : worker'[v] = worker[v]
  BY DEF TypeInv, ReleasesTypeOK
<1>2. Stage(w)' = "idle" /\ Rel(w)' = 0
  BY <1>1 DEF Stage, Rel, Idle, Teardown
<1>3. WorkerHolds(w)'
  BY <1>2 DEF WorkerHolds, Bare, Releases
<1>4. \A r : Bare(r)' <=> Bare(r)
  BY DEF Bare
<1>5. Few /\ Few' => \A r \in Releases :
        /\ Bare(r)' /\ r \notin unpushed
        /\ Has(queue, r) \/ Has(stranded, r) \/ (Rel(w) = r /\ Stage(w) \in Writes)
        => Held(r)'
  BY <1>4 DEF Held
<1> QED
  BY <1>1, <1>3, <1>4, <1>5, PendStep

LEMMA AckPend ==
  ASSUME TypeInv, PendInv, NEW w \in Workers, Ack(w)
  PROVE  PendInv'
<1>1. UNCHANGED <<rows, lists, docker, history, faults>> /\ Stage(w) = "ack"
  BY DEF Ack
<1>2. \A r : Bare(r)' => Bare(r)
  BY <1>1 DEF Bare, rows
<1>3. Few => ListsHold'
  BY <1>1, <1>2, WorkerJob, ListsHoldSame DEF lists
<1>4. \A r : (Has(queue', r) <=> Has(queue, r)) /\ (Has(stranded', r) <=> Has(stranded, r))
  BY <1>1 DEF Has, lists
<1> QED
  BY <1>1, <1>3, <1>4, PendReset DEF Ack, rows, history, Writes

LEMMA NackPend ==
  ASSUME TypeInv, PendInv, NEW w \in Workers, Nack(w)
  PROVE  PendInv'
<1> DEFINE job == worker[w].job
<1>1. job \in Jobs /\ Requeue(job) /\ job.rel = Rel(w)
  BY WorkerJob DEF Nack
<1>2. UNCHANGED <<rows, stranded, docker, history, faults>> /\ Stage(w) = "nack"
  BY DEF Nack
<1> HIDE DEF job
<1>3. \A r : Has(queue, r) => Has(queue', r)
  BY <1>1, RequeueType DEF TypeInv
<1>4. ASSUME Few PROVE ListsHold'
  <2>1. ListsHold /\ ~Bare(job.rel)
    BY <1>1, <1>2, <1>4, WorkerJob DEF Writes
  <2>2. \A k \in Contents(queue') : k \in Contents(queue) \/ k.rel = job.rel
    BY <1>1, RequeueContents
  <2>3. Contents(stranded') = Contents(stranded) /\ \A r : Bare(r)' <=> Bare(r)
    BY <1>2 DEF Contents, Bare, rows
  <2> QED
    BY <1>2, <2>1, <2>2, <2>3 DEF ListsHold
<1>5. \A r : Has(stranded', r) <=> Has(stranded, r)
  BY <1>2 DEF Has
<1> QED
  BY <1>2, <1>3, <1>4, <1>5, PendReset DEF Nack, rows, history, Writes

LEMMA DiePend ==
  ASSUME TypeInv, PendInv, NEW w \in Workers, Die(w)
  PROVE  PendInv'
<1> DEFINE job == worker[w].job
<1>1. /\ job \in Jobs /\ job.rel = Rel(w) /\ job.retries \in Nat /\ faults \in Nat
      /\ stranded \in Seq(Jobs)
  BY WorkerJob
<1>2. /\ UNCHANGED <<rows, queue, dlq, docker, history>> /\ faults' = faults + 1
      /\ worker[w].leased => stranded' = Append(stranded, job)
      /\ ~worker[w].leased => stranded' = stranded
      /\ Stage(w) # "idle"
  BY DEF Die, Fault
<1> HIDE DEF job
<1>3. /\ \A k \in Contents(stranded') : k \in Contents(stranded) \/ k = job
      /\ \A r : Has(stranded, r) => Has(stranded', r)
      /\ worker[w].leased => Has(stranded', Rel(w))
  <2>1. CASE worker[w].leased
    <3>1. Contents(stranded') = Contents(stranded) \cup {job}
      BY <1>1, <1>2, <2>1, ContentsAppend
    <3> QED
      BY <1>1, <3>1, HasContents
  <2>2. CASE ~worker[w].leased
    BY <1>2, <2>2
  <2> QED
    BY <2>1, <2>2
<1>4. \A r : Has(queue', r) <=> Has(queue, r)
  BY <1>2 DEF Has
<1>5. ASSUME Few PROVE ListsHold'
  <2>1. ListsHold /\ (Bare(job.rel) => job.retries <= faults)
    BY <1>1, <1>2, <1>5, WorkerJob DEF WorkerHolds, Writes, job
  <2>2. Contents(queue') = Contents(queue) /\ \A r : Bare(r)' <=> Bare(r)
    BY <1>2 DEF Contents, Bare, rows
  <2>3. /\ \A k \in Contents(queue) : k.retries \in Nat
        /\ \A k \in Contents(stranded) : k.retries \in Nat
    <3>1. queue \in Seq(Jobs) /\ stranded \in Seq(Jobs)
      BY WorkerJob
    <3>2. Contents(queue) \subseteq Jobs /\ Contents(stranded) \subseteq Jobs
      BY <3>1, ElementOfSeq DEF Contents
    <3> QED
      BY <3>2 DEF Jobs
  <2> QED
    BY <1>1, <1>2, <1>3, <2>1, <2>2, <2>3 DEF ListsHold
<1>6. \A r \in Releases : Few /\ Few' /\ Bare(r) /\ Rel(w) = r /\ Stage(w) \in Writes
        => Has(stranded', r)
  BY <1>1, <1>2, <1>3, WorkerJob DEF WorkerHolds, Few, Writes
<1> QED
  BY <1>2, <1>3, <1>4, <1>5, <1>6, PendReset DEF Die, rows, history

LEMMA TimeOutPend ==
  ASSUME TypeInv, PendInv, NEW w \in Workers, TimeOut(w)
  PROVE  PendInv'
<1> DEFINE job == worker[w].job
<1>1. job \in Jobs /\ Requeue(job) /\ job.rel = Rel(w) /\ job.retries \in Nat /\ faults \in Nat
  BY WorkerJob DEF TimeOut
<1>2. /\ UNCHANGED <<rows, stranded, docker, history>> /\ faults' = faults + 1
      /\ Stage(w) # "idle"
  BY DEF TimeOut, Fault
<1>3. /\ worker'[w].pc = worker[w].pc /\ worker'[w].job = job
      /\ \A v \in Workers \ {w} : worker'[v] = worker[v]
  BY DEF TimeOut, TypeInv, ReleasesTypeOK, Worker
<1> HIDE DEF job
<1>4. Stage(w)' = Stage(w) /\ Rel(w)' = Rel(w)
  BY <1>1, <1>3 DEF Stage, Rel
<1>5. \A r : Has(queue, r) => Has(queue', r)
  BY <1>1, RequeueType DEF TypeInv
<1>6. \A r : (Bare(r)' <=> Bare(r)) /\ (Has(stranded', r) <=> Has(stranded, r))
  BY <1>2 DEF Bare, rows, Has
<1>7. ASSUME Few, Few' PROVE WorkerHolds(w)' /\ ListsHold'
  <2>1. /\ ListsHold /\ WorkerHolds(w)
        /\ Bare(Rel(w)) => Stage(w) \in Writes /\ job.retries <= faults
    BY <1>2, <1>7, WorkerJob DEF WorkerHolds, job
  <2>2. WorkerHolds(w)'
    <3>1. Bare(Rel(w))' => Bare(Rel(w))
      BY <1>2, <1>4 DEF Bare, rows
    <3> QED
      BY <1>1, <1>2, <1>3, <1>4, <2>1, <3>1 DEF WorkerHolds, Writes
  <2>3. ListsHold'
    <3>1. Contents(stranded') = Contents(stranded)
      BY <1>2 DEF Contents
    <3>2. \A k \in Contents(queue') :
            k \in Contents(queue) \/ (k.rel = job.rel /\ k.retries = job.retries + 1)
      BY <1>1, RequeueContents
    <3>3. /\ \A k \in Contents(queue) : k.retries \in Nat
          /\ \A k \in Contents(stranded) : k.retries \in Nat
      <4>1. queue \in Seq(Jobs) /\ stranded \in Seq(Jobs)
        BY WorkerJob
      <4>2. Contents(queue) \subseteq Jobs /\ Contents(stranded) \subseteq Jobs
        BY <4>1, ElementOfSeq DEF Contents
      <4> QED
        BY <4>2 DEF Jobs
    <3> QED
      BY <1>1, <1>2, <1>6, <2>1, <3>1, <3>2, <3>3 DEF ListsHold
  <2> QED
    BY <2>2, <2>3
<1>8. \A r \in Releases :
        Has(queue, r) \/ Has(stranded, r) \/ (Rel(w) = r /\ Stage(w) \in Writes) => Held(r)'
  BY <1>4, <1>5, <1>6 DEF Held
<1> QED
  BY <1>2, <1>3, <1>6, <1>7, <1>8, PendStep DEF history

\* The reaper gives nothing up that it has not handed out before.
LEMMA ReapJobPend ==
  ASSUME TypeInv, PendInv, ReapJob
  PROVE  PendInv'
<1>1. PICK i \in 1 .. Len(stranded) : stranded' = Without(stranded, i) /\ Requeue(stranded[i])
  BY DEF ReapJob, Without
<1> DEFINE job == stranded[i]
<1>2. UNCHANGED <<rows, worker, docker, history, faults>>
  BY DEF ReapJob
<1>3. stranded \in Seq(Jobs) /\ faults \in Nat /\ MaxRetries \in Nat
  BY ReleasesAssumption DEF TypeInv, ReleasesTypeOK
<1>4. job \in Jobs /\ Contents(stranded) = Contents(stranded') \cup {job} /\ job.retries \in Nat
  <2>1. job \in Jobs /\ Contents(stranded) = Contents(stranded') \cup {job}
    BY <1>1, <1>3, ContentsWithout
  <2> QED
    BY <2>1 DEF Jobs
<1>5. Requeue(job)
  BY <1>1
<1> HIDE DEF job
<1>6. /\ \A k \in Contents(queue') :
           k \in Contents(queue) \/ (k.rel = job.rel /\ k.retries = job.retries + 1)
      /\ job.retries + 1 < MaxRetries => Has(queue', job.rel)
  BY <1>4, <1>5, RequeueContents
<1>7. \A r : Has(queue, r) => Has(queue', r)
  BY <1>4, <1>5, RequeueType DEF TypeInv
<1>8. \A r : Bare(r)' <=> Bare(r)
  BY <1>2 DEF Bare, rows
<1>9. \A w \in Workers : (WorkerHolds(w)' <=> WorkerHolds(w)) /\ Stage(w)' = Stage(w) /\ Rel(w)' = Rel(w)
  BY <1>2 DEF WorkerHolds, Stage, Rel, Bare, rows
<1>10. (Few' <=> Few) /\ unpushed' = unpushed /\ faults' = faults
  BY <1>2 DEF Few, history
<1>11. ASSUME Few PROVE ListsHold' /\ (Bare(job.rel) => Has(queue', job.rel))
  <2>1. ListsHold
    BY <1>11 DEF PendInv
  <2>2. Bare(job.rel) => job.retries + 1 <= faults
    BY <1>3, <1>4, <2>1 DEF ListsHold
  <2>3. job.retries + 1 <= faults => job.retries + 1 < MaxRetries
    BY <1>3, <1>4, <1>11 DEF Few
  <2> QED
    BY <1>4, <1>6, <1>8, <1>10, <2>1, <2>2, <2>3 DEF ListsHold
<1>12. ASSUME Few, NEW r \in Releases, Bare(r), Held(r)
       PROVE  Held(r)'
  <2>1. Has(stranded, r) => Has(stranded', r) \/ job.rel = r
    BY <1>4, HasContents
  <2> QED
    BY <1>7, <1>9, <1>11, <1>12, <2>1 DEF Held
<1> QED
  BY <1>8, <1>9, <1>10, <1>11, <1>12 DEF PendInv

LEMMA NewReleasePend ==
  ASSUME TypeInv, PendInv, NEW from \in Releases \cup {0}, NewRelease(from)
  PROVE  PendInv'
<1> DEFINE n == created + 1
<1>1. /\ n \in Releases /\ n > created
      /\ NewJob(n) \in Jobs /\ NewJob(n).rel = n /\ NewJob(n).retries = 0
  <2>1. n \in Releases /\ n > created
    BY ReleasesAssumption DEF TypeInv, ReleasesTypeOK, NewRelease, Releases
  <2> QED
    BY <2>1, JobTypes DEF NewJob
<1>2. /\ status' = [status EXCEPT ![n] = "pending"]
      /\ UNCHANGED <<stranded, worker>>
      /\ \/ queue' = Append(queue, NewJob(n)) /\ UNCHANGED <<unpushed, faults>>
         \/ faults' = faults + 1 /\ unpushed' = unpushed \cup {n} /\ UNCHANGED queue
  BY DEF NewRelease, Fault
<1>3. /\ queue \in Seq(Jobs) /\ stranded \in Seq(Jobs) /\ faults \in Nat /\ MaxRetries \in Nat
      /\ ~Has(queue, n) /\ ~Has(stranded, n) /\ \A w \in Workers : Rel(w) # n
  BY <1>1, ReleasesAssumption DEF TypeInv, ReleasesTypeOK, JobInv
<1> HIDE DEF n
<1>4. \A r : r # n => (Bare(r)' <=> Bare(r))
  BY <1>2 DEF Bare, TypeInv, ReleasesTypeOK
<1>5. /\ Contents(stranded') = Contents(stranded)
      /\ \/ Contents(queue') = Contents(queue) \cup {NewJob(n)}
         \/ Contents(queue') = Contents(queue) /\ n \in unpushed'
      /\ unpushed \subseteq unpushed'
  <2>1. Contents(Append(queue, NewJob(n))) = Contents(queue) \cup {NewJob(n)}
    BY <1>1, <1>3, ContentsAppend
  <2> QED
    BY <1>2, <2>1
<1>6. /\ Contents(queue) \subseteq Jobs /\ Contents(stranded) \subseteq Jobs
      /\ \A k \in Contents(queue) \cup Contents(stranded) : k.rel # n /\ k.retries \in Nat
  <2>1. Contents(queue) \subseteq Jobs /\ Contents(stranded) \subseteq Jobs
    BY <1>3, ElementOfSeq DEF Contents
  <2>2. \A k \in Contents(queue) \cup Contents(stranded) : k.rel # n
    BY <1>3, HasContents
  <2> QED
    BY <2>1, <2>2 DEF Jobs
<1>7. ASSUME Few' PROVE Few
  BY <1>2, <1>3, <1>7 DEF Few
<1>8. ASSUME Few', NEW w \in Workers PROVE WorkerHolds(w)'
  <2>1. /\ WorkerHolds(w) /\ worker[w].job.retries \in Nat /\ Rel(w) # n
        /\ faults' \in {faults, faults + 1}
    BY <1>2, <1>3, <1>7, <1>8, WorkerJob
  <2>2. Stage(w)' = Stage(w) /\ Rel(w)' = Rel(w) /\ worker'[w] = worker[w]
    BY <1>2 DEF Stage, Rel
  <2>3. Bare(Rel(w))' => Bare(Rel(w))
    BY <1>2, <2>1, <2>2 DEF Bare, TypeInv, ReleasesTypeOK
  <2> QED
    BY <1>3, <2>1, <2>2, <2>3 DEF WorkerHolds
<1>9. ASSUME Few' PROVE ListsHold'
  <2>1. ListsHold
    BY <1>7, <1>9 DEF PendInv
  <2>2. \A k \in Contents(queue') :
          k \in Contents(queue) \/ (k.rel = n /\ k.retries = 0)
    BY <1>1, <1>5
  <2>3. faults' \in {faults, faults + 1}
    BY <1>2
  <2> QED
    BY <1>3, <1>4, <1>5, <1>6, <2>1, <2>2, <2>3 DEF ListsHold
<1>10. ASSUME Few', NEW r \in Releases, Bare(r)', r \notin unpushed'
       PROVE  Held(r)'
  <2>1. CASE r = n
    <3>1. Contents(queue') = Contents(queue) \cup {NewJob(n)}
      BY <1>5, <1>10, <2>1
    <3> QED
      BY <1>1, <2>1, <3>1, HasContents DEF Held
  <2>2. CASE r # n
    <3>1. Held(r)
      BY <1>4, <1>5, <1>7, <1>10, <2>2 DEF PendInv
    <3>2. Has(queue, r) => Has(queue', r)
      BY <1>5, HasContents
    <3>3. /\ Has(stranded', r) <=> Has(stranded, r)
          /\ \A w \in Workers : Stage(w)' = Stage(w) /\ Rel(w)' = Rel(w)
      BY <1>2 DEF Has, Stage, Rel
    <3> QED
      BY <3>1, <3>2, <3>3 DEF Held
  <2> QED
    BY <2>1, <2>2
<1> QED
  BY <1>7, <1>8, <1>9, <1>10 DEF PendInv

\* A step that neither touches what the workers do nor makes a release pending.
LEMMA QuietPend ==
  ASSUME TypeInv, PendInv, UNCHANGED <<worker, stranded, unpushed>>,
         faults' \in {faults, faults + 1}, \A r : Bare(r)' => Bare(r),
         queue' = queue \/ queue' = Append(queue, NewJob(Teardown))
  PROVE  PendInv'
<1>1. /\ queue \in Seq(Jobs) /\ stranded \in Seq(Jobs) /\ faults \in Nat /\ MaxRetries \in Nat
      /\ NewJob(Teardown) \in Jobs /\ NewJob(Teardown).rel = Teardown
  BY JobTypes, ReleasesAssumption DEF TypeInv, ReleasesTypeOK, NewJob
<1>2. Few' => Few
  BY <1>1 DEF Few
<1>3. /\ Contents(stranded') = Contents(stranded)
      /\ Contents(queue) \subseteq Contents(queue')
      /\ \A k \in Contents(queue') : k \in Contents(queue) \/ k.rel = Teardown
  BY <1>1, ContentsAppend DEF Contents
<1>4. \A k \in Contents(queue) \cup Contents(stranded) : k.retries \in Nat
  <2>1. Contents(queue) \subseteq Jobs /\ Contents(stranded) \subseteq Jobs
    BY <1>1, ElementOfSeq DEF Contents
  <2> QED
    BY <2>1 DEF Jobs
<1>5. ~Bare(Teardown)'
  BY DEF Bare, Teardown, Releases
<1>6. ASSUME Few' PROVE ListsHold'
  <2>1. ListsHold
    BY <1>2, <1>6 DEF PendInv
  <2> QED
    BY <1>1, <1>3, <1>4, <1>5, <2>1 DEF ListsHold
<1>7. ASSUME Few', NEW w \in Workers PROVE WorkerHolds(w)'
  <2>1. WorkerHolds(w) /\ worker[w].job.retries \in Nat
    BY <1>2, <1>7, WorkerJob
  <2>2. Stage(w)' = Stage(w) /\ Rel(w)' = Rel(w)
    BY DEF Stage, Rel
  <2>3. Bare(Rel(w))' => Bare(Rel(w))
    <3>1. PICK r : r = Rel(w)
      OBVIOUS
    <3> QED
      BY <2>2, <3>1 DEF Bare
  <2> QED
    BY <1>1, <2>1, <2>2, <2>3 DEF WorkerHolds
<1>8. ASSUME Few', NEW r \in Releases, Bare(r)', r \notin unpushed
      PROVE  Held(r)'
  <2>1. Held(r)
    BY <1>2, <1>8 DEF PendInv
  <2>2. (Has(queue, r) => Has(queue', r)) /\ (Has(stranded, r) => Has(stranded', r))
    BY <1>3, HasContents
  <2>3. \A w \in Workers : Stage(w)' = Stage(w) /\ Rel(w)' = Rel(w)
    BY DEF Stage, Rel
  <2> QED
    BY <2>1, <2>2, <2>3 DEF Held
<1> QED
  BY <1>2, <1>6, <1>7, <1>8 DEF PendInv

LEMMA RequestsPend ==
  ASSUME TypeInv, PendInv,
         \/ ClosePullRequest \/ DeleteTarget
         \/ \E r \in Releases : DestroyPreviewRelease(r) \/ SweepStaleReleases(r)
  PROVE  PendInv'
<1>1. \A r : Bare(r)' => Bare(r)
  <2>1. CASE ClosePullRequest \/ DeleteTarget
    BY <2>1 DEF ClosePullRequest, DeleteTarget, Bare
  <2>2. ASSUME NEW k \in Releases, DestroyPreviewRelease(k) \/ SweepStaleReleases(k)
        PROVE  \A r : Bare(r)' => Bare(r)
    <3>1. CASE DestroyPreviewRelease(k)
      BY <3>1 DEF DestroyPreviewRelease, Bare, TypeInv, ReleasesTypeOK
    <3>2. CASE SweepStaleReleases(k)
      BY <3>2, WrittenBare DEF SweepStaleReleases
    <3> QED
      BY <2>2, <3>1, <3>2
  <2> QED
    BY <2>1, <2>2
<1>2. CASE ~DeleteTarget
  BY <1>1, <1>2, QuietPend
     DEF ClosePullRequest, DestroyPreviewRelease, SweepStaleReleases, lists, history
<1>3. CASE DeleteTarget
  BY <1>1, <1>3, QuietPend DEF DeleteTarget, Fault
<1> QED
  BY <1>2, <1>3

LEMMA PendNext == TypeInv /\ PendInv /\ [ReleasesNext]_releasesVars => PendInv'
<1> SUFFICES ASSUME TypeInv, PendInv, [ReleasesNext]_releasesVars PROVE PendInv'
  OBVIOUS
<1>1. CASE UNCHANGED releasesVars
  BY <1>1, QuietPend DEF releasesVars, Bare
<1>2. CASE TriggerPipeline \/ OpenPullRequest \/ \E r \in Releases : RollbackRelease(r)
  BY <1>2, NewReleasePend DEF TriggerPipeline, OpenPullRequest, RollbackRelease
<1>3. ASSUME NEW w \in Workers, WorkerStep(w) PROVE PendInv'
  <2>1. CASE Clear(w)
    BY <2>1, QuietPend DEF Clear, rows, lists, history, Bare
  <2> QED
    BY <1>3, <2>1, TakePend, AckPend, NackPend, GotosPend DEF WorkerStep
<1>4. ASSUME NEW w \in Workers, WorkerFault(w) PROVE PendInv'
  BY <1>4, GotosPend, DiePend, TimeOutPend DEF WorkerFault
<1> QED
  BY <1>1, <1>2, <1>3, <1>4, RequestsPend, ReapJobPend DEF ReleasesNext

\* While at most one thing has gone wrong, and fewer than a job has retries, a
\* release in "pending", which no sweep looks at, is held by a job or a worker
\* that will yet write its status: for any number of builds workers.
THEOREM PendingIsHeldTheorem == ReleasesSpec => []PendingIsHeld
<1>1. ReleasesInit => TypeInv /\ PendInv
  <2>1. ASSUME ReleasesInit
        PROVE  /\ \A r : ~Bare(r)
               /\ Contents(queue) = {} /\ Contents(stranded) = {}
    BY <2>1, EmptySeq DEF ReleasesInit, Bare, Contents
  <2> QED
    BY <2>1, ReleasesInitInv DEF PendInv, WorkerHolds, ListsHold
<1>2. TypeInv /\ PendInv /\ [ReleasesNext]_releasesVars => TypeInv' /\ PendInv'
  BY ReleasesNextInv, PendNext
<1>3. PendInv => PendingIsHeld
  BY DEF PendInv, PendingIsHeld, Few, Bare, Held
<1> QED
  BY <1>1, <1>2, <1>3, PTL DEF ReleasesSpec
=============================================================================
