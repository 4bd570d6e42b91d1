--------------------------- MODULE JobQueueProofs ---------------------------
(***************************************************************************)
(* What TLC checks of JobQueue on small instances, proved for any set of   *)
(* jobs and processes, any number of retries and any number of faults.     *)
(***************************************************************************)
EXTENDS JobQueue, SequenceTheorems, FiniteSetTheorems, WellFoundedInduction, TLAPS

-----------------------------------------------------------------------------
(* The list commands.                                                      *)

\* What it means to be on a list.
LEMMA OnList ==
  ASSUME NEW S, NEW s \in Seq(S)
  PROVE  /\ \A i \in 1 .. Len(s) : s[i] \in ToSet(s)
         /\ \A x \in ToSet(s) : x \in S /\ \E i \in 1 .. Len(s) : s[i] = x
<1>1. DOMAIN s = 1 .. Len(s) /\ \A i \in 1 .. Len(s) : s[i] \in S
  OBVIOUS
<1>. QED BY ONLY <1>1 DEF ToSet

\* LPUSH adds one element and keeps the others.
LEMMA LPushLemma ==
  ASSUME NEW S, NEW s \in Seq(S), NEW x \in S
  PROVE  /\ LPush(s, x) \in Seq(S)
         /\ ToSet(LPush(s, x)) = ToSet(s) \cup {x}
<1>. DEFINE t == Append(s, x)
<1>1. /\ t \in Seq(S) /\ Len(t) = Len(s) + 1 /\ Len(s) \in Nat
      /\ t[Len(s) + 1] = x
      /\ \A i \in 1 .. Len(s) : t[i] = s[i]
  OBVIOUS
<1>. HIDE DEF t
<1>2. /\ \A i \in 1 .. Len(t) : t[i] \in ToSet(t)
      /\ \A y \in ToSet(t) : \E i \in 1 .. Len(t) : t[i] = y
      /\ \A i \in 1 .. Len(s) : s[i] \in ToSet(s)
      /\ \A y \in ToSet(s) : \E i \in 1 .. Len(s) : s[i] = y
  BY <1>1, OnList
<1>3. ToSet(t) = ToSet(s) \cup {x}
  BY <1>1, <1>2
<1>. QED BY <1>1, <1>3 DEF LPush, t

\* Taking the head of a list, as BLMOVE and the reaper's loop do, leaves the
\* other elements in its tail.
LEMMA HeadTailLemma ==
  ASSUME NEW S, NEW s \in Seq(S), s # <<>>
  PROVE  /\ Head(s) \in S
         /\ Tail(s) \in Seq(S)
         /\ ToSet(s) = {Head(s)} \cup ToSet(Tail(s))
<1>. DEFINE t == Tail(s)
<1>1. /\ Len(s) \in Nat \ {0} /\ Head(s) = s[1] /\ Head(s) \in S
      /\ t \in Seq(S) /\ Len(t) = Len(s) - 1
      /\ \A i \in 1 .. Len(t) : t[i] = s[i + 1]
  OBVIOUS
<1>. HIDE DEF t
<1>2. /\ \A i \in 1 .. Len(t) : t[i] \in ToSet(t)
      /\ \A y \in ToSet(t) : \E i \in 1 .. Len(t) : t[i] = y
      /\ \A i \in 1 .. Len(s) : s[i] \in ToSet(s)
      /\ \A y \in ToSet(s) : \E i \in 1 .. Len(s) : s[i] = y
  BY <1>1, OnList
<1>3. \A i \in 1 .. Len(s) : i = 1 \/ (i - 1 \in 1 .. Len(t) /\ s[i] = t[i - 1])
  BY <1>1
<1>4. ToSet(s) \subseteq {Head(s)} \cup ToSet(t)
  BY <1>1, <1>2, <1>3
<1>5. ToSet(t) \subseteq ToSet(s)
  <2>. SUFFICES ASSUME NEW y \in ToSet(t) PROVE y \in ToSet(s)
    OBVIOUS
  <2>1. PICK i \in 1 .. Len(t) : t[i] = y
    BY <1>2
  <2>2. i + 1 \in 1 .. Len(s) /\ s[i + 1] = y
    BY <1>1, <2>1
  <2>. QED BY <1>2, <2>2
<1>6. Head(s) \in ToSet(s)
  BY <1>1, <1>2
<1>. QED BY <1>1, <1>4, <1>5, <1>6 DEF t

\* A list without its n-th element: the later ones move up.
LEMMA RemovedAt ==
  ASSUME NEW S, NEW s \in Seq(S), NEW n \in 1 .. Len(s)
  PROVE  /\ RemoveAt(s, n) \in Seq(S)
         /\ Len(RemoveAt(s, n)) = Len(s) - 1
         /\ \A i \in 1 .. Len(s) - 1 :
              RemoveAt(s, n)[i] = IF i < n THEN s[i] ELSE s[i + 1]
<1>. DEFINE a == SubSeq(s, 1, n - 1)
            b == SubSeq(s, n + 1, Len(s))
            t == a \o b
<1>1. /\ a \in Seq(S) /\ Len(a) = n - 1
      /\ \A i \in 1 .. n - 1 : a[i] = s[i]
  OBVIOUS
<1>2. /\ b \in Seq(S) /\ Len(b) = Len(s) - n
      /\ \A i \in 1 .. Len(s) - n : b[i] = s[n + i]
  OBVIOUS
<1>0. Len(s) \in Nat /\ n \in Nat /\ 1 <= n /\ n <= Len(s)
  OBVIOUS
<1>. HIDE DEF a, b
<1>3. t \in Seq(S) /\ Len(t) = Len(s) - 1
  <2>1. t \in Seq(S) /\ Len(t) = Len(a) + Len(b)
    BY <1>1, <1>2, ConcatProperties
  <2>. QED BY <2>1, <1>0, <1>1, <1>2
<1>4. \A i \in 1 .. Len(t) : t[i] = IF i < n THEN s[i] ELSE s[i + 1]
  <2>. SUFFICES ASSUME NEW i \in 1 .. Len(t)
                PROVE  t[i] = IF i < n THEN s[i] ELSE s[i + 1]
    OBVIOUS
  <2>1. t[i] = IF i <= Len(a) THEN a[i] ELSE b[i - Len(a)]
    BY <1>1, <1>2, <1>3, ConcatProperties
  <2>2. CASE i < n
    BY <2>1, <2>2, <1>0, <1>1
  <2>3. CASE ~(i < n)
    <3>1. i - (n - 1) \in 1 .. Len(s) - n
      BY <2>3, <1>0, <1>3
    <3>2. n + (i - (n - 1)) = i + 1
      BY <1>0
    <3>3. b[i - (n - 1)] = s[i + 1]
      BY <3>1, <3>2, <1>2
    <3>. QED BY <2>1, <2>3, <3>3, <1>0, <1>1
  <2>. QED BY <2>2, <2>3
<1>5. RemoveAt(s, n) = t
  BY DEF RemoveAt, t, a, b
<1>. HIDE DEF t
<1>6. 1 .. Len(t) = 1 .. Len(s) - 1
  BY <1>3
<1>. QED BY <1>3, <1>4, <1>5, <1>6

\* It holds all the others.
LEMMA RemoveAtLemma ==
  ASSUME NEW S, NEW s \in Seq(S), NEW n \in 1 .. Len(s)
  PROVE  /\ RemoveAt(s, n) \in Seq(S)
         /\ ToSet(RemoveAt(s, n)) \subseteq ToSet(s)
         /\ ToSet(s) \subseteq ToSet(RemoveAt(s, n)) \cup {s[n]}
<1>. DEFINE t == RemoveAt(s, n)
<1>0. Len(s) \in Nat /\ n \in Nat /\ 1 <= n /\ n <= Len(s)
  OBVIOUS
<1>1. /\ t \in Seq(S) /\ Len(t) = Len(s) - 1
      /\ \A i \in 1 .. Len(s) - 1 : t[i] = IF i < n THEN s[i] ELSE s[i + 1]
  BY RemovedAt
<1>. HIDE DEF t
<1>2. /\ \A i \in 1 .. Len(t) : t[i] \in ToSet(t)
      /\ \A y \in ToSet(t) : \E i \in 1 .. Len(t) : t[i] = y
      /\ \A i \in 1 .. Len(s) : s[i] \in ToSet(s)
      /\ \A y \in ToSet(s) : \E i \in 1 .. Len(s) : s[i] = y
  BY <1>1, OnList
<1>3. ToSet(t) \subseteq ToSet(s)
  <2>. SUFFICES ASSUME NEW y \in ToSet(t) PROVE y \in ToSet(s)
    OBVIOUS
  <2>1. PICK i \in 1 .. Len(t) : t[i] = y
    BY <1>2
  <2>2. /\ i \in 1 .. Len(s) /\ i + 1 \in 1 .. Len(s)
        /\ t[i] = s[i] \/ t[i] = s[i + 1]
    BY <1>0, <1>1
  <2>. QED BY <2>1, <2>2, <1>2
<1>4. \A i \in 1 .. Len(s) : \/ i = n
                             \/ i \in 1 .. Len(t) /\ t[i] = s[i]
                             \/ i - 1 \in 1 .. Len(t) /\ t[i - 1] = s[i]
  BY <1>0, <1>1
<1>5. ToSet(s) \subseteq ToSet(t) \cup {s[n]}
  <2>. SUFFICES ASSUME NEW y \in ToSet(s) PROVE y \in ToSet(t) \cup {s[n]}
    OBVIOUS
  <2>1. PICK i \in 1 .. Len(s) : s[i] = y
    BY <1>2
  <2>. QED BY <2>1, <1>2, <1>4
<1>. QED BY <1>1, <1>3, <1>5 DEF t

\* Some element of a list is the last one that equals x.
LEMMA LastCopy ==
  ASSUME NEW S, NEW s \in Seq(S), NEW x \in ToSet(s)
  PROVE  \E i \in DOMAIN s : /\ s[i] = x
                              /\ \A k \in DOMAIN s : s[k] = x => k <= i
<1>. DEFINE Dist == {d \in Nat : \E i \in 1 .. Len(s) : s[i] = x /\ d = Len(s) - i}
            Less == {ss \in Nat \X Nat : ss[1] < ss[2]}
<1>1. PICK i \in 1 .. Len(s) : s[i] = x
  BY OnList
<1>2. Dist # {} /\ Dist \subseteq Nat
  <2>1. Len(s) - i \in Dist
    BY <1>1
  <2>. QED BY <2>1
<1>3. IsWellFoundedOn(Less, Nat)
  BY NatLessThanWellFounded, Zenon DEF OpToRel
<1>4. \A e, f \in Nat : e < f => <<e, f>> \in Less
  OBVIOUS
<1>. HIDE DEF Less
<1>5. PICK d \in Dist : \A e \in Dist : <<e, d>> \notin Less
  BY <1>2, <1>3, WFMin
<1>6. ASSUME NEW e \in Dist PROVE d <= e
  <2>1. d \in Nat /\ e \in Nat /\ <<e, d>> \notin Less
    BY <1>2, <1>5
  <2>. QED BY <2>1, <1>4
<1>7. PICK m \in 1 .. Len(s) : s[m] = x /\ d = Len(s) - m
  OBVIOUS
<1>8. \A k \in 1 .. Len(s) : s[k] = x => k <= m
  <2>. SUFFICES ASSUME NEW k \in 1 .. Len(s), s[k] = x PROVE k <= m
    OBVIOUS
  <2>1. Len(s) - k \in Dist
    OBVIOUS
  <2>2. Len(s) - m <= Len(s) - k
    BY <2>1, <1>6, <1>7
  <2>. QED BY <2>2
<1>. QED BY <1>7, <1>8

\* LREM removes one copy of x, or there is none.
LEMMA LRemIsRemoveAt ==
  ASSUME NEW S, NEW s \in Seq(S), NEW x \in ToSet(s)
  PROVE  \E n \in 1 .. Len(s) : s[n] = x /\ LRem(s, x) = RemoveAt(s, n)
<1>. DEFINE Nearest(i) == /\ s[i] = x
                          /\ \A k \in DOMAIN s : s[k] = x => k <= i
            n == CHOOSE i \in DOMAIN s : Nearest(i)
<1>1. \E i \in DOMAIN s : Nearest(i)
  BY LastCopy
<1>2. n \in DOMAIN s /\ s[n] = x
  BY <1>1
<1>3. LRem(s, x) = RemoveAt(s, n)
  BY DEF LRem
<1>. HIDE DEF n
<1>. QED BY <1>2, <1>3

\* LREM adds nothing and takes away copies of x only.
LEMMA LRemLemma ==
  ASSUME NEW S, NEW s \in Seq(S), NEW x
  PROVE  /\ LRem(s, x) \in Seq(S)
         /\ ToSet(LRem(s, x)) \subseteq ToSet(s)
         /\ ToSet(s) \subseteq ToSet(LRem(s, x)) \cup {x}
<1>1. CASE x \notin ToSet(s)
  BY <1>1 DEF LRem
<1>2. CASE x \in ToSet(s)
  <2>1. PICK n \in 1 .. Len(s) : s[n] = x /\ LRem(s, x) = RemoveAt(s, n)
    BY <1>2, LRemIsRemoveAt
  <2>. QED BY <2>1, RemoveAtLemma
<1>. QED BY <1>1, <1>2

\* LRANGE returns the elements of the list.
LEMMA ReverseLemma ==
  ASSUME NEW S, NEW s \in Seq(S)
  PROVE  Reverse(s) \in Seq(S) /\ ToSet(Reverse(s)) = ToSet(s)
<1>. DEFINE t == Reverse(s)
<1>1. /\ t \in Seq(S) /\ Len(t) = Len(s) /\ Len(s) \in Nat
      /\ \A i \in 1 .. Len(s) : t[i] = s[Len(s) - i + 1]
  BY DEF Reverse
<1>. HIDE DEF t
<1>2. \A i \in 1 .. Len(s) : /\ Len(s) - i + 1 \in 1 .. Len(s)
                             /\ t[Len(s) - i + 1] = s[i]
  BY <1>1
<1>3. /\ \A i \in 1 .. Len(t) : t[i] \in ToSet(t)
      /\ \A y \in ToSet(t) : \E i \in 1 .. Len(t) : t[i] = y
      /\ \A i \in 1 .. Len(s) : s[i] \in ToSet(s)
      /\ \A y \in ToSet(s) : \E i \in 1 .. Len(s) : s[i] = y
  BY <1>1, OnList
<1>4. ToSet(t) = ToSet(s)
  <2>1. ASSUME NEW y \in ToSet(t) PROVE y \in ToSet(s)
    <3>1. PICK i \in 1 .. Len(t) : t[i] = y
      BY <1>3, <2>1
    <3>2. s[Len(s) - i + 1] = y /\ Len(s) - i + 1 \in 1 .. Len(s)
      BY <1>1, <1>2, <3>1
    <3>. QED BY <1>3, <3>2
  <2>2. ASSUME NEW y \in ToSet(s) PROVE y \in ToSet(t)
    <3>1. PICK i \in 1 .. Len(s) : s[i] = y
      BY <1>3, <2>2
    <3>2. t[Len(s) - i + 1] = y /\ Len(s) - i + 1 \in 1 .. Len(t)
      BY <1>1, <1>2, <3>1
    <3>. QED BY <1>3, <3>2
  <2>. QED BY <2>1, <2>2
<1>. QED BY <1>1, <1>4 DEF t

-----------------------------------------------------------------------------
(* The operations on one copy of a job.                                    *)

\* Incrementing Retries keeps the job.
LEMMA RetriedLemma ==
  ASSUME NEW x \in Live
  PROVE  Retried(x) \in Nacked /\ Retried(x).job = x.job
BY BoundsAssumption DEF Live, Nacked, Entry, Retried

\* Stamping a copy keeps the job and its retries.
LEMMA StampLemma ==
  ASSUME NEW x \in Live, NEW n \in 0 .. MaxClock
  PROVE  [x EXCEPT !.stamp = n] \in Live /\ [x EXCEPT !.stamp = n].job = x.job
BY DEF Live, Entry

\* The second half of a nack puts the job back or dead-letters it: with the
\* back-off inside the deadline it never drops it.
LEMMA NackPutLemma ==
  ASSUME NEW x \in Nacked, NackPut(x)
  PROVE  \/ x \in Live /\ pending' = LPush(pending, x) /\ dlq' = dlq
         \/ dlq' = LPush(dlq, x) /\ pending' = pending
<1>1. CASE x.retries >= MaxRetries
  BY <1>1, BoundsAssumption DEF NackPut, Nacked, Entry
<1>2. CASE x.retries < MaxRetries
  <2>1. x.retries \in 1 .. MaxRetries - 1 /\ x \in Live
    BY <1>2, BoundsAssumption DEF Nacked, Live, Entry
  <2>2. Backoff(x.retries) < NackDeadline
    BY <2>1, BackoffAssumption
  <2>. QED BY <1>2, <2>1, <2>2, BoundsAssumption DEF NackPut, Nacked, Entry
<1>. QED BY <1>1, <1>2, BoundsAssumption DEF Nacked, Entry

\* No copy is the empty receipt.
LEMMA NotNone ==
  /\ None \notin Live /\ None \notin Nacked
  /\ Live \subseteq Entry /\ Nacked \subseteq Entry
BY NoneAssumption DEF Live, Nacked

\* Only Push changes what counts as a live copy.
LEMMA SameLive ==
  ASSUME pushed' = pushed
  PROVE  Live' = Live /\ Nacked' = Nacked
BY DEF Live, Nacked

-----------------------------------------------------------------------------
(* Consistent is inductive.                                                *)

LEMMA InitConsistent == Init => Consistent
BY NoneAssumption, BoundsAssumption DEF Init, Consistent, TypeOK, PC, ListsConsistent,
                      WorkerConsistent, ReaperConsistent

LEMMA PushConsistent ==
  ASSUME Consistent, NEW j \in Jobs, NEW t \in 0 .. MaxClock, Push(j, t)
  PROVE  Consistent'
<1>. USE DEF Push, reaper, worker
<1>. DEFINE x == [job |-> j, retries |-> 0, stamp |-> t]
<1>1. Live \subseteq Live' /\ Nacked \subseteq Nacked'
  BY DEF Live, Nacked
<1>2. clock' \in 0 .. MaxClock
  BY DEF Consistent, TypeOK, CreatedAt, Now
<1>3. x \in Live' /\ x \in Entry
  BY BoundsAssumption DEF Live, Entry
<1>. HIDE DEF x
<1>4. pending' = LPush(pending, x)
  BY DEF x
<1>5. pending \in Seq(Live') /\ pending \in Seq(Entry)
  BY <1>1 DEF Consistent, TypeOK, ListsConsistent
<1>6. pending' \in Seq(Live') /\ pending' \in Seq(Entry)
  BY <1>3, <1>4, <1>5, LPushLemma
<1>7. ListsConsistent'
  BY <1>1, <1>6 DEF Consistent, ListsConsistent
<1>8. TypeOK'
  BY <1>2, <1>6 DEF Consistent, TypeOK
<1>9. ASSUME NEW p \in Procs PROVE WorkerConsistent(p)' /\ ReaperConsistent(p)'
  BY <1>1 DEF Consistent, WorkerConsistent, ReaperConsistent
<1>. QED BY <1>7, <1>8, <1>9 DEF Consistent

\* The parts of Consistent that an action leaves alone because it leaves their
\* variables alone.
LEMMA SameLists ==
  ASSUME Consistent, pushed' = pushed, UNCHANGED lists
  PROVE  ListsConsistent'
BY SameLive DEF Consistent, ListsConsistent, lists

LEMMA SameWorkers ==
  ASSUME Consistent, pushed' = pushed, executed' = executed, UNCHANGED worker
  PROVE  \A p \in Procs : WorkerConsistent(p)'
BY SameLive DEF Consistent, WorkerConsistent, worker

LEMMA SameReapers ==
  ASSUME Consistent, pushed' = pushed, UNCHANGED reaper
  PROVE  \A p \in Procs : ReaperConsistent(p)'
BY SameLive DEF Consistent, ReaperConsistent, reaper

\* A worker that gives up its receipt is consistent, and so are the others.
LEMMA GoIdleConsistent ==
  ASSUME Consistent, pushed' = pushed, executed' = executed,
         NEW p \in Procs, GoIdle(p)
  PROVE  /\ \A q \in Procs : WorkerConsistent(q)'
         /\ pc' \in [Procs -> PC]
         /\ raw' \in [Procs -> Entry \cup {None}]
         /\ job' \in [Procs -> Entry \cup {None}]
BY SameLive DEF Consistent, TypeOK, PC, WorkerConsistent, GoIdle

\* A consistent list holds entries.
LEMMA LiveList ==
  ASSUME NEW s \in Seq(Live) PROVE s \in Seq(Entry)
BY NotNone

LEMMA NackedList ==
  ASSUME NEW s \in Seq(Nacked) PROVE s \in Seq(Entry)
BY NotNone

\* LREM keeps the processing list consistent.
LEMMA LRemConsistent ==
  ASSUME Consistent, NEW x
  PROVE  LRem(processing, x) \in Seq(Live) /\ LRem(processing, x) \in Seq(Entry)
BY LRemLemma, LiveList DEF Consistent, ListsConsistent

-----------------------------------------------------------------------------
(* Consistent: the steps of a worker.                                      *)

LEMMA LeaseConsistent ==
  ASSUME Consistent, NEW p \in Procs, Lease(p)
  PROVE  Consistent'
<1>. DEFINE x == Head(pending)
<1>1. Live' = Live /\ Nacked' = Nacked
  BY SameLive DEF Lease
<1>2. x \in Live /\ Tail(pending) \in Seq(Live)
  BY HeadTailLemma DEF Consistent, ListsConsistent, Lease
<1>3. LPush(processing, x) \in Seq(Live)
  BY <1>2, LPushLemma DEF Consistent, ListsConsistent
<1>. HIDE DEF x
<1>4. /\ pending' = Tail(pending) /\ processing' = LPush(processing, x)
      /\ raw' = [raw EXCEPT ![p] = x] /\ job' = [job EXCEPT ![p] = x]
      /\ pc' = [pc EXCEPT ![p] = "leased"]
      /\ UNCHANGED <<dlq, clock, horizon, pushed, executed, faults>>
      /\ UNCHANGED <<todo, nacking>>
  BY DEF Lease, x, reaper
<1>5. TypeOK'
  BY <1>2, <1>3, <1>4, NotNone, LiveList DEF Consistent, TypeOK, PC
<1>6. ListsConsistent'
  BY <1>1, <1>2, <1>3, <1>4 DEF Consistent, ListsConsistent
<1>7. ASSUME NEW q \in Procs PROVE WorkerConsistent(q)'
  BY <1>1, <1>2, <1>4 DEF Consistent, TypeOK, WorkerConsistent
<1>8. \A q \in Procs : ReaperConsistent(q)'
  BY <1>4, SameReapers DEF reaper
<1>. QED BY <1>5, <1>6, <1>7, <1>8 DEF Consistent

\* Both ways of stamping: the stamped job is live and still about the receipt.
LEMMA StampConsistent ==
  ASSUME Consistent, NEW p \in Procs, pc[p] = "leased", Now,
         pushed' = pushed, executed' = executed, raw' = raw,
         job' = [job EXCEPT ![p].stamp = clock'],
         NEW l \in {"restamping", "running"}, pc' = [pc EXCEPT ![p] = l]
  PROVE  /\ \A q \in Procs : WorkerConsistent(q)'
         /\ pc' \in [Procs -> PC]
         /\ job' \in [Procs -> Entry \cup {None}]
         /\ clock' \in 0 .. MaxClock
<1>. DEFINE x == [job[p] EXCEPT !.stamp = clock']
<1>1. Live' = Live /\ Nacked' = Nacked
  BY SameLive
<1>2. clock' \in 0 .. MaxClock
  BY BoundsAssumption DEF Consistent, TypeOK, Now
<1>3. job[p] \in Live /\ job[p].job = raw[p].job /\ raw[p] \in Live
  BY DEF Consistent, WorkerConsistent
<1>4. x \in Live /\ x.job = job[p].job
  BY <1>2, <1>3, StampLemma
<1>5. job' = [job EXCEPT ![p] = x]
  BY DEF Consistent, TypeOK
<1>. HIDE DEF x
<1>6. ASSUME NEW q \in Procs PROVE WorkerConsistent(q)'
  BY <1>1, <1>3, <1>4, <1>5 DEF Consistent, TypeOK, WorkerConsistent
<1>. QED BY <1>2, <1>4, <1>5, <1>6, NotNone DEF Consistent, TypeOK, PC

LEMMA StampRemoveConsistent ==
  ASSUME Consistent, NEW p \in Procs, StampRemove(p)
  PROVE  Consistent'
<1>. DEFINE l == IF raw[p] \in ToSet(processing) THEN "restamping" ELSE "running"
<1>1. l \in {"restamping", "running"}
  OBVIOUS
<1>2. pc' = [pc EXCEPT ![p] = l]
  BY DEF StampRemove
<1>. HIDE DEF l
<1>3. /\ \A q \in Procs : WorkerConsistent(q)'
      /\ pc' \in [Procs -> PC]
      /\ job' \in [Procs -> Entry \cup {None}]
      /\ clock' \in 0 .. MaxClock
  BY <1>1, <1>2, StampConsistent DEF StampRemove
<1>4. processing' \in Seq(Live) /\ processing' \in Seq(Entry)
  BY LRemConsistent DEF StampRemove
<1>5. TypeOK'
  BY <1>3, <1>4 DEF Consistent, TypeOK, StampRemove, reaper
<1>6. ListsConsistent'
  BY <1>4, SameLive DEF Consistent, ListsConsistent, StampRemove
<1>7. \A q \in Procs : ReaperConsistent(q)'
  BY SameReapers DEF StampRemove
<1>. QED BY <1>3, <1>5, <1>6, <1>7 DEF Consistent

LEMMA StampRemoveFailsConsistent ==
  ASSUME Consistent, NEW p \in Procs, StampRemoveFails(p)
  PROVE  Consistent'
<1>1. /\ \A q \in Procs : WorkerConsistent(q)'
      /\ pc' \in [Procs -> PC]
      /\ job' \in [Procs -> Entry \cup {None}]
      /\ clock' \in 0 .. MaxClock
  BY StampConsistent DEF StampRemoveFails
<1>2. processing' \in Seq(Live) /\ processing' \in Seq(Entry)
  BY LRemConsistent DEF StampRemoveFails, Consistent, TypeOK, ListsConsistent
<1>3. TypeOK'
  BY <1>1, <1>2 DEF Consistent, TypeOK, StampRemoveFails, Fault, reaper
<1>4. ListsConsistent'
  BY <1>2, SameLive DEF Consistent, ListsConsistent, StampRemoveFails
<1>5. \A q \in Procs : ReaperConsistent(q)'
  BY SameReapers DEF StampRemoveFails
<1>. QED BY <1>1, <1>3, <1>4, <1>5 DEF Consistent

\* Whether or not LPUSH succeeds the worker goes on with a consistent receipt.
LEMMA StampPutConsistent ==
  ASSUME Consistent, NEW p \in Procs, StampPut(p)
  PROVE  Consistent'
<1>1. job[p] \in Live
  BY DEF Consistent, WorkerConsistent, StampPut
<1>2. processing' \in Seq(Live)
  BY <1>1, LPushLemma DEF Consistent, ListsConsistent, StampPut
<1>3. TypeOK'
  BY <1>1, <1>2, NotNone, LiveList DEF Consistent, TypeOK, PC, StampPut, reaper
<1>4. ListsConsistent'
  BY <1>2, SameLive DEF Consistent, ListsConsistent, StampPut
<1>5. ASSUME NEW q \in Procs PROVE WorkerConsistent(q)'
  BY <1>1, SameLive DEF Consistent, TypeOK, WorkerConsistent, StampPut
<1>6. \A q \in Procs : ReaperConsistent(q)'
  BY SameReapers DEF StampPut
<1>. QED BY <1>3, <1>4, <1>5, <1>6 DEF Consistent

LEMMA StampPutFailsConsistent ==
  ASSUME Consistent, NEW p \in Procs, StampPutFails(p)
  PROVE  Consistent'
<1>1. job[p] \in Live
  BY DEF Consistent, WorkerConsistent, StampPutFails
<1>2. processing' \in Seq(Live)
  BY <1>1, LPushLemma DEF Consistent, ListsConsistent, StampPutFails
<1>3. TypeOK'
  BY <1>2, LiveList DEF Consistent, TypeOK, PC, StampPutFails, Fault, reaper
<1>4. ListsConsistent'
  BY <1>2, SameLive DEF Consistent, ListsConsistent, StampPutFails
<1>5. ASSUME NEW q \in Procs PROVE WorkerConsistent(q)'
  BY SameLive DEF Consistent, TypeOK, WorkerConsistent, StampPutFails
<1>6. \A q \in Procs : ReaperConsistent(q)'
  BY SameReapers DEF StampPutFails
<1>. QED BY <1>3, <1>4, <1>5, <1>6 DEF Consistent

LEMMA SucceedConsistent ==
  ASSUME Consistent, NEW p \in Procs, Succeed(p)
  PROVE  Consistent'
<1>1. job[p] \in Live
  BY DEF Consistent, WorkerConsistent, Succeed
<1>2. executed' \subseteq Jobs
  BY <1>1 DEF Consistent, TypeOK, Succeed, Live, Entry
<1>3. TypeOK'
  BY <1>2 DEF Consistent, TypeOK, PC, Succeed, reaper, lists
<1>4. ListsConsistent'
  BY SameLists DEF Succeed
<1>5. ASSUME NEW q \in Procs PROVE WorkerConsistent(q)'
  BY SameLive DEF Consistent, TypeOK, WorkerConsistent, Succeed
<1>6. \A q \in Procs : ReaperConsistent(q)'
  BY SameReapers DEF Succeed
<1>. QED BY <1>3, <1>4, <1>5, <1>6 DEF Consistent

LEMMA AckConsistent ==
  ASSUME Consistent, NEW p \in Procs, Ack(p)
  PROVE  Consistent'
<1>1. processing' \in Seq(Live) /\ processing' \in Seq(Entry)
  BY LRemConsistent DEF Ack
<1>2. TypeOK'
  BY <1>1, GoIdleConsistent DEF Consistent, TypeOK, Ack, reaper
<1>3. ListsConsistent'
  BY <1>1, SameLive DEF Consistent, ListsConsistent, Ack
<1>4. \A q \in Procs : WorkerConsistent(q)'
  BY GoIdleConsistent DEF Ack
<1>5. \A q \in Procs : ReaperConsistent(q)'
  BY SameReapers DEF Ack
<1>. QED BY <1>2, <1>3, <1>4, <1>5 DEF Consistent

\* A failed handler: with or without its LREM the job is ready to be nacked.
LEMMA FailedConsistent ==
  ASSUME Consistent, NEW p \in Procs, pc[p] = "running",
         pushed' = pushed, executed' = executed, raw' = raw,
         job' = [job EXCEPT ![p] = Retried(@)],
         pc' = [pc EXCEPT ![p] = "requeuing"]
  PROVE  /\ \A q \in Procs : WorkerConsistent(q)'
         /\ pc' \in [Procs -> PC]
         /\ job' \in [Procs -> Entry \cup {None}]
<1>1. job[p] \in Live /\ raw[p] \in Live /\ job[p].job = raw[p].job
  BY DEF Consistent, WorkerConsistent
<1>2. Retried(job[p]) \in Nacked /\ Retried(job[p]).job = job[p].job
  BY <1>1, RetriedLemma
<1>3. job' = [job EXCEPT ![p] = Retried(job[p])]
  OBVIOUS
<1>4. ASSUME NEW q \in Procs PROVE WorkerConsistent(q)'
  BY <1>1, <1>2, <1>3, SameLive DEF Consistent, TypeOK, WorkerConsistent
<1>. QED BY <1>2, <1>3, <1>4, NotNone DEF Consistent, TypeOK, PC

LEMMA NackRemoveConsistent ==
  ASSUME Consistent, NEW p \in Procs, NackRemove(p)
  PROVE  Consistent'
<1>1. processing' \in Seq(Live) /\ processing' \in Seq(Entry)
  BY LRemConsistent DEF NackRemove
<1>2. /\ \A q \in Procs : WorkerConsistent(q)'
      /\ pc' \in [Procs -> PC]
      /\ job' \in [Procs -> Entry \cup {None}]
  BY FailedConsistent DEF NackRemove
<1>3. TypeOK'
  BY <1>1, <1>2 DEF Consistent, TypeOK, NackRemove, reaper
<1>4. ListsConsistent'
  BY <1>1, SameLive DEF Consistent, ListsConsistent, NackRemove
<1>5. \A q \in Procs : ReaperConsistent(q)'
  BY SameReapers DEF NackRemove
<1>. QED BY <1>2, <1>3, <1>4, <1>5 DEF Consistent

LEMMA NackRemoveFailsConsistent ==
  ASSUME Consistent, NEW p \in Procs, NackRemoveFails(p)
  PROVE  Consistent'
<1>1. /\ \A q \in Procs : WorkerConsistent(q)'
      /\ pc' \in [Procs -> PC]
      /\ job' \in [Procs -> Entry \cup {None}]
  BY FailedConsistent DEF NackRemoveFails
<1>2. TypeOK'
  BY <1>1 DEF Consistent, TypeOK, NackRemoveFails, Fault, reaper, lists
<1>3. ListsConsistent'
  BY SameLists DEF NackRemoveFails
<1>4. \A q \in Procs : ReaperConsistent(q)'
  BY SameReapers DEF NackRemoveFails
<1>. QED BY <1>1, <1>2, <1>3, <1>4 DEF Consistent

\* The second half of a nack, by a worker or a reaper.
LEMMA NackPutConsistent ==
  ASSUME Consistent, NEW x \in Nacked, NackPut(x),
         processing' = processing, pushed' = pushed
  PROVE  ListsConsistent' /\ pending' \in Seq(Entry) /\ dlq' \in Seq(Entry)
<1>1. pending \in Seq(Live) /\ dlq \in Seq(Nacked)
  BY DEF Consistent, ListsConsistent
<1>2. pending' \in Seq(Live) /\ dlq' \in Seq(Nacked)
  <2>1. CASE x \in Live /\ pending' = LPush(pending, x) /\ dlq' = dlq
    BY <1>1, <2>1, LPushLemma
  <2>2. CASE dlq' = LPush(dlq, x) /\ pending' = pending
    BY <1>1, <2>2, LPushLemma
  <2>. QED BY <2>1, <2>2, NackPutLemma
<1>. QED BY <1>2, SameLive, LiveList, NackedList DEF Consistent, ListsConsistent

LEMMA RequeueConsistent ==
  ASSUME Consistent, NEW p \in Procs, Requeue(p)
  PROVE  Consistent'
<1>1. job[p] \in Nacked
  BY DEF Consistent, WorkerConsistent, Requeue
<1>2. ListsConsistent' /\ pending' \in Seq(Entry) /\ dlq' \in Seq(Entry)
  BY <1>1, NackPutConsistent DEF Requeue
<1>3. TypeOK'
  BY <1>2, GoIdleConsistent DEF Consistent, TypeOK, Requeue, reaper
<1>4. \A q \in Procs : WorkerConsistent(q)'
  BY GoIdleConsistent DEF Requeue
<1>5. \A q \in Procs : ReaperConsistent(q)'
  BY SameReapers DEF Requeue
<1>. QED BY <1>2, <1>3, <1>4, <1>5 DEF Consistent

\* A worker that only loses its receipt: AckFails and RequeueFails.
LEMMA DropConsistent ==
  ASSUME Consistent, NEW p \in Procs, GoIdle(p), Fault,
         UNCHANGED <<lists, clock, horizon, pushed, executed, reaper>>
  PROVE  Consistent'
<1>1. TypeOK'
  BY GoIdleConsistent DEF Consistent, TypeOK, Fault, reaper, lists
<1>2. ListsConsistent'
  BY SameLists
<1>3. \A q \in Procs : WorkerConsistent(q)'
  BY GoIdleConsistent
<1>4. \A q \in Procs : ReaperConsistent(q)'
  BY SameReapers
<1>. QED BY <1>1, <1>2, <1>3, <1>4 DEF Consistent

-----------------------------------------------------------------------------
(* Consistent: the steps of a reaper, of time and of a crash.              *)

LEMMA SnapshotConsistent ==
  ASSUME Consistent, NEW p \in Procs, Snapshot(p)
  PROVE  Consistent'
<1>1. Reverse(processing) \in Seq(Live)
  BY ReverseLemma DEF Consistent, ListsConsistent
<1>2. TypeOK'
  BY <1>1, LiveList DEF Consistent, TypeOK, Snapshot, lists, worker
<1>3. ListsConsistent'
  BY SameLists DEF Snapshot
<1>4. \A q \in Procs : WorkerConsistent(q)'
  BY SameWorkers DEF Snapshot
<1>5. ASSUME NEW q \in Procs PROVE ReaperConsistent(q)'
  BY <1>1, SameLive DEF Consistent, TypeOK, ReaperConsistent, Snapshot
<1>. QED BY <1>2, <1>3, <1>4, <1>5 DEF Consistent

\* The rest of a snapshot is as consistent as the snapshot.
LEMMA TodoLemma ==
  ASSUME Consistent, NEW p \in Procs, todo[p] # <<>>
  PROVE  /\ Head(todo[p]) \in Live
         /\ Tail(todo[p]) \in Seq(Live) /\ Tail(todo[p]) \in Seq(Entry)
BY HeadTailLemma, LiveList DEF Consistent, ReaperConsistent

LEMMA SkipConsistent ==
  ASSUME Consistent, NEW p \in Procs, Skip(p)
  PROVE  Consistent'
<1>1. Tail(todo[p]) \in Seq(Live) /\ Tail(todo[p]) \in Seq(Entry)
  BY TodoLemma DEF Skip
<1>2. TypeOK'
  BY <1>1 DEF Consistent, TypeOK, Skip, lists, worker
<1>3. ListsConsistent'
  BY SameLists DEF Skip
<1>4. \A q \in Procs : WorkerConsistent(q)'
  BY SameWorkers DEF Skip
<1>5. ASSUME NEW q \in Procs PROVE ReaperConsistent(q)'
  BY <1>1, SameLive DEF Consistent, TypeOK, ReaperConsistent, Skip
<1>. QED BY <1>2, <1>3, <1>4, <1>5 DEF Consistent

\* With or without its LREM the reaper holds a copy that is ready to be nacked.
LEMMA ReapRemoveConsistent ==
  ASSUME Consistent, NEW p \in Procs, ReapRemove(p) \/ ReapRemoveFails(p)
  PROVE  Consistent'
<1>. DEFINE x == Retried(Head(todo[p]))
            t == Tail(todo[p])
<1>1. /\ Head(todo[p]) \in Live
      /\ t \in Seq(Live) /\ t \in Seq(Entry)
  BY TodoLemma DEF ReapRemove, ReapRemoveFails
<1>2. x \in Nacked
  BY <1>1, RetriedLemma
<1>3. nacking' = [nacking EXCEPT ![p] = x] /\ todo' = [todo EXCEPT ![p] = t]
  BY DEF ReapRemove, ReapRemoveFails
<1>4. processing' \in Seq(Live) /\ processing' \in Seq(Entry)
  BY LRemConsistent DEF Consistent, TypeOK, ListsConsistent, lists, ReapRemove, ReapRemoveFails
<1>. HIDE DEF x, t
<1>5. TypeOK'
  BY <1>1, <1>2, <1>3, <1>4, NotNone, SMTT(30) DEF Consistent, TypeOK,
     ReapRemove, ReapRemoveFails, Fault, lists, worker
<1>6. ListsConsistent'
  BY <1>4, SameLive DEF Consistent, ListsConsistent, ReapRemove, ReapRemoveFails,
                        lists
<1>7. \A q \in Procs : WorkerConsistent(q)'
  BY SameWorkers DEF ReapRemove, ReapRemoveFails
<1>8. ASSUME NEW q \in Procs PROVE ReaperConsistent(q)'
  <2>1. Live' = Live /\ Nacked' = Nacked
    BY SameLive DEF ReapRemove, ReapRemoveFails
  <2>. QED BY <1>1, <1>2, <1>3, <2>1 DEF Consistent, TypeOK, ReaperConsistent
<1>. QED BY <1>5, <1>6, <1>7, <1>8 DEF Consistent

LEMMA ReapPutConsistent ==
  ASSUME Consistent, NEW p \in Procs, ReapPut(p)
  PROVE  Consistent'
<1>1. nacking[p] \in Nacked
  BY DEF Consistent, ReaperConsistent, ReapPut
<1>2. ListsConsistent' /\ pending' \in Seq(Entry) /\ dlq' \in Seq(Entry)
  BY <1>1, NackPutConsistent DEF ReapPut
<1>3. TypeOK'
  BY <1>2 DEF Consistent, TypeOK, ReapPut, worker
<1>4. \A q \in Procs : WorkerConsistent(q)'
  BY SameWorkers DEF ReapPut
<1>5. ASSUME NEW q \in Procs PROVE ReaperConsistent(q)'
  BY SameLive DEF Consistent, TypeOK, ReaperConsistent, ReapPut
<1>. QED BY <1>2, <1>3, <1>4, <1>5 DEF Consistent

LEMMA ReapPutFailsConsistent ==
  ASSUME Consistent, NEW p \in Procs, ReapPutFails(p)
  PROVE  Consistent'
<1>1. TypeOK'
  BY DEF Consistent, TypeOK, ReapPutFails, Fault, lists, worker
<1>2. ListsConsistent'
  BY SameLists DEF ReapPutFails
<1>3. \A q \in Procs : WorkerConsistent(q)'
  BY SameWorkers DEF ReapPutFails
<1>4. ASSUME NEW q \in Procs PROVE ReaperConsistent(q)'
  BY SameLive DEF Consistent, TypeOK, ReaperConsistent, ReapPutFails
<1>. QED BY <1>1, <1>2, <1>3, <1>4 DEF Consistent

LEMMA CrashConsistent ==
  ASSUME Consistent, NEW p \in Procs, Crash(p)
  PROVE  Consistent'
<1>1. TypeOK'
  BY GoIdleConsistent DEF Consistent, TypeOK, Crash, Fault, lists
<1>2. ListsConsistent'
  BY SameLists DEF Crash
<1>3. \A q \in Procs : WorkerConsistent(q)'
  BY GoIdleConsistent DEF Crash
<1>4. ASSUME NEW q \in Procs PROVE ReaperConsistent(q)'
  BY SameLive DEF Consistent, TypeOK, ReaperConsistent, Crash
<1>. QED BY <1>1, <1>2, <1>3, <1>4 DEF Consistent

LEMMA StillConsistent ==
  ASSUME Consistent, TimePasses \/ UNCHANGED vars
  PROVE  Consistent'
<1>1. UNCHANGED <<lists, clock, pushed, executed, worker, reaper, faults>>
  BY DEF TimePasses, vars, lists, worker, reaper
<1>2. horizon' \in Nat
  BY DEF Consistent, TypeOK, TimePasses, vars
<1>3. TypeOK'
  BY <1>1, <1>2 DEF Consistent, TypeOK, lists, worker, reaper
<1>. QED BY <1>1, <1>3, SameLists, SameWorkers, SameReapers DEF Consistent

\* No step of a worker, a reaper, the clock or a fault breaks the invariant.
THEOREM NextConsistent == Consistent /\ [Next]_vars => Consistent'
<1>. SUFFICES ASSUME Consistent, [Next]_vars PROVE Consistent'
  OBVIOUS
<1>1. ASSUME NEW j \in Jobs, NEW t \in 0 .. MaxClock, Push(j, t)
      PROVE  Consistent'
  BY <1>1, PushConsistent
<1>2. ASSUME NEW p \in Procs, WorkerStep(p) PROVE Consistent'
  BY <1>2, LeaseConsistent, StampRemoveConsistent, StampPutConsistent,
     SucceedConsistent, AckConsistent, NackRemoveConsistent, RequeueConsistent
     DEF WorkerStep
<1>3. ASSUME NEW p \in Procs, ReaperStep(p) PROVE Consistent'
  BY <1>3, SnapshotConsistent, SkipConsistent, ReapRemoveConsistent,
     ReapPutConsistent DEF ReaperStep
<1>4. ASSUME NEW p \in Procs, FaultStep(p) PROVE Consistent'
  BY <1>4, CrashConsistent, StampRemoveFailsConsistent, StampPutFailsConsistent,
     NackRemoveFailsConsistent, ReapRemoveConsistent, ReapPutFailsConsistent,
     DropConsistent
     DEF FaultStep, AckFails, RequeueFails
<1>. QED BY <1>1, <1>2, <1>3, <1>4, StillConsistent DEF Next

\* Every copy of a job, wherever it is, is a live copy of a pushed job, a
\* worker's receipt is about the job it runs, and only what was executed is
\* acknowledged (the state of queue.go's lists and of its callers).
THEOREM ConsistentTheorem == Spec => []Consistent
<1>1. Init => Consistent
  BY InitConsistent
<1>2. Consistent /\ [Next]_vars => Consistent'
  BY NextConsistent
<1>. QED BY <1>1, <1>2, PTL DEF Spec

\* Type correctness of the queue's lists and its callers' receipts.
THEOREM TypeTheorem == Spec => []TypeOK
<1>1. Consistent => TypeOK
  BY DEF Consistent
<1>. QED BY <1>1, ConsistentTheorem, PTL

-----------------------------------------------------------------------------
(* Where a job is, before and after each command.                          *)

LEMMA OnLPush ==
  ASSUME NEW S, NEW s \in Seq(S), NEW x \in S, NEW k
  PROVE  On(LPush(s, x), k) <=> On(s, k) \/ k = x.job
BY LPushLemma DEF On

LEMMA OnTail ==
  ASSUME NEW S, NEW s \in Seq(S), s # <<>>, NEW k
  PROVE  On(s, k) <=> On(Tail(s), k) \/ k = Head(s).job
BY HeadTailLemma DEF On

LEMMA OnLRem ==
  ASSUME NEW S, NEW s \in Seq(S), NEW x, NEW k
  PROVE  /\ On(LRem(s, x), k) => On(s, k)
         /\ On(s, k) => On(LRem(s, x), k) \/ k = x.job
BY LRemLemma DEF On

\* A worker that keeps its job, one that takes a job, and one that drops it.
LEMMA KeepWorking ==
  ASSUME Consistent, NEW p \in Procs, pc[p] # "idle", NEW l, l # "idle",
         pc' = [pc EXCEPT ![p] = l], NEW x, x.job = job[p].job,
         job' = [job EXCEPT ![p] = x], NEW k
  PROVE  Working(k)' <=> Working(k)
BY DEF Consistent, TypeOK, Working

LEMMA StopWorking ==
  ASSUME Consistent, NEW p \in Procs, pc[p] # "idle", GoIdle(p), NEW k
  PROVE  Working(k) <=> Working(k)' \/ k = job[p].job
BY DEF Consistent, TypeOK, Working, GoIdle

-----------------------------------------------------------------------------
(* Commands that leave every job where it can be found.                    *)

LEMMA LeaseFlying ==
  ASSUME Consistent, NEW p \in Procs, Lease(p), NEW k
  PROVE  Flying(k)' <=> Flying(k)
<1>. DEFINE x == Head(pending)
<1>1. x \in Live /\ Tail(pending) \in Seq(Live)
  BY HeadTailLemma DEF Consistent, ListsConsistent, Lease
<1>2. On(pending, k) <=> On(pending', k) \/ k = x.job
  BY OnTail DEF Consistent, ListsConsistent, Lease
<1>3. On(processing', k) <=> On(processing, k) \/ k = x.job
  BY <1>1, OnLPush DEF Consistent, ListsConsistent, Lease
<1>4. Working(k)' <=> Working(k) \/ k = x.job
  BY DEF Consistent, TypeOK, Working, Lease
<1>5. Reaping(k)' <=> Reaping(k)
  BY DEF Reaping, Lease, reaper
<1>. QED BY <1>2, <1>3, <1>4, <1>5 DEF Flying, InLists

\* Stamping, and the first half of a nack: LREM takes away only copies of the
\* job the worker goes on holding.
LEMMA HeldFlying ==
  ASSUME Consistent, NEW p \in Procs, pc[p] # "idle",
         processing' = LRem(processing, raw[p]) \/ processing' = processing,
         pending' = pending, nacking' = nacking,
         NEW l, l # "idle", pc' = [pc EXCEPT ![p] = l],
         NEW x, x.job = job[p].job, job' = [job EXCEPT ![p] = x],
         NEW k
  PROVE  Flying(k)' <=> Flying(k)
<1>1. raw[p].job = job[p].job
  BY DEF Consistent, WorkerConsistent
<1>2. /\ On(processing', k) => On(processing, k)
      /\ On(processing, k) => On(processing', k) \/ k = job[p].job
  BY <1>1, OnLRem DEF Consistent, ListsConsistent
<1>3. Working(k)' <=> Working(k)
  BY KeepWorking
<1>4. k = job[p].job => Working(k)
  BY DEF Working
<1>5. Reaping(k)' <=> Reaping(k)
  BY DEF Reaping
<1>. QED BY <1>2, <1>3, <1>4, <1>5 DEF Flying, InLists

LEMMA StampFlying ==
  ASSUME Consistent, NEW p \in Procs, StampRemove(p) \/ StampRemoveFails(p),
         NEW k
  PROVE  Flying(k)' <=> Flying(k)
<1>. DEFINE x == [job[p] EXCEPT !.stamp = clock']
            l == IF raw[p] \in ToSet(processing) THEN "restamping" ELSE "running"
<1>1. /\ pc[p] # "idle" /\ pending' = pending /\ nacking' = nacking
      /\ processing' = LRem(processing, raw[p]) \/ processing' = processing
  BY DEF StampRemove, StampRemoveFails, reaper, lists
<1>2. pc' = [pc EXCEPT ![p] = l] \/ pc' = [pc EXCEPT ![p] = "running"]
  BY DEF StampRemove, StampRemoveFails
<1>3. l # "idle"
  OBVIOUS
<1>4. x.job = job[p].job
  BY StampLemma DEF Consistent, TypeOK, WorkerConsistent, Now, StampRemove,
                    StampRemoveFails
<1>5. job' = [job EXCEPT ![p] = x]
  BY DEF Consistent, TypeOK, StampRemove, StampRemoveFails
<1>. HIDE DEF x, l
<1>. QED BY <1>1, <1>2, <1>3, <1>4, <1>5, HeldFlying

LEMMA FailedFlying ==
  ASSUME Consistent, NEW p \in Procs, NackRemove(p) \/ NackRemoveFails(p),
         NEW k
  PROVE  Flying(k)' <=> Flying(k)
<1>. DEFINE x == Retried(job[p])
<1>1. /\ pc[p] # "idle" /\ pending' = pending /\ nacking' = nacking
      /\ processing' = LRem(processing, raw[p]) \/ processing' = processing
      /\ pc' = [pc EXCEPT ![p] = "requeuing"]
      /\ job' = [job EXCEPT ![p] = x]
  BY DEF NackRemove, NackRemoveFails, reaper, lists
<1>2. x.job = job[p].job
  BY RetriedLemma DEF Consistent, WorkerConsistent, NackRemove, NackRemoveFails
<1>. HIDE DEF x
<1>. QED BY <1>1, <1>2, HeldFlying

LEMMA StampPutFlying ==
  ASSUME Consistent, NEW p \in Procs, StampPut(p) \/ StampPutFails(p), NEW k
  PROVE  Flying(k)' <=> Flying(k)
<1>1. job[p] \in Live
  BY DEF Consistent, WorkerConsistent, StampPut, StampPutFails
<1>2. \/ processing' = processing
      \/ On(processing', k) <=> On(processing, k) \/ k = job[p].job
  BY <1>1, OnLPush DEF Consistent, ListsConsistent, StampPut, StampPutFails, lists
<1>3. Working(k)' <=> Working(k)
  BY DEF Consistent, TypeOK, Working, StampPut, StampPutFails
<1>4. k = job[p].job => Working(k)
  BY DEF Working, StampPut, StampPutFails
<1>5. (Reaping(k)' <=> Reaping(k)) /\ pending' = pending
  BY DEF Reaping, StampPut, StampPutFails, reaper, lists
<1>. QED BY <1>2, <1>3, <1>4, <1>5 DEF Flying, InLists

LEMMA SucceedFlying ==
  ASSUME Consistent, NEW p \in Procs, Succeed(p), NEW k
  PROVE  Flying(k)' <=> Flying(k)
<1>1. Working(k)' <=> Working(k)
  BY DEF Consistent, TypeOK, Working, Succeed
<1>. QED BY <1>1 DEF Flying, InLists, On, Reaping, Succeed, lists, reaper

LEMMA StillFlying ==
  ASSUME UNCHANGED <<lists, worker, nacking>>, NEW k
  PROVE  Flying(k)' <=> Flying(k)
BY DEF Flying, InLists, On, Working, Reaping, lists, worker

-----------------------------------------------------------------------------
(* Commands that bring a job back or let go of it.                         *)

LEMMA PushFlying ==
  ASSUME Consistent, NEW j \in Jobs, NEW t \in 0 .. MaxClock, Push(j, t), NEW k
  PROVE  Flying(k)' <=> Flying(k) \/ k = j
<1>. DEFINE x == [job |-> j, retries |-> 0, stamp |-> t]
<1>1. x \in Entry /\ x.job = j
  BY BoundsAssumption DEF Entry
<1>2. On(pending', k) <=> On(pending, k) \/ k = j
  BY <1>1, OnLPush DEF Consistent, TypeOK, Push
<1>3. processing' = processing
  BY DEF Push
<1>. QED BY <1>2, <1>3 DEF Flying, InLists, Working, Reaping, Push, worker, reaper

\* Ack lets go of nothing but copies of a job that was executed.
LEMMA AckFlying ==
  ASSUME Consistent, NEW p \in Procs, Ack(p) \/ AckFails(p), NEW k
  PROVE  /\ Flying(k)' => Flying(k)
         /\ Flying(k) => Flying(k)' \/ k = job[p].job
<1>1. raw[p].job = job[p].job
  BY DEF Consistent, WorkerConsistent, Ack, AckFails
<1>2. /\ On(processing', k) => On(processing, k)
      /\ On(processing, k) => On(processing', k) \/ k = job[p].job
  BY <1>1, OnLRem DEF Consistent, ListsConsistent, Ack, AckFails, lists
<1>3. Working(k) <=> Working(k)' \/ k = job[p].job
  BY StopWorking DEF Ack, AckFails
<1>4. (Reaping(k)' <=> Reaping(k)) /\ pending' = pending
  BY DEF Reaping, Ack, AckFails, reaper, lists
<1>5. k = job[p].job => Flying(k)
  BY DEF Flying, Working, Ack, AckFails
<1>. QED BY <1>2, <1>3, <1>4, <1>5 DEF Flying, InLists

\* The second half of a nack: either every job is where it was, or one more
\* copy is dead.
LEMMA PutLists ==
  ASSUME Consistent, NEW x \in Nacked, NackPut(x), processing' = processing
  PROVE  \/ /\ \A k : InLists(k)' <=> InLists(k) \/ k = x.job
            /\ Dead' = Dead
         \/ /\ \A k : InLists(k)' <=> InLists(k)
            /\ Dead' = Dead \cup {x.job}
<1>1. CASE x \in Live /\ pending' = LPush(pending, x) /\ dlq' = dlq
  <2>1. \A k : On(pending', k) <=> On(pending, k) \/ k = x.job
    BY <1>1, OnLPush DEF Consistent, ListsConsistent
  <2>. QED BY <1>1, <2>1 DEF InLists, Dead
<1>2. CASE dlq' = LPush(dlq, x) /\ pending' = pending
  <2>1. ToSet(dlq') = ToSet(dlq) \cup {x}
    BY <1>2, LPushLemma DEF Consistent, ListsConsistent
  <2>2. Dead' = Dead \cup {x.job}
    BY <2>1 DEF Dead
  <2>. QED BY <1>2, <2>2 DEF InLists
<1>. QED BY <1>1, <1>2, NackPutLemma

LEMMA RequeueFlying ==
  ASSUME Consistent, NEW p \in Procs, Requeue(p)
  PROVE  /\ \A k : Flying(k)' => Flying(k)
         /\ \A k : Flying(k) => Flying(k)' \/ k = job[p].job
         /\ \/ Dead' = Dead /\ \A k : Flying(k)' <=> Flying(k)
            \/ Dead' = Dead \cup {job[p].job}
<1>1. job[p] \in Nacked
  BY DEF Consistent, WorkerConsistent, Requeue
<1>2. \A k : Working(k) <=> Working(k)' \/ k = job[p].job
  BY StopWorking DEF Requeue
<1>3. \A k : Reaping(k)' <=> Reaping(k)
  BY DEF Reaping, Requeue, reaper
<1>4. \/ /\ \A k : InLists(k)' <=> InLists(k) \/ k = job[p].job
         /\ Dead' = Dead
      \/ /\ \A k : InLists(k)' <=> InLists(k)
         /\ Dead' = Dead \cup {job[p].job}
  BY <1>1, PutLists DEF Requeue
<1>. QED BY <1>2, <1>3, <1>4 DEF Flying

LEMMA ReapPutFlying ==
  ASSUME Consistent, NEW p \in Procs, ReapPut(p)
  PROVE  /\ \A k : Flying(k)' => Flying(k)
         /\ \A k : Flying(k) => Flying(k)' \/ k = nacking[p].job
         /\ \/ Dead' = Dead /\ \A k : Flying(k)' <=> Flying(k)
            \/ Dead' = Dead \cup {nacking[p].job}
<1>1. nacking[p] \in Nacked
  BY DEF Consistent, ReaperConsistent, ReapPut
<1>2. \A k : Working(k)' <=> Working(k)
  BY DEF Working, ReapPut, worker
<1>3. \A k : Reaping(k) <=> Reaping(k)' \/ k = nacking[p].job
  BY DEF Consistent, TypeOK, Reaping, ReapPut
<1>4. \/ /\ \A k : InLists(k)' <=> InLists(k) \/ k = nacking[p].job
         /\ Dead' = Dead
      \/ /\ \A k : InLists(k)' <=> InLists(k)
         /\ Dead' = Dead \cup {nacking[p].job}
  BY <1>1, PutLists DEF ReapPut
<1>. QED BY <1>2, <1>3, <1>4 DEF Flying

\* The reaper takes a copy of its snapshot into its hands.
LEMMA ReapRemoveFlying ==
  ASSUME Consistent, NEW p \in Procs, ReapRemove(p) \/ ReapRemoveFails(p),
         NEW k
  PROVE  Flying(k)' <=> Flying(k) \/ k = Head(todo[p]).job
<1>. DEFINE h == Head(todo[p])
            x == Retried(h)
<1>1. h \in Live
  BY TodoLemma DEF ReapRemove, ReapRemoveFails
<1>2. x \in Nacked /\ x.job = h.job /\ x # None
  BY <1>1, RetriedLemma, NotNone
<1>3. /\ On(processing', k) => On(processing, k)
      /\ On(processing, k) => On(processing', k) \/ k = h.job
  BY OnLRem DEF Consistent, ListsConsistent, ReapRemove, ReapRemoveFails,
                    lists
<1>4. nacking[p] = None /\ nacking' = [nacking EXCEPT ![p] = x]
  BY DEF ReapRemove, ReapRemoveFails
<1>. HIDE DEF x, h
<1>5. Reaping(k)' <=> Reaping(k) \/ k = h.job
  BY <1>2, <1>4 DEF Consistent, TypeOK, Reaping
<1>6. (Working(k)' <=> Working(k)) /\ pending' = pending
  BY DEF Working, ReapRemove, ReapRemoveFails, lists, worker
<1>. QED BY <1>3, <1>5, <1>6 DEF Flying, InLists, h

\* A fault that only empties hands: lists keep what they have.
LEMMA DroppedFlying ==
  ASSUME Consistent, NEW p \in Procs,
         Crash(p) \/ RequeueFails(p) \/ ReapPutFails(p) \/ AckFails(p), NEW k
  PROVE  /\ Flying(k)' => Flying(k)
         /\ InLists(k)' <=> InLists(k)
<1>1. InLists(k)' <=> InLists(k)
  BY DEF InLists, Crash, RequeueFails, ReapPutFails, AckFails, lists
<1>2. Working(k)' => Working(k)
  BY DEF Consistent, TypeOK, Working, Crash, RequeueFails, ReapPutFails,
         AckFails, GoIdle, worker
<1>3. Reaping(k)' => Reaping(k)
  BY DEF Consistent, TypeOK, Reaping, Crash, RequeueFails, ReapPutFails,
         AckFails, reaper
<1>. QED BY <1>1, <1>2, <1>3 DEF Flying

-----------------------------------------------------------------------------
(* The queue keeps its promise.                                            *)

\* Every step of the queue is a step of AtLeastOnceQueue, or none.
LEMMA WorkerStepPromise ==
  ASSUME Consistent, NEW p \in Procs, WorkerStep(p)
  PROVE  [Promise!Next]_Promise!vars
<1>. DEFINE j == job[p].job
<1>0. faults' = faults /\ pushed' = pushed
  BY DEF WorkerStep, Lease, StampRemove, StampPut, Succeed, Ack, NackRemove,
         Requeue
<1>1. ASSUME \A k : Flying(k)' <=> Flying(k), dlq' = dlq, executed' = executed
      PROVE  UNCHANGED Promise!vars
  <2>1. InFlight' = InFlight
    BY <1>1 DEF InFlight
  <2>. QED BY <1>0, <1>1, <2>1 DEF Promise!vars, Dead
<1>2. CASE Lease(p)
  BY <1>1, <1>2, LeaseFlying DEF Lease
<1>3. CASE StampRemove(p)
  BY <1>1, <1>3, StampFlying DEF StampRemove
<1>4. CASE StampPut(p)
  BY <1>1, <1>4, StampPutFlying DEF StampPut
<1>5. CASE NackRemove(p)
  BY <1>1, <1>5, FailedFlying DEF NackRemove
<1>6. CASE Succeed(p)
  <2>1. j \in pushed /\ j \in Jobs
    BY <1>6 DEF Consistent, WorkerConsistent, Succeed, Live, Entry
  <2>2. InFlight' = InFlight
    BY <1>6, SucceedFlying DEF InFlight
  <2>3. Promise!Execute(j)
    BY <1>0, <1>6, <2>1, <2>2 DEF Promise!Execute, Succeed, Dead, lists
  <2>. QED BY <2>1, <2>3 DEF Promise!Next
<1>7. CASE Ack(p)
  <2>1. j \in executed /\ j \in Jobs
    BY <1>7 DEF Consistent, WorkerConsistent, Ack, Live, Entry
  <2>2. InFlight' = InFlight \/ InFlight' = InFlight \ {j}
    BY <1>7, AckFlying DEF InFlight
  <2>3. executed' = executed /\ Dead' = Dead
    BY <1>7 DEF Ack, Dead
  <2>4. Promise!Retire(j) \/ UNCHANGED Promise!vars
    BY <1>0, <2>1, <2>2, <2>3 DEF Promise!Retire, Promise!vars
  <2>. QED BY <2>1, <2>4 DEF Promise!Next
<1>8. CASE Requeue(p)
  <2>1. j \in pushed /\ j \in Jobs
    BY <1>8 DEF Consistent, WorkerConsistent, Requeue, Nacked, Entry
  <2>2. executed' = executed
    BY <1>8 DEF Requeue
  <2>3. CASE Dead' = Dead /\ \A k : Flying(k)' <=> Flying(k)
    <3>1. InFlight' = InFlight
      BY <2>3 DEF InFlight
    <3>. QED BY <1>0, <2>2, <2>3, <3>1 DEF Promise!vars
  <2>4. CASE Dead' = Dead \cup {j}
    <3>1. InFlight' \in {InFlight, InFlight \ {j}}
      BY <1>8, RequeueFlying DEF InFlight
    <3>2. Promise!DeadLetter(j)
      BY <1>0, <2>1, <2>2, <2>4, <3>1 DEF Promise!DeadLetter
    <3>. QED BY <2>1, <3>2 DEF Promise!Next
  <2>. QED BY <1>8, <2>3, <2>4, RequeueFlying
<1>. QED BY <1>2, <1>3, <1>4, <1>5, <1>6, <1>7, <1>8 DEF WorkerStep

LEMMA ReaperStepPromise ==
  ASSUME Consistent, NEW p \in Procs, ReaperStep(p)
  PROVE  [Promise!Next]_Promise!vars
<1>0. faults' = faults /\ pushed' = pushed /\ executed' = executed
  BY DEF ReaperStep, Snapshot, Skip, ReapRemove, ReapPut
<1>1. CASE Snapshot(p) \/ Skip(p)
  <2>1. UNCHANGED <<lists, worker, nacking>>
    BY <1>1 DEF Snapshot, Skip
  <2>2. InFlight' = InFlight
    BY <2>1, StillFlying DEF InFlight
  <2>. QED BY <1>0, <2>1, <2>2 DEF Promise!vars, Dead, lists
<1>2. CASE ReapRemove(p)
  <2>. DEFINE j == Head(todo[p]).job
  <2>1. j \in pushed /\ j \in Jobs
    BY <1>2, TodoLemma DEF ReapRemove, Live, Entry
  <2>2. InFlight' = InFlight \cup {j}
    BY <1>2, <2>1, ReapRemoveFlying DEF InFlight
  <2>3. Promise!Redeliver(j)
    BY <1>0, <1>2, <2>1, <2>2 DEF Promise!Redeliver, ReapRemove, Dead
  <2>. QED BY <2>1, <2>3 DEF Promise!Next
<1>3. CASE ReapPut(p)
  <2>. DEFINE j == nacking[p].job
  <2>1. j \in pushed /\ j \in Jobs
    BY <1>3 DEF Consistent, ReaperConsistent, ReapPut, Nacked, Entry
  <2>2. CASE Dead' = Dead /\ \A k : Flying(k)' <=> Flying(k)
    <3>1. InFlight' = InFlight
      BY <2>2 DEF InFlight
    <3>. QED BY <1>0, <2>2, <3>1 DEF Promise!vars
  <2>3. CASE Dead' = Dead \cup {j}
    <3>1. InFlight' \in {InFlight, InFlight \ {j}}
      BY <1>3, ReapPutFlying DEF InFlight
    <3>2. Promise!DeadLetter(j)
      BY <1>0, <2>1, <2>3, <3>1 DEF Promise!DeadLetter
    <3>. QED BY <2>1, <3>2 DEF Promise!Next
  <2>. QED BY <1>3, <2>2, <2>3, ReapPutFlying
<1>. QED BY <1>1, <1>2, <1>3 DEF ReaperStep

\* A fault takes away what only its process held, or is met by a reaper that
\* puts back a pushed job.
LEMMA FaultStepPromise ==
  ASSUME Consistent, NEW p \in Procs, FaultStep(p)
  PROVE  [Promise!Next]_Promise!vars
<1>1. /\ faults' = faults + 1 /\ pushed' = pushed /\ executed' = executed
      /\ Dead' = Dead
  BY DEF FaultStep, Crash, StampRemoveFails, StampPutFails, AckFails,
         NackRemoveFails, RequeueFails, ReapRemoveFails, ReapPutFails, Fault,
         Dead, lists
<1>2. \A k : Flying(k)' => Flying(k) \/ k \in pushed
  <2>1. ASSUME ReapRemoveFails(p), NEW k, Flying(k)'
        PROVE  Flying(k) \/ k \in pushed
    <3>1. Head(todo[p]).job \in pushed
      BY <2>1, TodoLemma DEF ReapRemoveFails, Live
    <3>. QED BY <2>1, <3>1, ReapRemoveFlying
  <2>. QED BY <2>1, StampFlying, StampPutFlying, FailedFlying, DroppedFlying
           DEF FaultStep
<1>. DEFINE S == InFlight \ InFlight'
            R == InFlight' \ InFlight
<1>3. InFlight \subseteq Jobs /\ InFlight' \subseteq Jobs
  BY DEF InFlight
<1>4. /\ S \in SUBSET Jobs /\ S \subseteq InFlight /\ R \in SUBSET Jobs
      /\ InFlight' = (InFlight \ S) \cup R
  BY <1>3
<1>5. R \subseteq pushed
  BY <1>2 DEF InFlight
<1>. HIDE DEF S, R
<1>6. Promise!Fault(S, R)
  BY <1>1, <1>4, <1>5 DEF Promise!Fault
<1>. QED BY <1>4, <1>6 DEF Promise!Next

LEMMA InitPromise == Init => Promise!Init
<1>. SUFFICES ASSUME Init PROVE Promise!Init
  OBVIOUS
<1>1. ToSet(<<>>) = {}
  BY DEF ToSet
<1>2. Dead = {}
  BY <1>1 DEF Init, Dead
<1>3. InFlight = {}
  BY <1>1 DEF Init, InFlight, Flying, InLists, On, Working, Reaping
<1>. QED BY <1>2, <1>3 DEF Promise!Init, Init

LEMMA NextPromise ==
  ASSUME Consistent, [Next]_vars
  PROVE  [Promise!Next]_Promise!vars
<1>1. ASSUME NEW j \in Jobs, NEW t \in 0 .. MaxClock, Push(j, t)
      PROVE  [Promise!Next]_Promise!vars
  <2>1. InFlight' = InFlight \cup {j}
    BY <1>1, PushFlying DEF InFlight
  <2>2. Promise!Submit(j)
    BY <1>1, <2>1 DEF Promise!Submit, Push, Dead
  <2>. QED BY <2>2 DEF Promise!Next
<1>2. CASE TimePasses \/ UNCHANGED vars
  <2>1. UNCHANGED <<lists, worker, nacking, pushed, executed, faults>>
    BY <1>2 DEF TimePasses, vars, lists, worker, reaper
  <2>2. InFlight' = InFlight
    BY <2>1, StillFlying DEF InFlight
  <2>. QED BY <2>1, <2>2 DEF Promise!vars, Dead, lists
<1>. QED BY <1>1, <1>2, WorkerStepPromise, ReaperStepPromise, FaultStepPromise
         DEF Next

\* queue.go's lists, its stamping and nacking in two commands, and any number
\* of workers and reapers that take each other's jobs for stuck, together do
\* what the abstract queue does: a job is given up only when it was executed,
\* when it is dead-lettered, or by a fault.
THEOREM PromiseTheorem == Spec => ImplementsPromise
<1>1. Init => Promise!Init
  BY InitPromise
<1>2. Consistent /\ [Next]_vars => [Promise!Next]_Promise!vars
  BY NextPromise
<1>. QED BY <1>1, <1>2, ConsistentTheorem, PTL
         DEF Spec, ImplementsPromise, Promise!Spec

-----------------------------------------------------------------------------
(* No job is lost.                                                         *)

\* The abstract queue lets go of unsettled jobs in a fault only.
LEMMA PromiseAccounted ==
  ASSUME Consistent, [Promise!Next]_Promise!vars, NEW j \in Jobs, Accounted(j)
  PROVE  Accounted(j)' \/ faults' = faults + 1
<1>. DEFINE A == j \in executed \/ j \in Dead \/ j \in InFlight
<1>1. (A <=> Accounted(j)) /\ (A' <=> Accounted(j)')
  BY DEF Accounted, Settled, InFlight
<1>2. A' \/ faults' = faults + 1
  BY <1>1 DEF Promise!Next, Promise!Submit, Promise!Execute, Promise!Retire,
         Promise!DeadLetter, Promise!Redeliver, Promise!Fault, Promise!vars
<1>. QED BY <1>1, <1>2

\* What is on a list survives any fault.
LEMMA FaultAccounted ==
  ASSUME Consistent, NEW p \in Procs, FaultStep(p), NEW j, InLists(j)
  PROVE  Accounted(j)'
<1>1. Flying(j)
  BY DEF Flying
<1>2. Flying(j)'
  <2>1. CASE Crash(p) \/ RequeueFails(p) \/ ReapPutFails(p) \/ AckFails(p)
    BY <2>1, DroppedFlying DEF Flying
  <2>2. CASE \/ StampRemoveFails(p) \/ StampPutFails(p) \/ NackRemoveFails(p)
             \/ ReapRemoveFails(p)
    BY <1>1, <2>2, StampFlying, StampPutFlying, FailedFlying, ReapRemoveFlying
  <2>. QED BY <2>1, <2>2 DEF FaultStep
<1>. QED BY <1>2 DEF Accounted

\* Faults are counted by the steps of FaultStep only.
LEMMA FaultCount ==
  ASSUME Consistent, [Next]_vars
  PROVE  \/ faults' = faults
         \/ faults' > faults /\ \E p \in Procs : FaultStep(p)
<1>0. faults \in Nat
  BY DEF Consistent, TypeOK
<1>1. ASSUME NEW p \in Procs, FaultStep(p) PROVE faults' > faults
  BY <1>0, <1>1 DEF FaultStep, Crash, StampRemoveFails, StampPutFails, AckFails,
         NackRemoveFails, RequeueFails, ReapRemoveFails, ReapPutFails, Fault
<1>2. ASSUME NEW p \in Procs, WorkerStep(p) \/ ReaperStep(p)
      PROVE faults' = faults
  BY <1>2 DEF WorkerStep, ReaperStep, Lease, StampRemove, StampPut, Succeed, Ack,
         NackRemove, Requeue, Snapshot, Skip, ReapRemove, ReapPut
<1>. QED BY <1>1, <1>2 DEF Next, Push, TimePasses, vars

\* No step but a fault makes an accounted job unaccounted, and a fault does so
\* only to a job that no list holds.
LEMMA StepAccounted ==
  ASSUME Consistent, [Next]_vars, NEW j \in pushed, Accounted(j)
  PROVE  Accounted(j)' \/ (~InLists(j) /\ faults' > faults)
<1>1. j \in Jobs /\ faults \in Nat
  BY DEF Consistent, TypeOK
<1>2. Accounted(j)' \/ faults' = faults + 1
  BY <1>1, NextPromise, PromiseAccounted
<1>3. faults' = faults + 1 => faults' # faults
  BY <1>1
<1>. QED BY <1>2, <1>3, FaultCount, FaultAccounted

\* A fault loses a job only when its last copy was in the memory of a process:
\* between the two commands of a stamp (Pop) or of a nack (Nack), or while it
\* runs after its copy was taken away.
THEOREM LostOnlyFromMemoryTheorem == Spec => LostOnlyFromMemory
<1>. DEFINE Step == \A j \in pushed :
              Accounted(j) /\ ~Accounted(j)' => ~InLists(j) /\ faults' > faults
<1>1. Consistent /\ [Next]_vars => [Step]_vars
  BY StepAccounted
<1>. QED BY <1>1, ConsistentTheorem, PTL DEF Spec, LostOnlyFromMemory

\* Without faults, a job that was pushed is executed, dead-lettered, on a list
\* or in somebody's hands, however slow the workers and however eager the
\* reapers (queue.go: "at-least-once delivery").
THEOREM NoJobLostTheorem == Spec => []NoJobLost
<1>1. Init => NoJobLost
  BY DEF Init, NoJobLost
<1>2. Consistent /\ NoJobLost /\ [Next]_vars => NoJobLost'
  <2>. SUFFICES ASSUME Consistent, NoJobLost, [Next]_vars, faults' = 0,
                       NEW j \in pushed'
                PROVE  Accounted(j)'
    BY DEF NoJobLost
  <2>1. faults = 0
    BY FaultCount DEF Consistent, TypeOK
  <2>2. CASE j \in pushed
    <3>1. Accounted(j)
      BY <2>1, <2>2 DEF NoJobLost
    <3>2. ~(faults' > faults)
      BY <2>1
    <3>. QED BY <2>2, <3>1, <3>2, StepAccounted
  <2>3. CASE j \notin pushed
    <3>1. PICK i \in Jobs, t \in 0 .. MaxClock : Push(i, t)
      BY <2>3 DEF Next, WorkerStep, ReaperStep, FaultStep, Lease, StampRemove,
         StampPut, Succeed, Ack, NackRemove, Requeue, Snapshot, Skip, ReapRemove,
         ReapPut, Crash, StampRemoveFails, StampPutFails, AckFails,
         NackRemoveFails, RequeueFails, ReapRemoveFails, ReapPutFails, TimePasses, vars
    <3>2. j = i
      BY <2>3, <3>1 DEF Push
    <3>. QED BY <3>1, <3>2, PushFlying DEF Accounted
  <2>. QED BY <2>2, <2>3
<1>. QED BY <1>1, <1>2, ConsistentTheorem, PTL DEF Spec

-----------------------------------------------------------------------------
(* Induction and recursion.                                                *)

LEMMA NatSetInduction ==
  ASSUME NEW T, 0 \in T, \A n \in Nat : n \in T => n + 1 \in T
  PROVE  Nat \subseteq T
<1>. DEFINE Rest == Nat \ T
            Less == {ss \in Nat \X Nat : ss[1] < ss[2]}
<1>. SUFFICES ASSUME Rest # {} PROVE FALSE
  OBVIOUS
<1>1. IsWellFoundedOn(Less, Nat)
  BY NatLessThanWellFounded, Zenon DEF OpToRel
<1>2. \A m, n \in Nat : m < n => <<m, n>> \in Less
  OBVIOUS
<1>. HIDE DEF Less
<1>3. PICK n \in Rest : \A m \in Rest : <<m, n>> \notin Less
  BY <1>1, WFMin
<1>4. n # 0 /\ n - 1 \in Nat /\ n - 1 < n
  OBVIOUS
<1>5. n - 1 \in T
  BY <1>2, <1>3, <1>4
<1>6. (n - 1) + 1 \in T
  BY <1>4, <1>5
<1>. QED BY <1>3, <1>4, <1>6

\* A finite set is built by adding one element after another.
LEMMA FiniteInduction ==
  ASSUME NEW S, IsFiniteSet(S), NEW T, {} \in T,
         \A s \in SUBSET S : \A a \in S \ s : s \in T => s \cup {a} \in T
  PROVE  S \in T
<1>. DEFINE N == {n \in Nat : \A s \in SUBSET S : Cardinality(s) = n => s \in T}
<1>1. 0 \in N
  <2>1. ASSUME NEW s \in SUBSET S, Cardinality(s) = 0 PROVE s \in T
    <3>1. IsFiniteSet(s)
      BY FS_Subset
    <3>2. s = {}
      BY <2>1, <3>1, FS_EmptySet
    <3>. QED BY <3>2
  <2>. QED BY <2>1
<1>2. ASSUME NEW n \in Nat, n \in N PROVE n + 1 \in N
  <2>1. ASSUME NEW s \in SUBSET S, Cardinality(s) = n + 1 PROVE s \in T
    <3>1. IsFiniteSet(s)
      BY FS_Subset
    <3>2. s # {}
      BY <2>1, <3>1, FS_EmptySet
    <3>3. PICK a \in s : TRUE
      BY <3>2
    <3>4. Cardinality(s \ {a}) = n
      <4>1. Cardinality(s \ {a}) = Cardinality(s) - 1
        BY <3>1, <3>3, FS_RemoveElement
      <4>. QED BY <2>1, <4>1
    <3>5. s \ {a} \in T
      BY <1>2, <3>4
    <3>6. (s \ {a}) \cup {a} = s
      BY <3>3
    <3>. QED BY <3>3, <3>5, <3>6
  <2>. QED BY <2>1
<1>. HIDE DEF N
<1>3. Nat \subseteq N
  BY <1>1, <1>2, NatSetInduction
<1>4. Cardinality(S) \in Nat
  BY FS_CardinalityType
<1>. QED BY <1>3, <1>4 DEF N

-----------------------------------------------------------------------------
(* SumFunctionOnSet.                                                       *)

First(s) == CHOOSE x \in s : TRUE

\* The function that SumFunctionOnSet defines over the subsets of S.
Summing(g, f, S) ==
  g = [s \in SUBSET S |-> IF s = {} THEN 0 ELSE f[First(s)] + g[s \ {First(s)}]]

LEMMA SumIs ==
  ASSUME NEW f, NEW S
  PROVE  SumFunctionOnSet(f, S) = (CHOOSE g : Summing(g, f, S))[S]
BY DEF SumFunctionOnSet, FoldFunctionOnSet, MapThenFoldSet, Summing, First

\* It exists for a finite S: it is defined for ever larger subsets.
LEMMA SummingExists ==
  ASSUME NEW f, NEW S, IsFiniteSet(S)
  PROVE  \E g : Summing(g, f, S)
<1>. DEFINE Small(n) == {s \in SUBSET S : Cardinality(s) <= n}
            Upto(g, n) == g = [s \in Small(n) |->
                                 IF s = {} THEN 0 ELSE f[First(s)] + g[s \ {First(s)}]]
            N == {n \in Nat : \E g : Upto(g, n)}
<1>1. \A s \in SUBSET S : IsFiniteSet(s) /\ Cardinality(s) \in Nat
  BY FS_Subset, FS_CardinalityType
<1>2. \A s \in SUBSET S : s # {} =>
        /\ First(s) \in s /\ s \ {First(s)} \in SUBSET S
        /\ Cardinality(s \ {First(s)}) = Cardinality(s) - 1
        /\ Cardinality(s) # 0
  <2>. SUFFICES ASSUME NEW s \in SUBSET S, s # {}
                PROVE  /\ First(s) \in s /\ s \ {First(s)} \in SUBSET S
                       /\ Cardinality(s \ {First(s)}) = Cardinality(s) - 1
                       /\ Cardinality(s) # 0
    OBVIOUS
  <2>1. First(s) \in s
    BY DEF First
  <2>2. Cardinality(s \ {First(s)}) = Cardinality(s) - 1
    BY <1>1, <2>1, FS_RemoveElement
  <2>3. Cardinality(s) # 0
    BY <1>1, FS_EmptySet
  <2>. QED BY <2>1, <2>2, <2>3
<1>3. 0 \in N
  <2>. DEFINE g == [s \in Small(0) |-> 0]
  <2>1. \A s \in Small(0) : s = {}
    BY <1>1, FS_EmptySet
  <2>2. Upto(g, 0)
    BY <2>1
  <2>. QED BY <2>2
<1>4. ASSUME NEW n \in Nat, n \in N PROVE n + 1 \in N
  <2>1. PICK g : Upto(g, n)
    BY <1>4
  <2>. DEFINE h == [s \in Small(n + 1) |->
                      IF s = {} THEN 0 ELSE f[First(s)] + g[s \ {First(s)}]]
  <2>2. \A s \in Small(n) : s \in Small(n + 1) /\ h[s] = g[s]
    <3>1. \A s \in Small(n) : s \in Small(n + 1)
      BY <1>1
    <3>2. \A s \in Small(n) : g[s] = IF s = {} THEN 0 ELSE f[First(s)] + g[s \ {First(s)}]
      BY <2>1
    <3>. QED BY <3>1, <3>2
  <2>3. \A s \in Small(n + 1) : s # {} => s \ {First(s)} \in Small(n)
    BY <1>1, <1>2
  <2>4. \A s \in Small(n + 1) :
          h[s] = IF s = {} THEN 0 ELSE f[First(s)] + h[s \ {First(s)}]
    BY <2>2, <2>3
  <2>5. h = [s \in Small(n + 1) |-> h[s]]
    OBVIOUS
  <2>. HIDE DEF h, Small
  <2>6. Upto(h, n + 1)
    BY <2>4, <2>5
  <2>. HIDE DEF Upto
  <2>. QED BY <2>6
<1>. HIDE DEF N
<1>5. PICK n \in Nat : n = Cardinality(S)
  BY FS_CardinalityType
<1>6. n \in N
  BY <1>3, <1>4, NatSetInduction
<1>7. PICK g : Upto(g, n)
  BY <1>6 DEF N
<1>8. \A s \in SUBSET S : Cardinality(s) <= n
  BY <1>5, FS_Subset
<1>9. Small(n) = SUBSET S
  BY <1>8
<1>. QED BY <1>7, <1>9 DEF Summing

\* On the subsets of a subset it is the same function.
LEMMA SummingSame ==
  ASSUME NEW f, NEW S, IsFiniteSet(S), NEW R \in SUBSET S,
         NEW g, Summing(g, f, S), NEW h, Summing(h, f, R)
  PROVE  g[R] = h[R]
<1>. DEFINE N == {n \in Nat : \A s \in SUBSET R : Cardinality(s) = n => g[s] = h[s]}
<1>1. \A s \in SUBSET R : IsFiniteSet(s) /\ Cardinality(s) \in Nat /\ s \in SUBSET S
  BY FS_Subset, FS_CardinalityType
<1>2. \A s \in SUBSET R :
        /\ g[s] = IF s = {} THEN 0 ELSE f[First(s)] + g[s \ {First(s)}]
        /\ h[s] = IF s = {} THEN 0 ELSE f[First(s)] + h[s \ {First(s)}]
  BY DEF Summing
<1>3. 0 \in N
  <2>1. \A s \in SUBSET R : Cardinality(s) = 0 => s = {}
    BY <1>1, FS_EmptySet
  <2>. QED BY <1>2, <2>1
<1>4. ASSUME NEW n \in Nat, n \in N PROVE n + 1 \in N
  <2>1. ASSUME NEW s \in SUBSET R, Cardinality(s) = n + 1 PROVE g[s] = h[s]
    <3>1. s # {}
      BY <2>1, <1>1, FS_EmptySet
    <3>2. First(s) \in s
      BY <3>1 DEF First
    <3>3. Cardinality(s \ {First(s)}) = Cardinality(s) - 1
      BY <1>1, <3>2, FS_RemoveElement
    <3>4. Cardinality(s \ {First(s)}) = n
      BY <2>1, <3>3
    <3>5. g[s \ {First(s)}] = h[s \ {First(s)}]
      BY <1>4, <3>4
    <3>. QED BY <1>2, <3>1, <3>5
  <2>. QED BY <2>1
<1>. HIDE DEF N
<1>5. Cardinality(R) \in Nat /\ Nat \subseteq N
  BY <1>1, <1>3, <1>4, NatSetInduction
<1>. QED BY <1>5 DEF N

LEMMA SumUnfold ==
  ASSUME NEW f, NEW S, IsFiniteSet(S)
  PROVE  SumFunctionOnSet(f, S)
           = IF S = {} THEN 0
             ELSE f[First(S)] + SumFunctionOnSet(f, S \ {First(S)})
<1>. DEFINE g == CHOOSE g : Summing(g, f, S)
            R == S \ {First(S)}
            h == CHOOSE h : Summing(h, f, R)
<1>1. IsFiniteSet(R)
  BY FS_Subset
<1>2. Summing(g, f, S) /\ Summing(h, f, R)
  BY <1>1, SummingExists
<1>3. SumFunctionOnSet(f, S) = g[S] /\ SumFunctionOnSet(f, R) = h[R]
  BY SumIs
<1>. HIDE DEF g, h
<1>4. g[R] = h[R]
  BY <1>2, SummingSame
<1>5. g[S] = IF S = {} THEN 0 ELSE f[First(S)] + g[R]
  BY <1>2 DEF Summing
<1>. QED BY <1>3, <1>4, <1>5

LEMMA SumEmpty ==
  ASSUME NEW f
  PROVE  SumFunctionOnSet(f, {}) = 0
BY SumUnfold, FS_EmptySet

\* Any element can be taken out first.
LEMMA SumTake ==
  ASSUME NEW f, NEW S, IsFiniteSet(S), \A x \in S : f[x] \in Nat
  PROVE  /\ SumFunctionOnSet(f, S) \in Nat
         /\ \A a \in S : SumFunctionOnSet(f, S) = f[a] + SumFunctionOnSet(f, S \ {a})
<1>. DEFINE Sum(s) == SumFunctionOnSet(f, s)
            Good(s) == /\ Sum(s) \in Nat
                       /\ \A a \in s : Sum(s) = f[a] + Sum(s \ {a})
            N == {n \in Nat : \A s \in SUBSET S : Cardinality(s) <= n => Good(s)}
<1>1. \A s \in SUBSET S : IsFiniteSet(s) /\ Cardinality(s) \in Nat
  BY FS_Subset, FS_CardinalityType
<1>2. \A s \in SUBSET S : \A a \in s : Cardinality(s \ {a}) = Cardinality(s) - 1
  BY <1>1, FS_RemoveElement
<1>3. \A s \in SUBSET S : Sum(s) = IF s = {} THEN 0 ELSE f[First(s)] + Sum(s \ {First(s)})
  BY <1>1, SumUnfold
<1>4. Sum({}) = 0
  BY SumEmpty
<1>. HIDE DEF Sum
<1>7. 0 \in N
  <2>1. \A s \in SUBSET S : Cardinality(s) <= 0 => s = {}
    BY <1>1, FS_EmptySet
  <2>3. Good({})
    BY <1>4
  <2>. HIDE DEF Good
  <2>. QED BY <2>1, <2>3
<1>5. ASSUME NEW n \in Nat, n \in N PROVE n + 1 \in N
  <2>1. ASSUME NEW s \in SUBSET S, Cardinality(s) <= n + 1, s # {} PROVE Good(s)
    <3>. DEFINE x == First(s)
                R == s \ {x}
    <3>2. x \in s /\ f[x] \in Nat
      BY <2>1 DEF First
    <3>. HIDE DEF x
    <3>3. Cardinality(R) <= n /\ R \in SUBSET S
      BY <1>1, <1>2, <2>1, <3>2
    <3>4. Good(R)
      BY <1>5, <3>3
    <3>5. Sum(s) = f[x] + Sum(R)
      BY <1>3, <2>1 DEF x
    <3>6. ASSUME NEW a \in s PROVE Sum(s) = f[a] + Sum(s \ {a})
      <4>1. CASE a = x
        BY <4>1, <3>5
      <4>2. CASE a # x
        <5>1. a \in R /\ Sum(R) = f[a] + Sum(R \ {a})
          BY <3>4, <4>2
        <5>2. Cardinality(s \ {a}) <= n /\ s \ {a} \in SUBSET S
          BY <1>1, <1>2, <2>1
        <5>3. Good(s \ {a})
          BY <1>5, <5>2
        <5>4. x \in s \ {a} /\ (s \ {a}) \ {x} = R \ {a}
          BY <3>2, <4>2
        <5>5. Sum(s \ {a}) = f[x] + Sum(R \ {a})
          BY <5>3, <5>4
        <5>6. Cardinality(R \ {a}) <= n /\ R \ {a} \in SUBSET S
          <6>1. Cardinality(R \ {a}) = Cardinality(R) - 1 /\ Cardinality(R) \in Nat
            BY <1>1, <1>2, <3>3, <5>1
          <6>. QED BY <6>1, <3>3
        <5>7. Sum(R \ {a}) \in Nat /\ f[a] \in Nat
          BY <1>5, <5>6
        <5>. QED BY <5>1, <5>5, <5>7, <3>2, <3>5
      <4>. QED BY <4>1, <4>2
    <3>7. Sum(s) \in Nat
      BY <3>2, <3>4, <3>5
    <3>. QED BY <3>6, <3>7
  <2>2. Good({})
    BY <1>4
  <2>. HIDE DEF Good
  <2>. QED BY <2>1, <2>2
<1>. HIDE DEF N
<1>6. Cardinality(S) \in N
  BY <1>1, <1>5, <1>7, NatSetInduction
<1>. QED BY <1>6 DEF N, Sum

\* Sums of functions that agree, that are ordered, that are sums or multiples of
\* each other, or constant. Each is an induction over the set.
LEMMA SumSame ==
  ASSUME NEW S, IsFiniteSet(S), NEW f, NEW g, \A x \in S : f[x] \in Nat /\ g[x] = f[x]
  PROVE  SumFunctionOnSet(g, S) = SumFunctionOnSet(f, S)
<1>. DEFINE F(s) == SumFunctionOnSet(f, s)
            G(s) == SumFunctionOnSet(g, s)
            T == {s \in SUBSET S : G(s) = F(s)}
<1>1. \A s \in SUBSET S : /\ \A a \in s : F(s) = f[a] + F(s \ {a})
                          /\ \A a \in s : G(s) = g[a] + G(s \ {a})
  BY SumTake, FS_Subset
<1>2. F({}) = G({})
  BY SumEmpty
<1>. HIDE DEF F, G
<1>3. ASSUME NEW s \in SUBSET S, NEW a \in S \ s, s \in T PROVE s \cup {a} \in T
  <2>1. (s \cup {a}) \ {a} = s /\ s \cup {a} \in SUBSET S /\ a \in s \cup {a}
    OBVIOUS
  <2>2. F(s \cup {a}) = f[a] + F(s) /\ G(s \cup {a}) = g[a] + G(s)
    BY <1>1, <2>1
  <2>. QED BY <1>3, <2>1, <2>2
<1>4. {} \in T
  BY <1>2
<1>. HIDE DEF T
<1>5. S \in T
  BY <1>3, <1>4, FiniteInduction
<1>. QED BY <1>5 DEF T, F, G

LEMMA SumLess ==
  ASSUME NEW S, IsFiniteSet(S), NEW f, NEW g,
         \A x \in S : f[x] \in Nat /\ g[x] \in Nat /\ f[x] <= g[x]
  PROVE  SumFunctionOnSet(f, S) <= SumFunctionOnSet(g, S)
<1>. DEFINE F(s) == SumFunctionOnSet(f, s)
            G(s) == SumFunctionOnSet(g, s)
            T == {s \in SUBSET S : F(s) <= G(s)}
<1>1. \A s \in SUBSET S : /\ F(s) \in Nat /\ \A a \in s : F(s) = f[a] + F(s \ {a})
                          /\ G(s) \in Nat /\ \A a \in s : G(s) = g[a] + G(s \ {a})
  BY SumTake, FS_Subset
<1>2. F({}) = 0 /\ G({}) = 0
  BY SumEmpty
<1>. HIDE DEF F, G
<1>3. ASSUME NEW s \in SUBSET S, NEW a \in S \ s, s \in T PROVE s \cup {a} \in T
  <2>1. (s \cup {a}) \ {a} = s /\ s \cup {a} \in SUBSET S /\ a \in s \cup {a}
    OBVIOUS
  <2>2. F(s \cup {a}) = f[a] + F(s) /\ G(s \cup {a}) = g[a] + G(s)
    BY <1>1, <2>1
  <2>3. F(s) <= G(s) /\ F(s) \in Nat /\ G(s) \in Nat
    BY <1>1, <1>3
  <2>4. F(s \cup {a}) <= G(s \cup {a})
    BY <2>2, <2>3
  <2>. QED BY <2>1, <2>4
<1>4. {} \in T
  BY <1>2
<1>. HIDE DEF T
<1>5. S \in T
  BY <1>3, <1>4, FiniteInduction
<1>. QED BY <1>5 DEF T, F, G

LEMMA SumPlus ==
  ASSUME NEW S, IsFiniteSet(S), NEW f, NEW g, NEW h,
         \A x \in S : f[x] \in Nat /\ g[x] \in Nat /\ h[x] = f[x] + g[x]
  PROVE  SumFunctionOnSet(h, S) = SumFunctionOnSet(f, S) + SumFunctionOnSet(g, S)
<1>. DEFINE F(s) == SumFunctionOnSet(f, s)
            G(s) == SumFunctionOnSet(g, s)
            H(s) == SumFunctionOnSet(h, s)
            T == {s \in SUBSET S : H(s) = F(s) + G(s)}
<1>0. \A x \in S : f[x] \in Nat /\ g[x] \in Nat /\ h[x] \in Nat
  OBVIOUS
<1>1. \A s \in SUBSET S : /\ F(s) \in Nat /\ \A a \in s : F(s) = f[a] + F(s \ {a})
                          /\ G(s) \in Nat /\ \A a \in s : G(s) = g[a] + G(s \ {a})
                          /\ H(s) \in Nat /\ \A a \in s : H(s) = h[a] + H(s \ {a})
  BY <1>0, SumTake, FS_Subset
<1>2. F({}) = 0 /\ G({}) = 0 /\ H({}) = 0
  BY SumEmpty
<1>. HIDE DEF F, G, H
<1>3. ASSUME NEW s \in SUBSET S, NEW a \in S \ s, s \in T PROVE s \cup {a} \in T
  <2>1. (s \cup {a}) \ {a} = s /\ s \cup {a} \in SUBSET S /\ a \in s \cup {a}
    OBVIOUS
  <2>2. /\ F(s \cup {a}) = f[a] + F(s) /\ G(s \cup {a}) = g[a] + G(s)
        /\ H(s \cup {a}) = h[a] + H(s)
    BY <1>1, <2>1
  <2>3. F(s) \in Nat /\ G(s) \in Nat /\ H(s) = F(s) + G(s) /\ h[a] = f[a] + g[a]
    BY <1>1, <1>3
  <2>4. H(s \cup {a}) = F(s \cup {a}) + G(s \cup {a})
    BY <1>0, <2>2, <2>3
  <2>. QED BY <2>1, <2>4
<1>4. {} \in T
  BY <1>2
<1>. HIDE DEF T
<1>5. S \in T
  BY <1>3, <1>4, FiniteInduction
<1>. QED BY <1>5 DEF T, F, G, H

LEMMA SumTimes ==
  ASSUME NEW S, IsFiniteSet(S), NEW f, NEW c \in Nat, NEW h,
         \A x \in S : f[x] \in Nat /\ h[x] = c * f[x]
  PROVE  SumFunctionOnSet(h, S) = c * SumFunctionOnSet(f, S)
<1>. DEFINE F(s) == SumFunctionOnSet(f, s)
            H(s) == SumFunctionOnSet(h, s)
            T == {s \in SUBSET S : H(s) = c * F(s)}
<1>0. \A x \in S : f[x] \in Nat /\ h[x] \in Nat
  OBVIOUS
<1>1. \A s \in SUBSET S : /\ F(s) \in Nat /\ \A a \in s : F(s) = f[a] + F(s \ {a})
                          /\ H(s) \in Nat /\ \A a \in s : H(s) = h[a] + H(s \ {a})
  BY <1>0, SumTake, FS_Subset
<1>2. F({}) = 0 /\ H({}) = 0
  BY SumEmpty
<1>. HIDE DEF F, H
<1>3. ASSUME NEW s \in SUBSET S, NEW a \in S \ s, s \in T PROVE s \cup {a} \in T
  <2>1. (s \cup {a}) \ {a} = s /\ s \cup {a} \in SUBSET S /\ a \in s \cup {a}
    OBVIOUS
  <2>2. F(s \cup {a}) = f[a] + F(s) /\ H(s \cup {a}) = h[a] + H(s)
    BY <1>1, <2>1
  <2>3. F(s) \in Nat /\ H(s) = c * F(s) /\ h[a] = c * f[a] /\ f[a] \in Nat
    BY <1>1, <1>3
  <2>4. \A m, n \in Nat : c * m + c * n = c * (m + n)
    OBVIOUS
  <2>5. H(s \cup {a}) = c * F(s \cup {a})
    BY <2>2, <2>3, <2>4
  <2>. QED BY <2>1, <2>5
<1>4. {} \in T
  BY <1>2
<1>. HIDE DEF T
<1>5. S \in T
  BY <1>3, <1>4, FiniteInduction
<1>. QED BY <1>5 DEF T, F, H

LEMMA SumConst ==
  ASSUME NEW S, IsFiniteSet(S), NEW c \in Nat, NEW f, \A x \in S : f[x] = c
  PROVE  SumFunctionOnSet(f, S) = Cardinality(S) * c
<1>. DEFINE F(s) == SumFunctionOnSet(f, s)
            C(s) == Cardinality(s)
            T == {s \in SUBSET S : F(s) = C(s) * c}
<1>1. \A s \in SUBSET S : /\ F(s) \in Nat /\ \A a \in s : F(s) = f[a] + F(s \ {a})
                          /\ IsFiniteSet(s) /\ C(s) \in Nat
  BY SumTake, FS_Subset, FS_CardinalityType
<1>2. F({}) = 0 /\ C({}) = 0
  BY SumEmpty, FS_EmptySet
<1>5. ASSUME NEW s \in SUBSET S, NEW a \in S \ s PROVE C(s \cup {a}) = C(s) + 1
  <2>1. IsFiniteSet(s) /\ a \notin s
    BY <1>1
  <2>. QED BY <2>1, FS_AddElement
<1>. HIDE DEF F, C
<1>3. ASSUME NEW s \in SUBSET S, NEW a \in S \ s, s \in T PROVE s \cup {a} \in T
  <2>1. (s \cup {a}) \ {a} = s /\ s \cup {a} \in SUBSET S /\ a \in s \cup {a}
    OBVIOUS
  <2>2. F(s \cup {a}) = c + F(s) /\ C(s \cup {a}) = C(s) + 1
    BY <1>1, <1>5, <2>1
  <2>3. F(s) = C(s) * c /\ C(s) \in Nat
    BY <1>1, <1>3
  <2>4. \A m \in Nat : c + m * c = (m + 1) * c
    OBVIOUS
  <2>5. F(s \cup {a}) = C(s \cup {a}) * c
    BY <2>2, <2>3, <2>4
  <2>. QED BY <2>1, <2>5
<1>4. {} \in T
  BY <1>2
<1>. HIDE DEF T
<1>6. S \in T
  BY <1>3, <1>4, FiniteInduction
<1>. QED BY <1>6 DEF T, F, C

\* Functions that differ in one place.
LEMMA SumOnePoint ==
  ASSUME NEW S, IsFiniteSet(S), NEW a \in S, NEW f, NEW g,
         \A x \in S : f[x] \in Nat /\ g[x] \in Nat,
         \A x \in S \ {a} : g[x] = f[x]
  PROVE  SumFunctionOnSet(g, S) + f[a] = SumFunctionOnSet(f, S) + g[a]
<1>1. IsFiniteSet(S \ {a})
  BY FS_Subset
<1>2. SumFunctionOnSet(g, S \ {a}) = SumFunctionOnSet(f, S \ {a})
  BY <1>1, SumSame
<1>3. /\ SumFunctionOnSet(f, S \ {a}) \in Nat
      /\ SumFunctionOnSet(f, S) = f[a] + SumFunctionOnSet(f, S \ {a})
      /\ SumFunctionOnSet(g, S) = g[a] + SumFunctionOnSet(g, S \ {a})
  BY <1>1, SumTake
<1>. QED BY <1>2, <1>3

\* A sum does not depend on how its places are named.
LEMMA SumMoved ==
  ASSUME NEW S, NEW R, IsFiniteSet(S), NEW f, NEW g,
         NEW b \in Bijection(S, R),
         \A x \in R : g[x] \in Nat,
         \A x \in S : f[x] = g[b[x]]
  PROVE  SumFunctionOnSet(f, S) = SumFunctionOnSet(g, R)
<1>. DEFINE Img(s) == {b[x] : x \in s}
            F(s) == SumFunctionOnSet(f, s)
            G(s) == SumFunctionOnSet(g, s)
            T == {s \in SUBSET S : F(s) = G(Img(s))}
<1>0. /\ IsFiniteSet(R) /\ \A x \in S : b[x] \in R
      /\ \A x, y \in S : b[x] = b[y] => x = y
      /\ \A y \in R : \E x \in S : b[x] = y
  <2>1. IsFiniteSet(R)
    BY FS_Bijection DEF ExistsBijection
  <2>. QED BY <2>1 DEF Bijection, Injection, Surjection, IsInjective
<1>1. /\ \A s \in SUBSET S : F(s) \in Nat /\ \A a \in s : F(s) = f[a] + F(s \ {a})
      /\ \A s \in SUBSET R : G(s) \in Nat /\ \A a \in s : G(s) = g[a] + G(s \ {a})
  <2>1. \A x \in S : f[x] \in Nat
    BY <1>0
  <2>. QED BY <2>1, <1>0, SumTake, FS_Subset
<1>2. F({}) = 0 /\ G({}) = 0 /\ Img({}) = {}
  BY SumEmpty
<1>. HIDE DEF F, G
<1>3. ASSUME NEW s \in SUBSET S, NEW a \in S \ s, s \in T PROVE s \cup {a} \in T
  <2>1. (s \cup {a}) \ {a} = s /\ s \cup {a} \in SUBSET S /\ a \in s \cup {a}
    OBVIOUS
  <2>2. Img(s \cup {a}) \ {b[a]} = Img(s) /\ b[a] \in Img(s \cup {a})
        /\ Img(s \cup {a}) \in SUBSET R
    BY <1>0
  <2>3. F(s \cup {a}) = f[a] + F(s)
    BY <1>1, <2>1
  <2>4. G(Img(s \cup {a})) = g[b[a]] + G(Img(s))
    BY <1>1, <2>2
  <2>5. F(s \cup {a}) = G(Img(s \cup {a}))
    BY <1>3, <2>3, <2>4
  <2>. QED BY <2>1, <2>5
<1>4. {} \in T
  BY <1>2
<1>6. Img(S) = R
  BY <1>0
<1>. HIDE DEF T
<1>5. S \in T
  BY <1>3, <1>4, FiniteInduction
<1>. QED BY <1>5, <1>6 DEF T, F, G

\* A sum over places is a sum over what stands there, each as often as it does.
Keyed(f, I, k, v, X) == \A i \in I : f[i] = IF k[i] \in X THEN v[k[i]] ELSE 0
Counted(k, x, I) == SumFunctionOnSet([i \in I |-> IF k[i] = x THEN 1 ELSE 0], I)

LEMMA SumByKey ==
  ASSUME NEW I, IsFiniteSet(I), NEW X, IsFiniteSet(X), NEW k, NEW v, NEW f, NEW g,
         \A x \in X : v[x] \in Nat, Keyed(f, I, k, v, X),
         \A x \in X : g[x] = v[x] * Counted(k, x, I)
  PROVE  SumFunctionOnSet(f, I) = SumFunctionOnSet(g, X)
<1>. DEFINE One(x) == [i \in I |-> IF k[i] = x THEN 1 ELSE 0]
            N(x, s) == SumFunctionOnSet(One(x), s)
            F(s) == SumFunctionOnSet(f, s)
            H(s) == [x \in X |-> v[x] * N(x, s)]
            T == {s \in SUBSET I : F(s) = SumFunctionOnSet(H(s), X)}
<1>0. \A i \in I : f[i] = IF k[i] \in X THEN v[k[i]] ELSE 0
  BY DEF Keyed
<1>1. \A s \in SUBSET I : /\ F(s) \in Nat
                          /\ \A a \in s : F(s) = f[a] + F(s \ {a})
  BY <1>0, SumTake, FS_Subset
<1>2. ASSUME NEW x, NEW s \in SUBSET I
      PROVE  /\ N(x, s) \in Nat
             /\ \A a \in s : N(x, s) = (IF k[a] = x THEN 1 ELSE 0) + N(x, s \ {a})
  <2>1. \A i \in s : One(x)[i] \in Nat /\ One(x)[i] = IF k[i] = x THEN 1 ELSE 0
    OBVIOUS
  <2>2. IsFiniteSet(s)
    BY FS_Subset
  <2>. HIDE DEF One
  <2>. QED BY <2>1, <2>2, SumTake
<1>3. F({}) = 0 /\ \A x : N(x, {}) = 0
  BY SumEmpty
<1>. HIDE DEF F, N
<1>4. {} \in T
  <2>1. \A x \in X : H({})[x] = 0
    BY <1>3
  <2>2. Cardinality(X) * 0 = 0
    BY FS_CardinalityType
  <2>3. SumFunctionOnSet(H({}), X) = Cardinality(X) * 0
    <3>. HIDE DEF H
    <3>. QED BY <2>1, SumConst
  <2>. QED BY <1>3, <2>2, <2>3
<1>5. ASSUME NEW s \in SUBSET I, NEW a \in I \ s, s \in T PROVE s \cup {a} \in T
  <2>. DEFINE t == s \cup {a}
              y == k[a]
  <2>1. t \ {a} = s /\ t \in SUBSET I /\ a \in t
    OBVIOUS
  <2>2. F(t) = f[a] + F(s)
    BY <1>1, <2>1
  <2>3. ASSUME NEW x \in X PROVE N(x, t) = (IF y = x THEN 1 ELSE 0) + N(x, s)
    <3>1. t \in SUBSET I
      BY <2>1
    <3>. HIDE DEF t
    <3>2. \A c \in t : N(x, t) = (IF k[c] = x THEN 1 ELSE 0) + N(x, t \ {c})
      BY <1>2, <3>1
    <3>3. N(x, t) = (IF k[a] = x THEN 1 ELSE 0) + N(x, t \ {a})
      BY <2>1, <3>2
    <3>. QED BY <2>1, <3>3
  <2>. HIDE DEF t
  <2>4. \A x \in X : /\ N(x, s) \in Nat /\ N(x, t) \in Nat
                     /\ H(s)[x] = v[x] * N(x, s) /\ H(t)[x] = v[x] * N(x, t)
                     /\ H(s)[x] \in Nat /\ H(t)[x] \in Nat
    BY <1>2, <2>1
  <2>5. \A x \in X \ {y} : H(t)[x] = H(s)[x]
    BY <2>3, <2>4
  <2>6. y \in X => H(t)[y] = H(s)[y] + v[y]
    <3>1. \A m, n \in Nat : m * (1 + n) = m * n + m
      OBVIOUS
    <3>. QED BY <2>3, <2>4, <3>1
  <2>. HIDE DEF H
  <2>7. /\ SumFunctionOnSet(H(s), X) \in Nat
        /\ SumFunctionOnSet(H(t), X) \in Nat
    BY <2>4, SumTake
  <2>8. CASE y \in X
    <3>1. SumFunctionOnSet(H(t), X) + H(s)[y] = SumFunctionOnSet(H(s), X) + H(t)[y]
      BY <2>4, <2>5, <2>8, SumOnePoint
    <3>2. f[a] = v[y] /\ v[y] \in Nat
      BY <1>0, <2>8
    <3>3. SumFunctionOnSet(H(t), X) = SumFunctionOnSet(H(s), X) + v[y]
      <4>1. H(t)[y] = H(s)[y] + v[y] /\ H(s)[y] \in Nat
        BY <2>4, <2>6, <2>8
      <4>. QED BY <2>7, <3>1, <3>2, <4>1
    <3>. QED BY <1>5, <2>1, <2>2, <2>7, <3>2, <3>3 DEF t
  <2>9. CASE y \notin X
    <3>1. SumFunctionOnSet(H(t), X) = SumFunctionOnSet(H(s), X)
      BY <2>4, <2>5, <2>9, SumSame
    <3>2. f[a] = 0
      BY <1>0, <2>9
    <3>. QED BY <1>1, <1>5, <2>1, <2>2, <3>1, <3>2 DEF t
  <2>. QED BY <2>8, <2>9
<1>. HIDE DEF T
<1>6. I \in T
  BY <1>4, <1>5, FiniteInduction
<1>7. \A x \in X : H(I)[x] \in Nat /\ g[x] = H(I)[x]
  <2>1. \A x \in X : N(x, I) \in Nat
    BY <1>2
  <2>2. \A x \in X : N(x, I) = Counted(k, x, I)
    BY DEF N, Counted
  <2>. QED BY <2>1, <2>2 DEF H
<1>8. F(I) = SumFunctionOnSet(H(I), X)
  BY <1>6 DEF T
<1>. HIDE DEF H
<1>. QED BY <1>7, <1>8, SumSame DEF F

-----------------------------------------------------------------------------
(* Sums along a list.                                                      *)

Along(w, s) == [i \in DOMAIN s |-> w[s[i]]]
Total(w, s) == SumFunctionOnSet(Along(w, s), DOMAIN s)

LEMMA AlongLemma ==
  ASSUME NEW S, NEW w \in [S -> Nat], NEW s \in Seq(S)
  PROVE  /\ IsFiniteSet(DOMAIN s) /\ DOMAIN s = 1 .. Len(s) /\ Len(s) \in Nat
         /\ DOMAIN Along(w, s) = DOMAIN s
         /\ \A i \in DOMAIN s : Along(w, s)[i] = w[s[i]] /\ w[s[i]] \in Nat
<1>1. DOMAIN s = 1 .. Len(s) /\ Len(s) \in Nat /\ \A i \in 1 .. Len(s) : s[i] \in S
  OBVIOUS
<1>2. IsFiniteSet(1 .. Len(s))
  BY <1>1, FS_Interval
<1>. QED BY <1>1, <1>2 DEF Along

LEMMA TotalType ==
  ASSUME NEW S, NEW w \in [S -> Nat], NEW s \in Seq(S)
  PROVE  Total(w, s) \in Nat
BY AlongLemma, SumTake DEF Total

LEMMA TotalEmpty ==
  ASSUME NEW w
  PROVE  Total(w, <<>>) = 0
BY SumEmpty DEF Total

\* A list without its n-th element, wherever the others have moved.
Without(s, n, r, b) ==
  /\ n \in 1 .. Len(s) /\ b \in Bijection(1 .. Len(r), (1 .. Len(s)) \ {n})
  /\ \A i \in 1 .. Len(r) : r[i] = s[b[i]]

LEMMA TotalWithout ==
  ASSUME NEW S, NEW w \in [S -> Nat], NEW s \in Seq(S), NEW r \in Seq(S),
         NEW n, NEW b, Without(s, n, r, b)
  PROVE  Total(w, s) = Total(w, r) + w[s[n]]
<1>. DEFINE D == 1 .. Len(s)
            E == 1 .. Len(r)
            R == D \ {n}
            f == Along(w, s)
            g == Along(w, r)
<1>1. /\ IsFiniteSet(D) /\ DOMAIN s = D
      /\ \A i \in D : f[i] = w[s[i]] /\ f[i] \in Nat
  BY AlongLemma
<1>2. /\ IsFiniteSet(E) /\ DOMAIN r = E
      /\ \A i \in E : g[i] = w[r[i]] /\ g[i] \in Nat
  BY AlongLemma
<1>. HIDE DEF D, E, f, g
<1>3. b \in Bijection(E, R)
  BY DEF D, E, Without
<1>4. \A i \in E : b[i] \in R /\ r[i] = s[b[i]]
  BY <1>3 DEF Bijection, Injection, E, Without
<1>5. \A i \in E : g[i] = f[b[i]]
  BY <1>1, <1>2, <1>4
<1>6. \A i \in R : f[i] \in Nat
  BY <1>1
<1>7. SumFunctionOnSet(g, E) = SumFunctionOnSet(f, R)
  <2>. HIDE DEF R
  <2>1. IsFiniteSet(E)
    BY <1>2
  <2>. QED BY <1>3, <1>5, <1>6, <2>1, SumMoved
<1>8. n \in D
  BY DEF D, Without
<1>9. SumFunctionOnSet(f, D) = f[n] + SumFunctionOnSet(f, R)
  <2>1. IsFiniteSet(D)
    BY <1>1
  <2>2. \A i \in D : f[i] \in Nat
    BY <1>1
  <2>3. \A a \in D : SumFunctionOnSet(f, D) = f[a] + SumFunctionOnSet(f, D \ {a})
    BY <2>1, <2>2, SumTake
  <2>. QED BY <1>8, <2>3
<1>10. SumFunctionOnSet(g, E) \in Nat /\ f[n] = w[s[n]] /\ f[n] \in Nat
  BY <1>1, <1>2, <1>8, SumTake
<1>11. Total(w, s) = SumFunctionOnSet(f, D) /\ Total(w, r) = SumFunctionOnSet(g, E)
  BY <1>1, <1>2 DEF Total, f, g
<1>. QED BY <1>7, <1>9, <1>10, <1>11

LEMMA TotalAppend ==
  ASSUME NEW S, NEW w \in [S -> Nat], NEW s \in Seq(S), NEW x \in S
  PROVE  Total(w, Append(s, x)) = Total(w, s) + w[x]
<1>. DEFINE t == Append(s, x)
            n == Len(s) + 1
            b == [i \in 1 .. Len(s) |-> i]
<1>1. /\ t \in Seq(S) /\ Len(t) = n /\ Len(s) \in Nat
      /\ t[n] = x /\ \A i \in 1 .. Len(s) : t[i] = s[i]
  OBVIOUS
<1>. HIDE DEF t
<1>2. n \in 1 .. Len(t) /\ (1 .. Len(t)) \ {n} = 1 .. Len(s)
  BY <1>1
<1>3. b \in Bijection(1 .. Len(s), (1 .. Len(t)) \ {n}) /\ \A i \in 1 .. Len(s) : s[i] = t[b[i]]
  BY <1>1, <1>2 DEF Bijection, Injection, Surjection, IsInjective
<1>. HIDE DEF n, b
<1>4. Total(w, t) = Total(w, s) + w[t[n]]
  <2>1. t \in Seq(S) /\ Without(t, n, s, b)
    BY <1>1, <1>2, <1>3 DEF Without
  <2>. QED BY <2>1, TotalWithout
<1>. QED BY <1>1, <1>4 DEF t

LEMMA TotalTail ==
  ASSUME NEW S, NEW w \in [S -> Nat], NEW s \in Seq(S), s # <<>>
  PROVE  Total(w, s) = Total(w, Tail(s)) + w[Head(s)]
<1>. DEFINE t == Tail(s)
            D == 1 .. Len(t)
            R == (1 .. Len(s)) \ {1}
            b == [i \in D |-> i + 1]
<1>1. /\ t \in Seq(S) /\ Len(t) = Len(s) - 1
      /\ Len(s) \in Nat \ {0} /\ s[1] = Head(s)
      /\ \A i \in 1 .. Len(t) : t[i] = s[i + 1]
  OBVIOUS
<1>. HIDE DEF t
<1>2. 1 \in 1 .. Len(s)
  BY <1>1
<1>3. b \in Bijection(D, R) /\ \A i \in D : t[i] = s[b[i]]
  <2>1. \A i \in D : i + 1 \in R /\ b[i] = i + 1 /\ t[i] = s[b[i]]
    BY <1>1
  <2>2. \A i \in R : i - 1 \in D /\ b[i - 1] = i
    BY <1>1
  <2>3. b \in [D -> R]
    BY <2>1
  <2>4. \A i, k \in D : b[i] = b[k] => i = k
    BY <1>1, <2>1
  <2>. HIDE DEF b, D, R
  <2>. QED BY <2>1, <2>2, <2>3, <2>4 DEF Bijection, Injection, Surjection, IsInjective
<1>. HIDE DEF b
<1>4. Total(w, s) = Total(w, t) + w[s[1]]
  <2>1. t \in Seq(S) /\ Without(s, 1, t, b)
    BY <1>1, <1>2, <1>3 DEF Without
  <2>. QED BY <2>1, TotalWithout
<1>. QED BY <1>1, <1>4 DEF t

LEMMA TotalRemoveAt ==
  ASSUME NEW S, NEW w \in [S -> Nat], NEW s \in Seq(S), NEW n \in 1 .. Len(s)
  PROVE  Total(w, s) = Total(w, RemoveAt(s, n)) + w[s[n]]
<1>. DEFINE t == RemoveAt(s, n)
            D == 1 .. Len(t)
            R == (1 .. Len(s)) \ {n}
            b == [i \in D |-> IF i < n THEN i ELSE i + 1]
<1>0. Len(s) \in Nat /\ n \in Nat /\ 1 <= n /\ n <= Len(s)
  OBVIOUS
<1>1. /\ t \in Seq(S) /\ Len(t) = Len(s) - 1
      /\ \A i \in 1 .. Len(s) - 1 : t[i] = IF i < n THEN s[i] ELSE s[i + 1]
  BY RemovedAt
<1>. HIDE DEF t
<1>2. \A i \in D : /\ b[i] = IF i < n THEN i ELSE i + 1
                   /\ b[i] \in R /\ t[i] = s[b[i]]
  <2>. SUFFICES ASSUME NEW i \in D
                PROVE  /\ b[i] = IF i < n THEN i ELSE i + 1
                       /\ b[i] \in R /\ t[i] = s[b[i]]
    OBVIOUS
  <2>1. b[i] = IF i < n THEN i ELSE i + 1
    OBVIOUS
  <2>2. i \in 1 .. Len(s) - 1
    BY <1>1
  <2>3. t[i] = IF i < n THEN s[i] ELSE s[i + 1]
    BY <1>1, <2>2
  <2>. HIDE DEF b
  <2>. QED BY <1>0, <2>1, <2>2, <2>3
<1>3. b \in Bijection(D, R)
  <2>1. b \in [D -> R]
    BY <1>2
  <2>2. \A i, k \in D : b[i] = b[k] => i = k
    BY <1>0, <1>1, <1>2
  <2>3. \A i \in R : \E k \in D : b[k] = i
    <3>. SUFFICES ASSUME NEW i \in R PROVE \E k \in D : b[k] = i
      OBVIOUS
    <3>1. CASE i < n
      <4>1. i \in D /\ b[i] = i
        BY <1>0, <1>1, <3>1
      <4>. QED BY <4>1
    <3>2. CASE ~(i < n)
      <4>1. i - 1 \in D /\ b[i - 1] = i
        BY <1>0, <1>1, <3>2
      <4>. QED BY <4>1
    <3>. QED BY <3>1, <3>2
  <2>. HIDE DEF b, D, R
  <2>. QED BY <2>1, <2>2, <2>3 DEF Bijection, Injection, Surjection, IsInjective
<1>. HIDE DEF b
<1>4. Total(w, s) = Total(w, t) + w[s[n]]
  <2>1. t \in Seq(S) /\ Without(s, n, t, b)
    BY <1>1, <1>2, <1>3 DEF Without
  <2>. QED BY <2>1, TotalWithout
<1>. QED BY <1>4 DEF t

LEMMA TotalReverse ==
  ASSUME NEW S, NEW w \in [S -> Nat], NEW s \in Seq(S)
  PROVE  Total(w, Reverse(s)) = Total(w, s)
<1>. DEFINE t == Reverse(s)
            D == 1 .. Len(s)
            b == [i \in D |-> Len(s) - i + 1]
            f == Along(w, s)
            g == Along(w, t)
<1>1. /\ t \in Seq(S) /\ Len(t) = Len(s) /\ Len(s) \in Nat
      /\ \A i \in D : t[i] = s[Len(s) - i + 1]
  BY DEF Reverse
<1>. HIDE DEF t
<1>2. \A i \in D : b[i] = Len(s) - i + 1 /\ b[i] \in D /\ t[i] = s[b[i]]
  BY <1>1
<1>3. b \in Bijection(D, D)
  <2>1. b \in [D -> D]
    BY <1>2
  <2>2. \A i, k \in D : b[i] = b[k] => i = k
    BY <1>1, <1>2
  <2>3. \A i \in D : Len(s) - i + 1 \in D /\ b[Len(s) - i + 1] = i
    BY <1>1
  <2>. HIDE DEF b, D
  <2>. QED BY <2>1, <2>2, <2>3 DEF Bijection, Injection, Surjection, IsInjective
<1>. HIDE DEF b
<1>4. /\ IsFiniteSet(D) /\ DOMAIN s = D
      /\ \A i \in D : f[i] = w[s[i]] /\ f[i] \in Nat
  BY AlongLemma
<1>5. DOMAIN t = D /\ \A i \in D : g[i] = w[t[i]]
  <2>1. DOMAIN t = 1 .. Len(t) /\ \A i \in DOMAIN t : g[i] = w[t[i]]
    BY <1>1, AlongLemma
  <2>. QED BY <1>1, <2>1
<1>. HIDE DEF D, f, g
<1>6. \A i \in D : g[i] = f[b[i]]
  BY <1>2, <1>4, <1>5
<1>7. SumFunctionOnSet(g, D) = SumFunctionOnSet(f, D)
  <2>1. IsFiniteSet(D)
    BY <1>4
  <2>2. \A i \in D : f[i] \in Nat
    BY <1>4
  <2>. QED BY <1>3, <1>6, <2>1, <2>2, SumMoved
<1>. QED BY <1>4, <1>5, <1>7 DEF Total, t, f, g

LEMMA TotalLRem ==
  ASSUME NEW S, NEW w \in [S -> Nat], NEW s \in Seq(S), NEW x \in ToSet(s)
  PROVE  Total(w, s) = Total(w, LRem(s, x)) + w[x]
<1>1. PICK n \in 1 .. Len(s) : s[n] = x /\ LRem(s, x) = RemoveAt(s, n)
  BY LRemIsRemoveAt
<1>. QED BY <1>1, TotalRemoveAt

-----------------------------------------------------------------------------
(* How often an element is on a list.                                      *)

One(x) == [y \in Entry |-> IF y = x THEN 1 ELSE 0]
Copies(s, x) == Total(One(x), s)

LEMMA OneType ==
  ASSUME NEW x
  PROVE  One(x) \in [Entry -> Nat] /\ \A y \in Entry : One(x)[y] = IF y = x THEN 1 ELSE 0
BY DEF One

LEMMA CopiesType ==
  ASSUME NEW s \in Seq(Entry), NEW x
  PROVE  Copies(s, x) \in Nat
BY OneType, TotalType DEF Copies

LEMMA CopiesEmpty ==
  ASSUME NEW x PROVE Copies(<<>>, x) = 0
BY TotalEmpty DEF Copies

LEMMA CopiesPush ==
  ASSUME NEW s \in Seq(Entry), NEW h \in Entry, NEW x
  PROVE  /\ Copies(LPush(s, h), x) = Copies(s, x) + (IF h = x THEN 1 ELSE 0)
         /\ Copies(LPush(s, h), x) \in Nat /\ Copies(s, x) \in Nat
<1>1. Copies(LPush(s, h), x) = Copies(s, x) + One(x)[h]
  BY OneType, TotalAppend DEF Copies, LPush
<1>. QED BY <1>1, OneType, CopiesType

LEMMA CopiesTail ==
  ASSUME NEW s \in Seq(Entry), s # <<>>, NEW x
  PROVE  /\ Copies(s, x) = Copies(Tail(s), x) + (IF Head(s) = x THEN 1 ELSE 0)
         /\ Copies(Tail(s), x) \in Nat /\ Copies(s, x) \in Nat
<1>1. Head(s) \in Entry /\ Tail(s) \in Seq(Entry)
  BY HeadTailLemma
<1>2. Copies(s, x) = Copies(Tail(s), x) + One(x)[Head(s)]
  BY OneType, TotalTail DEF Copies
<1>. QED BY <1>1, <1>2, OneType, CopiesType

LEMMA CopiesReverse ==
  ASSUME NEW s \in Seq(Entry), NEW x
  PROVE  Copies(Reverse(s), x) = Copies(s, x)
BY OneType, TotalReverse DEF Copies

\* There are as many copies left as there were, or one less of the removed one.
LEMMA CopiesLRem ==
  ASSUME NEW s \in Seq(Entry), NEW h, NEW x
  PROVE  /\ Copies(LRem(s, h), x) \in Nat /\ Copies(s, x) \in Nat
         /\ Copies(LRem(s, h), x) <= Copies(s, x)
         /\ h \in ToSet(s) => Copies(s, h) = Copies(LRem(s, h), h) + 1
         /\ h \notin ToSet(s) => Copies(s, h) = 0
<1>1. LRem(s, h) \in Seq(Entry) /\ Copies(LRem(s, h), x) \in Nat /\ Copies(s, x) \in Nat
  BY LRemLemma, CopiesType
<1>2. ASSUME h \in ToSet(s), NEW y
      PROVE  Copies(s, y) = Copies(LRem(s, h), y) + One(y)[h] /\ h \in Entry
  <2>1. h \in Entry
    BY <1>2, OnList
  <2>. QED BY <1>2, <2>1, OneType, TotalLRem DEF Copies
<1>3. ASSUME h \notin ToSet(s) PROVE LRem(s, h) = s /\ Copies(s, h) = 0
  <2>. DEFINE f == Along(One(h), s)
  <2>1. LRem(s, h) = s
    BY <1>3 DEF LRem
  <2>2. /\ IsFiniteSet(DOMAIN s) /\ DOMAIN s = 1 .. Len(s)
        /\ \A i \in DOMAIN s : f[i] = One(h)[s[i]]
    BY OneType, AlongLemma
  <2>3. \A i \in DOMAIN s : f[i] = 0
    <3>1. \A i \in 1 .. Len(s) : s[i] \in Entry /\ s[i] # h
      BY <1>3, OnList
    <3>. QED BY <2>2, <3>1, OneType
  <2>. HIDE DEF f
  <2>4. SumFunctionOnSet(f, DOMAIN s) = Cardinality(DOMAIN s) * 0
    BY <2>2, <2>3, SumConst
  <2>5. Cardinality(DOMAIN s) * 0 = 0
    BY <2>2, FS_CardinalityType
  <2>. QED BY <2>1, <2>4, <2>5 DEF Copies, Total, f
<1>. QED BY <1>1, <1>2, <1>3, OneType

-----------------------------------------------------------------------------
(* What a copy can grow into.                                              *)

\* The recursion that defines Power has a solution.
LEMMA PowerLemma ==
  /\ Fanout \in Nat
  /\ \A n \in 0 .. MaxRetries :
       /\ Power[n] \in Nat
       /\ Power[n] = IF n = 0 THEN 1 ELSE Fanout * Power[n - 1]
<1>. DEFINE Upto(g, n) == g = [m \in 0 .. n |-> IF m = 0 THEN 1 ELSE Fanout * g[m - 1]]
            N == {n \in Nat : \E g : Upto(g, n)}
            M == {n \in Nat : n <= MaxRetries => Power[n] \in Nat}
<1>1. 0 \in N
  <2>1. Upto([m \in 0 .. 0 |-> 1], 0)
    OBVIOUS
  <2>. QED BY <2>1
<1>2. ASSUME NEW n \in Nat, n \in N PROVE n + 1 \in N
  <2>1. PICK g : Upto(g, n)
    BY <1>2
  <2>. DEFINE h == [m \in 0 .. n + 1 |-> IF m = 0 THEN 1 ELSE Fanout * g[m - 1]]
  <2>2. \A m \in 0 .. n : h[m] = g[m]
    BY <2>1
  <2>3. \A m \in 0 .. n + 1 : m # 0 => m - 1 \in 0 .. n
    OBVIOUS
  <2>4. \A m \in 0 .. n + 1 : h[m] = IF m = 0 THEN 1 ELSE Fanout * h[m - 1]
    BY <2>2, <2>3
  <2>5. h = [m \in 0 .. n + 1 |-> h[m]]
    OBVIOUS
  <2>. HIDE DEF h
  <2>6. Upto(h, n + 1)
    BY <2>4, <2>5
  <2>. QED BY <2>6
<1>. HIDE DEF N
<1>3. MaxRetries \in N
  BY <1>1, <1>2, NatSetInduction, BoundsAssumption
<1>4. \E g : Upto(g, MaxRetries)
  BY <1>3 DEF N
<1>5. Upto(Power, MaxRetries)
  BY <1>4 DEF Power
<1>6. \A n \in 0 .. MaxRetries : Power[n] = IF n = 0 THEN 1 ELSE Fanout * Power[n - 1]
  BY <1>5
<1>7. Fanout \in Nat
  BY ProcsAssumption, FS_CardinalityType DEF Fanout
<1>8. 0 \in M
  BY <1>6, BoundsAssumption
<1>9. ASSUME NEW n \in Nat, n \in M PROVE n + 1 \in M
  <2>. SUFFICES ASSUME n + 1 <= MaxRetries PROVE Power[n + 1] \in Nat
    OBVIOUS
  <2>1. n + 1 \in 0 .. MaxRetries /\ n <= MaxRetries /\ (n + 1) - 1 = n /\ n + 1 # 0
    BY BoundsAssumption
  <2>2. Power[n + 1] = Fanout * Power[n]
    BY <1>6, <2>1
  <2>3. Power[n] \in Nat
    BY <1>9, <2>1
  <2>. QED BY <1>7, <2>2, <2>3
<1>. HIDE DEF M
<1>10. Nat \subseteq M
  BY <1>8, <1>9, NatSetInduction
<1>11. \A n \in 0 .. MaxRetries : Power[n] \in Nat
  BY <1>10, BoundsAssumption DEF M
<1>. QED BY <1>6, <1>7, <1>11

\* The weight of a copy that a worker runs, and that of one that waits.
Unit(j) ==
  [x \in Entry |-> IF x.job = j /\ x.retries < MaxRetries
                   THEN Power[MaxRetries - x.retries - 1] ELSE 0]
Wait(j) == [x \in Entry |-> WaitingWeight(j, x)]

LEMMA WeightType ==
  ASSUME NEW j
  PROVE  Unit(j) \in [Entry -> Nat] /\ Wait(j) \in [Entry -> Nat]
<1>1. \A x \in Entry : /\ MaxRetries - x.retries \in 0 .. MaxRetries
                       /\ x.retries < MaxRetries =>
                            MaxRetries - x.retries - 1 \in 0 .. MaxRetries
  BY BoundsAssumption DEF Entry
<1>2. \A x \in Entry : WaitingWeight(j, x) \in Nat
  BY <1>1, PowerLemma DEF WaitingWeight
<1>3. \A x \in Entry : (IF x.job = j /\ x.retries < MaxRetries
                        THEN Power[MaxRetries - x.retries - 1] ELSE 0) \in Nat
  BY <1>1, PowerLemma
<1>. QED BY <1>2, <1>3 DEF Unit, Wait

\* A waiting copy is worth Fanout running ones, and a retried copy one. A stamp
\* changes nothing.
LEMMA WeightLemma ==
  ASSUME NEW j, NEW x \in Live
  PROVE  /\ x \in Entry /\ Unit(j)[x] \in Nat /\ Wait(j)[x] \in Nat
         /\ Wait(j)[x] = Fanout * Unit(j)[x]
         /\ Retried(x) \in Entry /\ Wait(j)[Retried(x)] = Unit(j)[x]
         /\ LeasedWeight(j, x) = (Cardinality(Procs) + 1) * Unit(j)[x]
         /\ x.job # j => Unit(j)[x] = 0
<1>. DEFINE n == MaxRetries - x.retries
<1>1. x \in Entry /\ x.retries \in 0 .. MaxRetries /\ x.retries < MaxRetries
  BY DEF Live, Entry
<1>2. n \in 0 .. MaxRetries /\ n - 1 \in 0 .. MaxRetries /\ n # 0
  BY <1>1, BoundsAssumption
<1>3. Unit(j)[x] = IF x.job = j THEN Power[n - 1] ELSE 0
  BY <1>1 DEF Unit
<1>4. Wait(j)[x] = IF x.job = j THEN Power[n] ELSE 0
  BY <1>1 DEF Wait, WaitingWeight
<1>5. /\ Retried(x) \in Entry /\ Retried(x).job = x.job
      /\ MaxRetries - Retried(x).retries = n - 1
  BY <1>1, BoundsAssumption DEF Retried, Entry
<1>6. Wait(j)[Retried(x)] = IF x.job = j THEN Power[n - 1] ELSE 0
  BY <1>5 DEF Wait, WaitingWeight
<1>7. LeasedWeight(j, x) = IF x.job = j THEN (Cardinality(Procs) + 1) * Power[n - 1] ELSE 0
  BY DEF LeasedWeight
<1>. HIDE DEF n
<1>8. Power[n] = Fanout * Power[n - 1] /\ Power[n - 1] \in Nat /\ Power[n] \in Nat
  BY <1>2, PowerLemma
<1>9. Fanout * 0 = 0 /\ (Cardinality(Procs) + 1) * 0 = 0
  BY PowerLemma, ProcsAssumption, FS_CardinalityType
<1>. QED BY <1>1, <1>3, <1>4, <1>5, <1>6, <1>7, <1>8, <1>9

LEMMA SameWeight ==
  ASSUME NEW j, NEW x \in Entry, NEW y \in Entry, x.job = y.job, x.retries = y.retries
  PROVE  Unit(j)[x] = Unit(j)[y] /\ Wait(j)[x] = Wait(j)[y]
BY DEF Unit, Wait, WaitingWeight

\* The copies of a job that can be told apart.
Kinds(j) == [job : {j}, retries : 0 .. MaxRetries, stamp : 0 .. MaxClock]

LEMMA KindsFinite ==
  ASSUME NEW j \in Jobs
  PROVE  /\ IsFiniteSet(Kinds(j)) /\ Kinds(j) \subseteq Entry
         /\ \A x \in Entry : x \in Kinds(j) <=> x.job = j
<1>. DEFINE S == (0 .. MaxRetries) \X (0 .. MaxClock)
            f == [s \in S |-> [job |-> j, retries |-> s[1], stamp |-> s[2]]]
<1>1. IsFiniteSet(0 .. MaxRetries) /\ IsFiniteSet(0 .. MaxClock)
  BY BoundsAssumption, FS_Interval
<1>2. IsFiniteSet(S)
  BY <1>1, FS_Product
<1>3. f \in [S -> Kinds(j)]
  BY DEF Kinds
<1>4. \A x \in Kinds(j) : <<x.retries, x.stamp>> \in S /\ f[<<x.retries, x.stamp>>] = x
  BY DEF Kinds
<1>. HIDE DEF f, S
<1>5. f \in Surjection(S, Kinds(j))
  BY <1>3, <1>4 DEF Surjection
<1>6. IsFiniteSet(Kinds(j))
  BY <1>2, <1>5, FS_Surjection
<1>. QED BY <1>6 DEF Kinds, Entry

-----------------------------------------------------------------------------
(* What a reaper can still requeue.                                        *)

\* Functions that are ordered, but for one place.
LEMMA SumLessOnePoint ==
  ASSUME NEW S, IsFiniteSet(S), NEW a \in S, NEW f, NEW g, NEW c \in Nat,
         \A x \in S : f[x] \in Nat /\ g[x] \in Nat,
         \A x \in S \ {a} : g[x] <= f[x], g[a] <= f[a] + c
  PROVE  SumFunctionOnSet(g, S) <= SumFunctionOnSet(f, S) + c
<1>1. IsFiniteSet(S \ {a})
  BY FS_Subset
<1>2. SumFunctionOnSet(g, S \ {a}) <= SumFunctionOnSet(f, S \ {a})
  BY <1>1, SumLess
<1>3. /\ SumFunctionOnSet(f, S) = f[a] + SumFunctionOnSet(f, S \ {a})
      /\ SumFunctionOnSet(g, S) = g[a] + SumFunctionOnSet(g, S \ {a})
      /\ SumFunctionOnSet(f, S \ {a}) \in Nat /\ SumFunctionOnSet(g, S \ {a}) \in Nat
  BY <1>1, SumTake
<1>4. f[a] \in Nat /\ g[a] \in Nat
  OBVIOUS
<1>. QED BY <1>2, <1>3, <1>4

LEMMA SumDropOnePoint ==
  ASSUME NEW S, IsFiniteSet(S), NEW a \in S, NEW f, NEW g, NEW c \in Nat,
         \A x \in S : f[x] \in Nat /\ g[x] \in Nat,
         \A x \in S \ {a} : g[x] <= f[x], g[a] + c <= f[a]
  PROVE  SumFunctionOnSet(g, S) + c <= SumFunctionOnSet(f, S)
<1>1. IsFiniteSet(S \ {a})
  BY FS_Subset
<1>2. SumFunctionOnSet(g, S \ {a}) <= SumFunctionOnSet(f, S \ {a})
  BY <1>1, SumLess
<1>3. /\ SumFunctionOnSet(f, S) = f[a] + SumFunctionOnSet(f, S \ {a})
      /\ SumFunctionOnSet(g, S) = g[a] + SumFunctionOnSet(g, S \ {a})
      /\ SumFunctionOnSet(f, S \ {a}) \in Nat /\ SumFunctionOnSet(g, S \ {a}) \in Nat
  BY <1>1, SumTake
<1>4. f[a] \in Nat /\ g[a] \in Nat
  OBVIOUS
<1>. QED BY <1>2, <1>3, <1>4

LEMMA TimesLess ==
  /\ \A u, m, n \in Nat : u * n \in Nat /\ (n <= m => u * n <= u * m)
  /\ \A u, m, n \in Nat : n <= m + 1 => u * n <= u * m + u
  /\ \A u, m, n \in Nat : n + 1 <= m => u * n + u <= u * m
<1>1. \A u, m \in Nat : u * m \in Nat
  OBVIOUS
<1>2. \A u, m, d \in Nat : u * (m + d) = u * m + u * d
  OBVIOUS
<1>3. \A u, m, n \in Nat : n <= m => u * n <= u * m
  <2>. SUFFICES ASSUME NEW u \in Nat, NEW m \in Nat, NEW n \in Nat, n <= m
                PROVE  u * n <= u * m
    OBVIOUS
  <2>. DEFINE d == m - n
  <2>1. d \in Nat /\ m = n + d
    OBVIOUS
  <2>. HIDE DEF d
  <2>2. u * m = u * n + u * d /\ u * d \in Nat /\ u * n \in Nat
    BY <1>1, <1>2, <2>1
  <2>. QED BY <2>2
<1>4. \A u, m \in Nat : u * (m + 1) = u * m + u
  OBVIOUS
<1>5. \A m \in Nat : m + 1 \in Nat
  OBVIOUS
<1>. QED BY <1>1, <1>3, <1>4, <1>5

Larger(m, n) == IF m <= n THEN n ELSE m

\* A reaper with a snapshot of the list may requeue each copy it has seen. One
\* that has none may take a snapshot now.
Reapable(j, snap, list) ==
  [x \in Kinds(j) |-> Unit(j)[x] * Larger(Copies(snap, x), Copies(list, x))]
Debt(j, snap, list) == SumFunctionOnSet(Reapable(j, snap, list), Kinds(j))

LEMMA ReapableType ==
  ASSUME NEW j \in Jobs, NEW snap \in Seq(Entry), NEW list \in Seq(Entry),
         NEW x \in Kinds(j)
  PROVE  /\ Reapable(j, snap, list)[x] = Unit(j)[x] * Larger(Copies(snap, x), Copies(list, x))
         /\ Unit(j)[x] \in Nat /\ Copies(snap, x) \in Nat /\ Copies(list, x) \in Nat
         /\ Larger(Copies(snap, x), Copies(list, x)) \in Nat
         /\ Reapable(j, snap, list)[x] \in Nat
<1>1. Unit(j)[x] \in Nat
  BY WeightType, KindsFinite
<1>2. Copies(snap, x) \in Nat /\ Copies(list, x) \in Nat
  BY CopiesType
<1>3. Larger(Copies(snap, x), Copies(list, x)) \in Nat
  BY <1>2 DEF Larger
<1>. QED BY <1>1, <1>2, <1>3 DEF Reapable

LEMMA DebtType ==
  ASSUME NEW j \in Jobs, NEW snap \in Seq(Entry), NEW list \in Seq(Entry)
  PROVE  Debt(j, snap, list) \in Nat
BY KindsFinite, ReapableType, SumTake DEF Debt

LEMMA DebtLess ==
  ASSUME NEW j \in Jobs, NEW snap \in Seq(Entry), NEW list \in Seq(Entry),
         NEW snap2 \in Seq(Entry), NEW list2 \in Seq(Entry),
         \A x \in Kinds(j) : Larger(Copies(snap2, x), Copies(list2, x))
                               <= Larger(Copies(snap, x), Copies(list, x))
  PROVE  Debt(j, snap2, list2) <= Debt(j, snap, list)
<1>. DEFINE f == Reapable(j, snap, list)
            g == Reapable(j, snap2, list2)
<1>1. ASSUME NEW x \in Kinds(j) PROVE f[x] \in Nat /\ g[x] \in Nat /\ g[x] <= f[x]
  <2>. DEFINE m == Larger(Copies(snap, x), Copies(list, x))
              n == Larger(Copies(snap2, x), Copies(list2, x))
  <2>1. /\ f[x] = Unit(j)[x] * m /\ g[x] = Unit(j)[x] * n
        /\ m \in Nat /\ n \in Nat /\ Unit(j)[x] \in Nat
        /\ f[x] \in Nat /\ g[x] \in Nat
    BY ReapableType
  <2>2. n <= m
    OBVIOUS
  <2>. HIDE DEF m, n, f, g
  <2>3. \A u, a, b \in Nat : b <= a => u * b <= u * a
    BY TimesLess
  <2>. QED BY <2>1, <2>2, <2>3
<1>. HIDE DEF f, g
<1>2. SumFunctionOnSet(g, Kinds(j)) <= SumFunctionOnSet(f, Kinds(j))
  BY <1>1, SumLess, KindsFinite
<1>. QED BY <1>2 DEF Debt, f, g

\* Snapshots and lists that lose elements, and a snapshot that is taken.
LEMMA DebtShrinks ==
  ASSUME NEW j \in Jobs, NEW snap \in Seq(Entry), NEW list \in Seq(Entry)
  PROVE  /\ \A h : Debt(j, snap, LRem(list, h)) <= Debt(j, snap, list)
         /\ snap # <<>> => Debt(j, Tail(snap), list) <= Debt(j, snap, list)
         /\ Debt(j, Reverse(list), list) <= Debt(j, <<>>, list)
<1>1. ASSUME NEW h PROVE Debt(j, snap, LRem(list, h)) <= Debt(j, snap, list)
  <2>1. LRem(list, h) \in Seq(Entry)
    BY LRemLemma
  <2>2. ASSUME NEW x \in Kinds(j)
        PROVE  Larger(Copies(snap, x), Copies(LRem(list, h), x))
                 <= Larger(Copies(snap, x), Copies(list, x))
    BY CopiesLRem, CopiesType DEF Larger
  <2>. QED BY <2>1, <2>2, DebtLess
<1>2. ASSUME snap # <<>> PROVE Debt(j, Tail(snap), list) <= Debt(j, snap, list)
  <2>1. Tail(snap) \in Seq(Entry)
    BY <1>2, HeadTailLemma
  <2>2. ASSUME NEW x \in Kinds(j)
        PROVE  Larger(Copies(Tail(snap), x), Copies(list, x))
                 <= Larger(Copies(snap, x), Copies(list, x))
    BY <1>2, CopiesTail, CopiesType DEF Larger
  <2>. QED BY <2>1, <2>2, DebtLess
<1>3. Debt(j, Reverse(list), list) <= Debt(j, <<>>, list)
  <2>1. Reverse(list) \in Seq(Entry) /\ <<>> \in Seq(Entry)
    BY ReverseLemma
  <2>2. ASSUME NEW x \in Kinds(j)
        PROVE  Larger(Copies(Reverse(list), x), Copies(list, x))
                 <= Larger(Copies(<<>>, x), Copies(list, x))
    BY CopiesReverse, CopiesEmpty, CopiesType DEF Larger
  <2>. QED BY <2>1, <2>2, DebtLess
<1>. QED BY <1>1, <1>2, <1>3

\* One more copy on the list.
LEMMA DebtPush ==
  ASSUME NEW j \in Jobs, NEW snap \in Seq(Entry), NEW list \in Seq(Entry), NEW h \in Entry
  PROVE  Debt(j, snap, LPush(list, h)) <= Debt(j, snap, list) + Unit(j)[h]
<1>. DEFINE list2 == LPush(list, h)
            f == Reapable(j, snap, list)
            g == Reapable(j, snap, list2)
<1>1. list2 \in Seq(Entry)
  BY LPushLemma
<1>2. ASSUME NEW x \in Kinds(j)
      PROVE  /\ h # x => Copies(list2, x) = Copies(list, x)
             /\ h = x => Copies(list2, x) = Copies(list, x) + 1
             /\ Copies(list2, x) \in Nat /\ Copies(list, x) \in Nat
  BY CopiesPush
<1>. HIDE DEF list2
<1>3. ASSUME NEW x \in Kinds(j)
      PROVE  /\ f[x] \in Nat /\ g[x] \in Nat /\ Unit(j)[x] \in Nat
             /\ h # x => g[x] <= f[x]
             /\ h = x => g[x] <= f[x] + Unit(j)[x]
  <2>. DEFINE m == Larger(Copies(snap, x), Copies(list, x))
              n == Larger(Copies(snap, x), Copies(list2, x))
  <2>1. /\ f[x] = Unit(j)[x] * m /\ g[x] = Unit(j)[x] * n
        /\ m \in Nat /\ n \in Nat /\ Unit(j)[x] \in Nat
        /\ f[x] \in Nat /\ g[x] \in Nat
    BY <1>1, ReapableType
  <2>2. Copies(snap, x) \in Nat
    BY CopiesType
  <2>3. (h # x => n = m) /\ (h = x => n <= m + 1)
    BY <1>2, <2>2 DEF Larger
  <2>. HIDE DEF m, n, f, g
  <2>4. \A c, a, b \in Nat : (b <= a => c * b <= c * a) /\ (b <= a + 1 => c * b <= c * a + c)
    BY TimesLess
  <2>. QED BY <2>1, <2>3, <2>4
<1>. HIDE DEF f, g
<1>4. SumFunctionOnSet(g, Kinds(j)) <= SumFunctionOnSet(f, Kinds(j)) + Unit(j)[h]
  <2>1. CASE h \in Kinds(j)
    <3>1. \A x \in Kinds(j) \ {h} : g[x] <= f[x]
      BY <1>3
    <3>. QED BY <2>1, <3>1, <1>3, SumLessOnePoint, KindsFinite
  <2>2. CASE h \notin Kinds(j)
    <3>1. SumFunctionOnSet(g, Kinds(j)) <= SumFunctionOnSet(f, Kinds(j))
      BY <2>2, <1>3, SumLess, KindsFinite
    <3>2. /\ SumFunctionOnSet(g, Kinds(j)) \in Nat /\ SumFunctionOnSet(f, Kinds(j)) \in Nat
          /\ Unit(j)[h] \in Nat
      BY <1>3, SumTake, KindsFinite, WeightType
    <3>. QED BY <3>1, <3>2
  <2>. QED BY <2>1, <2>2
<1>. QED BY <1>4 DEF Debt, f, g, list2

\* A snapshot whose head is reaped, from the list too if it is still there.
LEMMA DebtReap ==
  ASSUME NEW j \in Jobs, NEW snap \in Seq(Entry), NEW list \in Seq(Entry), snap # <<>>
  PROVE  Debt(j, Tail(snap), LRem(list, Head(snap))) + Unit(j)[Head(snap)]
           <= Debt(j, snap, list)
<1>. DEFINE h == Head(snap)
            snap2 == Tail(snap)
            list2 == LRem(list, h)
            f == Reapable(j, snap, list)
            g == Reapable(j, snap2, list2)
<1>1. h \in Entry /\ snap2 \in Seq(Entry) /\ list2 \in Seq(Entry)
  BY HeadTailLemma, LRemLemma
<1>2. ASSUME NEW x \in Kinds(j)
      PROVE  /\ Copies(snap2, x) \in Nat /\ Copies(snap, x) \in Nat
             /\ Copies(list2, x) \in Nat /\ Copies(list, x) \in Nat
             /\ Copies(snap2, x) <= Copies(snap, x) /\ Copies(list2, x) <= Copies(list, x)
             /\ h = x => Copies(snap, x) = Copies(snap2, x) + 1
             /\ h = x => Copies(list, x) = 0 \/ Copies(list, x) = Copies(list2, x) + 1
  BY CopiesTail, CopiesLRem
<1>. HIDE DEF h, snap2, list2
<1>3. ASSUME NEW x \in Kinds(j)
      PROVE  /\ f[x] \in Nat /\ g[x] \in Nat /\ Unit(j)[x] \in Nat /\ g[x] <= f[x]
             /\ h = x => g[x] + Unit(j)[x] <= f[x]
  <2>. DEFINE m == Larger(Copies(snap, x), Copies(list, x))
              n == Larger(Copies(snap2, x), Copies(list2, x))
  <2>1. /\ f[x] = Unit(j)[x] * m /\ g[x] = Unit(j)[x] * n
        /\ m \in Nat /\ n \in Nat /\ Unit(j)[x] \in Nat
        /\ f[x] \in Nat /\ g[x] \in Nat
    BY <1>1, ReapableType
  <2>2. n <= m /\ (h = x => n + 1 <= m)
    BY <1>2 DEF Larger
  <2>. HIDE DEF m, n, f, g
  <2>3. \A u, a, b \in Nat : (b <= a => u * b <= u * a)
                            /\ (b + 1 <= a => u * b + u <= u * a)
    BY TimesLess
  <2>. QED BY <2>1, <2>2, <2>3
<1>. HIDE DEF f, g
<1>4. SumFunctionOnSet(g, Kinds(j)) + Unit(j)[h] <= SumFunctionOnSet(f, Kinds(j))
  <2>0. /\ SumFunctionOnSet(g, Kinds(j)) \in Nat /\ SumFunctionOnSet(f, Kinds(j)) \in Nat
        /\ Unit(j)[h] \in Nat
    BY <1>1, <1>3, SumTake, KindsFinite, WeightType
  <2>1. CASE h \in Kinds(j)
    <3>1. \A x \in Kinds(j) : f[x] \in Nat /\ g[x] \in Nat
      BY <1>3
    <3>2. \A x \in Kinds(j) \ {h} : g[x] <= f[x]
      BY <1>3
    <3>3. g[h] + Unit(j)[h] <= f[h] /\ Unit(j)[h] \in Nat
      BY <1>3, <2>1
    <3>4. IsFiniteSet(Kinds(j))
      BY KindsFinite
    <3>. QED BY <2>1, <3>1, <3>2, <3>3, <3>4, SumDropOnePoint
  <2>2. CASE h \notin Kinds(j)
    <3>1. Unit(j)[h] = 0
      BY <1>1, <2>2, KindsFinite DEF Unit
    <3>2. SumFunctionOnSet(g, Kinds(j)) <= SumFunctionOnSet(f, Kinds(j))
      BY <1>3, SumLess, KindsFinite
    <3>. QED BY <2>0, <3>1, <3>2
  <2>. QED BY <2>1, <2>2
<1>. QED BY <1>4 DEF Debt, f, g, h, snap2, list2

\* Whatever a reaper has seen, it may requeue all that is on the list now.
LEMMA DebtCovers ==
  ASSUME NEW j \in Jobs, NEW snap \in Seq(Entry), NEW list \in Seq(Entry)
  PROVE  /\ Total(Unit(j), list)
              = SumFunctionOnSet([x \in Kinds(j) |-> Unit(j)[x] * Copies(list, x)], Kinds(j))
         /\ Total(Unit(j), list) <= Debt(j, snap, list)
<1>. DEFINE I == DOMAIN list
            X == Kinds(j)
            u == Unit(j)
            f == Along(u, list)
<1>1. /\ IsFiniteSet(I) /\ I = 1 .. Len(list)
      /\ \A i \in I : list[i] \in Entry /\ f[i] = u[list[i]]
  <2>1. \A i \in 1 .. Len(list) : list[i] \in Entry
    OBVIOUS
  <2>2. u \in [Entry -> Nat]
    BY WeightType
  <2>. HIDE DEF u
  <2>3. /\ IsFiniteSet(DOMAIN list) /\ DOMAIN list = 1 .. Len(list)
        /\ \A i \in DOMAIN list : Along(u, list)[i] = u[list[i]]
    BY <2>2, AlongLemma
  <2>. QED BY <2>1, <2>3
<1>2. IsFiniteSet(X) /\ \A x \in X : u[x] \in Nat
  BY KindsFinite, WeightType
<1>3. \A i \in I : f[i] = IF list[i] \in X THEN u[list[i]] ELSE 0
  <2>1. \A y \in Entry : y \notin X => u[y] = 0
    BY KindsFinite DEF Unit
  <2>. HIDE DEF u, X, f, I
  <2>. QED BY <1>1, <2>1
<1>. DEFINE g == [x \in X |-> u[x] * Copies(list, x)]
<1>4. \A x \in X : g[x] = u[x] * Counted(list, x, I)
  <2>. SUFFICES ASSUME NEW x \in X PROVE Counted(list, x, I) = Copies(list, x)
    OBVIOUS
  <2>1. Along(One(x), list) = [i \in I |-> IF list[i] = x THEN 1 ELSE 0]
    BY <1>1 DEF Along, One
  <2>. QED BY <2>1 DEF Copies, Total, Counted
<1>5. SumFunctionOnSet(f, I) = SumFunctionOnSet(g, X)
  <2>1. IsFiniteSet(I) /\ Keyed(f, I, list, u, X)
    BY <1>1, <1>3 DEF Keyed
  <2>. HIDE DEF u, X, f, I, g
  <2>. QED BY <2>1, <1>2, <1>4, SumByKey
<1>6. Total(u, list) = SumFunctionOnSet(g, X)
  BY <1>5 DEF Total
<1>7. ASSUME NEW x \in X
      PROVE  /\ g[x] \in Nat /\ Reapable(j, snap, list)[x] \in Nat
             /\ g[x] <= Reapable(j, snap, list)[x]
  <2>. DEFINE m == Larger(Copies(snap, x), Copies(list, x))
              n == Copies(list, x)
  <2>1. /\ Reapable(j, snap, list)[x] = u[x] * m /\ g[x] = u[x] * n
        /\ m \in Nat /\ n \in Nat /\ u[x] \in Nat
        /\ Reapable(j, snap, list)[x] \in Nat
    BY ReapableType
  <2>2. n <= m
    BY CopiesType DEF Larger
  <2>. HIDE DEF m, n, g, u
  <2>3. \A c, a, b \in Nat : c * b \in Nat /\ (b <= a => c * b <= c * a)
    BY TimesLess
  <2>. QED BY <2>1, <2>2, <2>3
<1>8. SumFunctionOnSet(g, X) <= Debt(j, snap, list)
  <2>. HIDE DEF g, u
  <2>. QED BY <1>2, <1>7, SumLess DEF Debt
<1>. QED BY <1>6, <1>8

-----------------------------------------------------------------------------
(* What workers and reapers hold.                                          *)

SumOver(f) == SumFunctionOnSet(f, Procs)

LEMMA SumOverType ==
  ASSUME NEW f, \A p \in Procs : f[p] \in Nat
  PROVE  SumOver(f) \in Nat
BY ProcsAssumption, SumTake DEF SumOver

\* What a worker at l with the job x holds: while the copy is in its hands the
\* reapers may still requeue it, once each.
Hold(j, l, x) ==
  CASE l \in {"leased", "restamping"} -> (Cardinality(Procs) + 1) * Unit(j)[x]
    [] l \in {"running", "acking"}    -> Unit(j)[x]
    [] l = "requeuing"                -> Wait(j)[x]
    [] OTHER                          -> 0
Held(j, l, x) == [p \in Procs |-> Hold(j, l[p], x[p])]

LEMMA HoldType ==
  ASSUME NEW j, NEW l, NEW x, l # "idle" => x \in Entry, l \in PC
  PROVE  Hold(j, l, x) \in Nat
<1>1. CASE l = "idle"
  BY <1>1 DEF Hold
<1>2. CASE l # "idle"
  <2>1. Unit(j)[x] \in Nat /\ Wait(j)[x] \in Nat
    BY <1>2, WeightType
  <2>2. (Cardinality(Procs) + 1) * Unit(j)[x] \in Nat
    <3>1. Cardinality(Procs) + 1 \in Nat
      BY ProcsAssumption, FS_CardinalityType
    <3>. QED BY <2>1, <3>1
  <2>. QED BY <2>1, <2>2 DEF Hold, PC
<1>. QED BY <1>1, <1>2

\* All of the workers: a worker that is not idle has a job.
Handling(l, x) ==
  \A p \in Procs : l[p] \in PC /\ (l[p] # "idle" => x[p] \in Entry)

LEMMA HeldType ==
  ASSUME NEW j, NEW l, NEW x, Handling(l, x)
  PROVE  SumOver(Held(j, l, x)) \in Nat
<1>1. \A p \in Procs : Held(j, l, x)[p] \in Nat
  BY HoldType DEF Held, Handling
<1>. QED BY <1>1, SumOverType

\* A step of one worker.
Others(p, f, g) == \A q \in Procs \ {p} : g[q] = f[q]

LEMMA HeldStep ==
  ASSUME NEW j, NEW p \in Procs, NEW l, NEW x, Handling(l, x),
         NEW m, NEW y, Handling(m, y), Others(p, l, m), Others(p, x, y)
  PROVE  /\ SumOver(Held(j, m, y)) + Hold(j, l[p], x[p])
              = SumOver(Held(j, l, x)) + Hold(j, m[p], y[p])
         /\ Hold(j, l[p], x[p]) \in Nat /\ Hold(j, m[p], y[p]) \in Nat
<1>. DEFINE f == Held(j, l, x)
            g == Held(j, m, y)
<1>1. \A q \in Procs : f[q] = Hold(j, l[q], x[q]) /\ g[q] = Hold(j, m[q], y[q])
  BY DEF Held
<1>2. \A q \in Procs : Hold(j, l[q], x[q]) \in Nat /\ Hold(j, m[q], y[q]) \in Nat
  BY HoldType DEF Handling
<1>3. \A q \in Procs : f[q] \in Nat /\ g[q] \in Nat
  BY <1>1, <1>2
<1>4. \A q \in Procs \ {p} : g[q] = f[q]
  BY <1>1 DEF Others
<1>. HIDE DEF f, g
<1>5. SumFunctionOnSet(g, Procs) + f[p] = SumFunctionOnSet(f, Procs) + g[p]
  BY <1>3, <1>4, ProcsAssumption, SumOnePoint
<1>. QED BY <1>1, <1>2, <1>5 DEF SumOver, f, g

\* What the reapers hold.
NackWeight(j, n) == IF n = None THEN 0 ELSE Wait(j)[n]
Nacks(j, n) == [p \in Procs |-> NackWeight(j, n[p])]

LEMMA NacksStep ==
  ASSUME NEW j, NEW p \in Procs,
         NEW n \in [Procs -> Entry \cup {None}], NEW m \in [Procs -> Entry \cup {None}],
         Others(p, n, m)
  PROVE  /\ SumOver(Nacks(j, m)) + NackWeight(j, n[p])
              = SumOver(Nacks(j, n)) + NackWeight(j, m[p])
         /\ NackWeight(j, n[p]) \in Nat /\ NackWeight(j, m[p]) \in Nat
<1>. DEFINE f == Nacks(j, n)
            g == Nacks(j, m)
<1>1. \A q \in Procs : f[q] = NackWeight(j, n[q]) /\ g[q] = NackWeight(j, m[q])
  BY DEF Nacks
<1>2. \A q \in Procs : NackWeight(j, n[q]) \in Nat /\ NackWeight(j, m[q]) \in Nat
  BY WeightType DEF NackWeight
<1>3. \A q \in Procs : f[q] \in Nat /\ g[q] \in Nat
  BY <1>1, <1>2
<1>4. \A q \in Procs \ {p} : g[q] = f[q]
  BY <1>1 DEF Others
<1>. HIDE DEF f, g
<1>5. SumFunctionOnSet(g, Procs) + f[p] = SumFunctionOnSet(f, Procs) + g[p]
  BY <1>3, <1>4, ProcsAssumption, SumOnePoint
<1>. QED BY <1>1, <1>2, <1>5 DEF SumOver, f, g

LEMMA NacksType ==
  ASSUME NEW j, NEW n \in [Procs -> Entry \cup {None}]
  PROVE  SumOver(Nacks(j, n)) \in Nat
<1>1. \A p \in Procs : Nacks(j, n)[p] \in Nat
  BY WeightType DEF Nacks, NackWeight
<1>. QED BY <1>1, SumOverType

\* What the reapers may still requeue.
Debts(j, snaps, list) == [p \in Procs |-> Debt(j, snaps[p], list)]

LEMMA DebtsType ==
  ASSUME NEW j \in Jobs, NEW snaps \in [Procs -> Seq(Entry)], NEW list \in Seq(Entry)
  PROVE  /\ \A p \in Procs : /\ Debts(j, snaps, list)[p] = Debt(j, snaps[p], list)
                             /\ Debts(j, snaps, list)[p] \in Nat
         /\ SumOver(Debts(j, snaps, list)) \in Nat
<1>1. \A p \in Procs : /\ Debts(j, snaps, list)[p] = Debt(j, snaps[p], list)
                       /\ Debts(j, snaps, list)[p] \in Nat
  BY DebtType DEF Debts
<1>. QED BY <1>1, SumOverType

LEMMA DebtsLess ==
  ASSUME NEW j \in Jobs, NEW snaps \in [Procs -> Seq(Entry)], NEW list \in Seq(Entry),
         NEW snaps2 \in [Procs -> Seq(Entry)], NEW list2 \in Seq(Entry),
         \A p \in Procs : Debt(j, snaps2[p], list2) <= Debt(j, snaps[p], list)
  PROVE  SumOver(Debts(j, snaps2, list2)) <= SumOver(Debts(j, snaps, list))
<1>. DEFINE f == Debts(j, snaps, list)
            g == Debts(j, snaps2, list2)
<1>1. \A p \in Procs : f[p] \in Nat /\ g[p] \in Nat /\ g[p] <= f[p]
  BY DebtsType
<1>. HIDE DEF f, g
<1>2. SumFunctionOnSet(g, Procs) <= SumFunctionOnSet(f, Procs)
  BY <1>1, ProcsAssumption, SumLess
<1>. QED BY <1>2 DEF SumOver, f, g

\* Every reaper may come to see a copy that is put on the list.
LEMMA DebtsPush ==
  ASSUME NEW j \in Jobs, NEW snaps \in [Procs -> Seq(Entry)], NEW list \in Seq(Entry),
         NEW h \in Entry
  PROVE  SumOver(Debts(j, snaps, LPush(list, h)))
           <= SumOver(Debts(j, snaps, list)) + Cardinality(Procs) * Unit(j)[h]
<1>. DEFINE u == Unit(j)[h]
            f == Debts(j, snaps, list)
            g == Debts(j, snaps, LPush(list, h))
            c == [p \in Procs |-> u]
            s == [p \in Procs |-> f[p] + u]
<1>1. LPush(list, h) \in Seq(Entry) /\ u \in Nat
  BY LPushLemma, WeightType
<1>2. \A p \in Procs : f[p] \in Nat /\ g[p] \in Nat /\ g[p] <= f[p] + u
  BY <1>1, DebtsType, DebtPush
<1>3. \A p \in Procs : c[p] = u /\ s[p] = f[p] + c[p]
  OBVIOUS
<1>. HIDE DEF f, g, c, s, u
<1>4. \A p \in Procs : g[p] \in Nat /\ s[p] \in Nat /\ g[p] <= s[p]
  BY <1>1, <1>2, <1>3
<1>5. SumFunctionOnSet(g, Procs) <= SumFunctionOnSet(s, Procs)
  BY <1>4, ProcsAssumption, SumLess
<1>6. SumFunctionOnSet(s, Procs) = SumFunctionOnSet(f, Procs) + SumFunctionOnSet(c, Procs)
  <2>1. \A p \in Procs : f[p] \in Nat /\ c[p] \in Nat /\ s[p] = f[p] + c[p]
    BY <1>1, <1>2, <1>3
  <2>. QED BY <2>1, ProcsAssumption, SumPlus
<1>7. SumFunctionOnSet(c, Procs) = Cardinality(Procs) * u
  BY <1>1, <1>3, ProcsAssumption, SumConst
<1>. QED BY <1>5, <1>6, <1>7 DEF SumOver, f, g, u

LEMMA DebtsReap ==
  ASSUME NEW j \in Jobs, NEW snaps \in [Procs -> Seq(Entry)], NEW list \in Seq(Entry),
         NEW p \in Procs, snaps[p] # <<>>,
         NEW snaps2 \in [Procs -> Seq(Entry)], Others(p, snaps, snaps2),
         snaps2[p] = Tail(snaps[p])
  PROVE  SumOver(Debts(j, snaps2, LRem(list, Head(snaps[p])))) + Unit(j)[Head(snaps[p])]
           <= SumOver(Debts(j, snaps, list))
<1>. DEFINE h == Head(snaps[p])
            list2 == LRem(list, h)
            f == Debts(j, snaps, list)
            g == Debts(j, snaps2, list2)
<1>1. list2 \in Seq(Entry) /\ h \in Entry /\ Unit(j)[h] \in Nat
  BY LRemLemma, HeadTailLemma, WeightType
<1>2. \A q \in Procs : /\ f[q] = Debt(j, snaps[q], list) /\ f[q] \in Nat
                       /\ g[q] = Debt(j, snaps2[q], list2) /\ g[q] \in Nat
  <2>. HIDE DEF list2
  <2>. QED BY <1>1, DebtsType
<1>3. ASSUME NEW q \in Procs \ {p} PROVE g[q] <= f[q]
  <2>1. snaps2[q] = snaps[q] /\ snaps[q] \in Seq(Entry) /\ q \in Procs
    BY DEF Others
  <2>2. Debt(j, snaps[q], list2) <= Debt(j, snaps[q], list)
    BY <2>1, DebtShrinks
  <2>. QED BY <1>2, <2>1, <2>2
<1>4. g[p] + Unit(j)[h] <= f[p]
  <2>1. snaps[p] \in Seq(Entry)
    OBVIOUS
  <2>2. Debt(j, Tail(snaps[p]), list2) + Unit(j)[h] <= Debt(j, snaps[p], list)
    BY <2>1, DebtReap
  <2>. HIDE DEF list2, h
  <2>. QED BY <1>2, <2>2
<1>. HIDE DEF f, g, h, list2
<1>5. \A q \in Procs : f[q] \in Nat /\ g[q] \in Nat
  BY <1>2
<1>6. SumFunctionOnSet(g, Procs) + Unit(j)[h] <= SumFunctionOnSet(f, Procs)
  BY <1>1, <1>3, <1>4, <1>5, ProcsAssumption, SumDropOnePoint
<1>. QED BY <1>6 DEF SumOver, f, g, h, list2

-----------------------------------------------------------------------------
(* The duplicates of a job are bounded.                                    *)

Debited(j)   == SumOver(Debts(j, todo, processing))
Nacking(j)   == SumOver(Nacks(j, nacking))
Handled(j)   == SumOver(Held(j, pc, job))
Potential(j) == Total(Wait(j), pending) + Total(Wait(j), dlq)
                + Handled(j) + Nacking(j) + Debited(j)

\* Without faults a copy on the processing list has a worker of its own.
Leasing == {"leased", "running", "acking"}
Receipts(l, r, x) == [p \in Procs |-> IF l[p] \in Leasing /\ r[p] = x THEN 1 ELSE 0]

ReceiptsCover ==
  \A x \in Entry : Copies(processing, x) <= SumOver(Receipts(pc, raw, x))

\* A receipt and its job have the same retries until the job is nacked.
SameRetries == \A p \in Procs : pc[p] \in Leasing => job[p].retries = raw[p].retries

\* What all the copies of a job can grow into never grows: a step trades what
\* it takes for what it leaves.
Spent == \A j \in Jobs : Potential(j) <= IF j \in pushed THEN Power[MaxRetries] ELSE 0

Covered == faults = 0 => ReceiptsCover /\ SameRetries /\ Spent

LEMMA ReceiptsType ==
  ASSUME NEW l, NEW r, NEW x
  PROVE  /\ SumOver(Receipts(l, r, x)) \in Nat
         /\ \A p \in Procs : Receipts(l, r, x)[p] \in Nat
<1>1. \A p \in Procs : Receipts(l, r, x)[p] \in Nat
  BY DEF Receipts
<1>. QED BY <1>1, SumOverType

LEMMA ReceiptsStep ==
  ASSUME NEW x, NEW p \in Procs, NEW l, NEW r, NEW m, NEW s, Others(p, l, m), Others(p, r, s)
  PROVE  SumOver(Receipts(m, s, x)) + (IF l[p] \in Leasing /\ r[p] = x THEN 1 ELSE 0)
           = SumOver(Receipts(l, r, x)) + (IF m[p] \in Leasing /\ s[p] = x THEN 1 ELSE 0)
<1>. DEFINE f == Receipts(l, r, x)
            g == Receipts(m, s, x)
<1>1. \A q \in Procs : /\ f[q] = IF l[q] \in Leasing /\ r[q] = x THEN 1 ELSE 0
                       /\ g[q] = IF m[q] \in Leasing /\ s[q] = x THEN 1 ELSE 0
  BY DEF Receipts
<1>2. \A q \in Procs : f[q] \in Nat /\ g[q] \in Nat
  BY ReceiptsType
<1>3. \A q \in Procs \ {p} : g[q] = f[q]
  BY <1>1 DEF Others
<1>. HIDE DEF f, g
<1>4. SumFunctionOnSet(g, Procs) + f[p] = SumFunctionOnSet(f, Procs) + g[p]
  BY <1>2, <1>3, ProcsAssumption, SumOnePoint
<1>. QED BY <1>1, <1>4 DEF SumOver, f, g

\* In a consistent state.
LEMMA ConsistentParts ==
  ASSUME Consistent
  PROVE  /\ pending \in Seq(Entry) /\ processing \in Seq(Entry) /\ dlq \in Seq(Entry)
         /\ todo \in [Procs -> Seq(Entry)]
         /\ nacking \in [Procs -> Entry \cup {None}]
         /\ Handling(pc, job)
<1>1. Handling(pc, job)
  BY NotNone DEF Consistent, TypeOK, WorkerConsistent, Handling, PC
<1>. QED BY <1>1 DEF Consistent, TypeOK

LEMMA PotentialType ==
  ASSUME Consistent, NEW j \in Jobs
  PROVE  /\ Total(Wait(j), pending) \in Nat /\ Total(Wait(j), dlq) \in Nat
         /\ Handled(j) \in Nat /\ Nacking(j) \in Nat /\ Debited(j) \in Nat
         /\ Potential(j) \in Nat
<1>1. /\ Total(Wait(j), pending) \in Nat /\ Total(Wait(j), dlq) \in Nat
      /\ Handled(j) \in Nat /\ Nacking(j) \in Nat /\ Debited(j) \in Nat
  BY ConsistentParts, WeightType, TotalType, HeldType, NacksType, DebtsType
     DEF Handled, Nacking, Debited
<1>. QED BY <1>1 DEF Potential

-----------------------------------------------------------------------------
(* The receipts cover the list.                                            *)

LEMMA InitCovered == Init => Covered
<1>. SUFFICES ASSUME Init PROVE ReceiptsCover /\ SameRetries /\ Spent
  BY DEF Covered
<1>1. ReceiptsCover
  <2>1. ASSUME NEW x \in Entry PROVE Copies(processing, x) <= SumOver(Receipts(pc, raw, x))
    <3>1. Copies(processing, x) = 0
      BY CopiesEmpty DEF Init
    <3>. QED BY <3>1, ReceiptsType
  <2>. QED BY <2>1 DEF ReceiptsCover
<1>2. SameRetries
  BY DEF Init, SameRetries, Leasing
<1>3. ASSUME NEW j \in Jobs PROVE Potential(j) = 0
  <2>1. Total(Wait(j), pending) = 0 /\ Total(Wait(j), dlq) = 0
    BY TotalEmpty DEF Init
  <2>2. \A p \in Procs : Hold(j, pc[p], job[p]) = 0 /\ NackWeight(j, nacking[p]) = 0
    BY DEF Init, Hold, NackWeight
  <2>3. ASSUME NEW p \in Procs PROVE Debt(j, todo[p], processing) = 0
    <3>. DEFINE f == Reapable(j, <<>>, <<>>)
    <3>1. \A x \in Kinds(j) : f[x] = 0
      <4>1. \A x \in Kinds(j) : Unit(j)[x] \in Nat /\ Unit(j)[x] * 0 = 0
        BY WeightType, KindsFinite
      <4>2. \A x : Larger(Copies(<<>>, x), Copies(<<>>, x)) = 0
        BY CopiesEmpty DEF Larger
      <4>. QED BY <4>1, <4>2 DEF Reapable
    <3>. HIDE DEF f
    <3>2. SumFunctionOnSet(f, Kinds(j)) = Cardinality(Kinds(j)) * 0
      BY <3>1, KindsFinite, SumConst
    <3>3. Cardinality(Kinds(j)) * 0 = 0
      BY KindsFinite, FS_CardinalityType
    <3>4. todo[p] = <<>> /\ processing = <<>>
      BY DEF Init
    <3>. QED BY <3>2, <3>3, <3>4 DEF Debt, f
  <2>4. ASSUME NEW f, \A p \in Procs : f[p] = 0 PROVE SumOver(f) = 0
    <3>1. SumFunctionOnSet(f, Procs) = Cardinality(Procs) * 0
      BY <2>4, ProcsAssumption, SumConst
    <3>2. Cardinality(Procs) * 0 = 0
      BY ProcsAssumption, FS_CardinalityType
    <3>. QED BY <3>1, <3>2 DEF SumOver
  <2>5. \A p \in Procs : Held(j, pc, job)[p] = 0 /\ Nacks(j, nacking)[p] = 0
    BY <2>2 DEF Held, Nacks
  <2>6. \A p \in Procs : Debts(j, todo, processing)[p] = 0
    BY <2>3 DEF Debts
  <2>7. Handled(j) = 0 /\ Nacking(j) = 0 /\ Debited(j) = 0
    BY <2>4, <2>5, <2>6 DEF Handled, Nacking, Debited
  <2>. QED BY <2>1, <2>7 DEF Potential
<1>4. Spent
  <2>1. Power[MaxRetries] \in Nat
    BY PowerLemma, BoundsAssumption
  <2>. QED BY <1>3, <2>1 DEF Spent
<1>. QED BY <1>1, <1>2, <1>4

\* A worker's step, when its receipt comes and goes with the copy it is for.
Receipt(l, r, x) == IF l \in Leasing /\ r = x THEN 1 ELSE 0

LEMMA CoverStep ==
  ASSUME Consistent, Consistent', ReceiptsCover, NEW p \in Procs,
         Others(p, pc, pc'), Others(p, raw, raw'),
         \A x \in Entry : \/ Copies(processing', x) = 0
                          \/ Copies(processing', x) + Receipt(pc[p], raw[p], x)
                               <= Copies(processing, x) + Receipt(pc'[p], raw'[p], x)
  PROVE  ReceiptsCover'
<1>. SUFFICES ASSUME NEW x \in Entry
              PROVE  Copies(processing', x) <= SumOver(Receipts(pc', raw', x))
  BY DEF ReceiptsCover
<1>1. /\ Copies(processing, x) \in Nat
      /\ Copies(processing, x) <= SumOver(Receipts(pc, raw, x))
  BY ConsistentParts, CopiesType DEF ReceiptsCover
<1>2. Copies(processing', x) \in Nat
  BY CopiesType DEF Consistent, TypeOK
<1>3. SumOver(Receipts(pc', raw', x)) + Receipt(pc[p], raw[p], x)
        = SumOver(Receipts(pc, raw, x)) + Receipt(pc'[p], raw'[p], x)
  BY ReceiptsStep DEF Receipt
<1>4. /\ SumOver(Receipts(pc, raw, x)) \in Nat /\ SumOver(Receipts(pc', raw', x)) \in Nat
      /\ Receipt(pc[p], raw[p], x) \in Nat /\ Receipt(pc'[p], raw'[p], x) \in Nat
  BY ReceiptsType DEF Receipt
<1>5. \/ Copies(processing', x) = 0
      \/ Copies(processing', x) + Receipt(pc[p], raw[p], x)
           <= Copies(processing, x) + Receipt(pc'[p], raw'[p], x)
  OBVIOUS
<1>. QED BY <1>1, <1>2, <1>3, <1>4, <1>5

\* A step of somebody else, who may only take copies away.
LEMMA CoverKept ==
  ASSUME Consistent, ReceiptsCover, pc' = pc, raw' = raw,
         NEW h, processing' \in {processing, LRem(processing, h)}
  PROVE  ReceiptsCover'
<1>. SUFFICES ASSUME NEW x \in Entry
              PROVE  Copies(processing', x) <= SumOver(Receipts(pc, raw, x))
  BY DEF ReceiptsCover
<1>1. /\ Copies(processing, x) \in Nat /\ Copies(LRem(processing, h), x) \in Nat
      /\ Copies(LRem(processing, h), x) <= Copies(processing, x)
      /\ Copies(processing, x) <= SumOver(Receipts(pc, raw, x))
  BY ConsistentParts, CopiesLRem DEF ReceiptsCover
<1>. QED BY <1>1, ReceiptsType

LEMMA WorkerCover ==
  ASSUME Consistent, Consistent', ReceiptsCover, NEW p \in Procs, WorkerStep(p)
  PROVE  ReceiptsCover'
<1>0. /\ pc \in [Procs -> PC] /\ processing \in Seq(Entry)
      /\ pc[p] # "idle" => raw[p] \in Entry
  BY NotNone DEF Consistent, TypeOK, WorkerConsistent
<1>1. Others(p, pc, pc') /\ Others(p, raw, raw')
  BY DEF Consistent, TypeOK, WorkerStep, Lease, StampRemove, StampPut, Succeed, Ack,
         NackRemove, Requeue, GoIdle, Others
<1>. DEFINE Kept(x) ==
              \/ Copies(processing', x) = 0
              \/ Copies(processing', x) + Receipt(pc[p], raw[p], x)
                   <= Copies(processing, x) + Receipt(pc'[p], raw'[p], x)
<1>. SUFFICES ASSUME NEW x \in Entry PROVE Kept(x)
  BY <1>1, CoverStep
<1>2. Copies(processing, x) \in Nat
  BY <1>0, CopiesType
<1>3. CASE Lease(p)
  <2>. DEFINE h == Head(pending)
  <2>1. h \in Entry /\ processing' = LPush(processing, h)
    BY <1>3, HeadTailLemma, ConsistentParts DEF Lease
  <2>2. pc[p] = "idle" /\ pc'[p] = "leased" /\ raw'[p] = h
    BY <1>0, <1>3 DEF Consistent, TypeOK, Lease
  <2>. HIDE DEF h
  <2>3. Copies(processing', x) = Copies(processing, x) + (IF h = x THEN 1 ELSE 0)
    BY <1>0, <2>1, CopiesPush
  <2>. QED BY <1>2, <2>2, <2>3 DEF Receipt, Leasing
<1>4. CASE StampPut(p)
  <2>1. job[p] \in Entry /\ processing' = LPush(processing, job[p])
    BY <1>4, NotNone DEF Consistent, WorkerConsistent, StampPut
  <2>2. pc[p] = "restamping" /\ pc'[p] = "running" /\ raw'[p] = job[p]
    BY <1>0, <1>4 DEF Consistent, TypeOK, StampPut
  <2>3. Copies(processing', x) = Copies(processing, x) + (IF job[p] = x THEN 1 ELSE 0)
    BY <1>0, <2>1, CopiesPush
  <2>. QED BY <1>2, <2>2, <2>3 DEF Receipt, Leasing
<1>5. CASE StampRemove(p) /\ raw[p] \notin ToSet(processing)
  <2>1. processing' = processing
    BY <1>5 DEF StampRemove, LRem
  <2>2. pc[p] = "leased" /\ pc'[p] = "running" /\ raw'[p] = raw[p]
    BY <1>0, <1>5 DEF StampRemove
  <2>. QED BY <1>2, <2>1, <2>2 DEF Receipt, Leasing
<1>6. CASE StampRemove(p) /\ raw[p] \in ToSet(processing)
  <2>1. processing' = LRem(processing, raw[p])
    BY <1>6 DEF StampRemove
  <2>2. pc[p] = "leased" /\ pc'[p] = "restamping" /\ raw'[p] = raw[p]
    BY <1>0, <1>6 DEF StampRemove
  <2>3. /\ Copies(processing', x) \in Nat /\ Copies(processing', x) <= Copies(processing, x)
        /\ raw[p] = x => Copies(processing, x) = Copies(processing', x) + 1
    BY <1>0, <1>6, <2>1, CopiesLRem
  <2>. QED BY <1>2, <2>2, <2>3 DEF Receipt, Leasing
<1>7. CASE Ack(p) \/ NackRemove(p)
  <2>1. processing' = LRem(processing, raw[p])
    BY <1>7 DEF Ack, NackRemove
  <2>2. pc[p] \in {"running", "acking"} /\ pc'[p] \in {"idle", "requeuing"}
    BY <1>0, <1>7 DEF Ack, NackRemove, GoIdle
  <2>3. /\ Copies(processing', x) \in Nat /\ Copies(processing', x) <= Copies(processing, x)
        /\ raw[p] = x => \/ Copies(processing, x) = Copies(processing', x) + 1
                         \/ Copies(processing, x) = 0
    BY <1>0, <2>1, CopiesLRem
  <2>. QED BY <1>2, <2>2, <2>3 DEF Receipt, Leasing
<1>8. CASE Succeed(p) \/ Requeue(p)
  <2>1. processing' = processing
    BY <1>8 DEF Succeed, Requeue, lists
  <2>2. \/ pc[p] = "running" /\ pc'[p] = "acking" /\ raw'[p] = raw[p]
        \/ pc[p] = "requeuing" /\ pc'[p] = "idle"
    BY <1>0, <1>8 DEF Succeed, Requeue, GoIdle
  <2>. QED BY <1>2, <2>1, <2>2 DEF Receipt, Leasing
<1>. QED BY <1>3, <1>4, <1>5, <1>6, <1>7, <1>8 DEF WorkerStep

LEMMA ReaperCover ==
  ASSUME Consistent, ReceiptsCover, NEW p \in Procs, ReaperStep(p)
  PROVE  ReceiptsCover'
<1>1. pc' = pc /\ raw' = raw
  BY DEF ReaperStep, Snapshot, Skip, ReapRemove, ReapPut, worker
<1>2. processing' \in {processing, LRem(processing, Head(todo[p]))}
  BY DEF ReaperStep, Snapshot, Skip, ReapRemove, ReapPut, lists
<1>. QED BY <1>1, <1>2, CoverKept

LEMMA WorkerRetries ==
  ASSUME Consistent, SameRetries, NEW p \in Procs, WorkerStep(p)
  PROVE  SameRetries'
<1>0. /\ pc \in [Procs -> PC] /\ raw \in [Procs -> Entry \cup {None}]
      /\ job \in [Procs -> Entry \cup {None}]
      /\ pc[p] \notin {"idle", "requeuing"} => job[p] \in Entry
  BY NotNone DEF Consistent, TypeOK, WorkerConsistent
<1>. SUFFICES ASSUME NEW q \in Procs, pc'[q] \in Leasing
              PROVE  job'[q].retries = raw'[q].retries
  BY DEF SameRetries
<1>1. CASE Lease(p)
  BY <1>0, <1>1 DEF Lease, SameRetries
<1>2. CASE StampRemove(p)
  <2>1. job[p] \in Entry
    BY <1>0, <1>2 DEF StampRemove
  <2>2. /\ pc[p] = "leased" /\ raw' = raw
        /\ job' = [job EXCEPT ![p] = [job[p] EXCEPT !.stamp = clock']]
        /\ \A r \in Procs \ {p} : pc'[r] = pc[r]
    BY <1>0, <1>2 DEF StampRemove
  <2>3. [job[p] EXCEPT !.stamp = clock'].retries = job[p].retries
    BY <2>1 DEF Entry
  <2>4. \A r \in Procs : job'[r].retries = job[r].retries
    BY <1>0, <2>2, <2>3
  <2>. QED BY <2>2, <2>4 DEF SameRetries, Leasing
<1>3. CASE StampPut(p)
  BY <1>0, <1>3 DEF StampPut, SameRetries
<1>4. CASE Succeed(p)
  BY <1>0, <1>4 DEF Succeed, SameRetries, Leasing
<1>5. CASE NackRemove(p)
  <2>1. \A r \in Procs : r # p => job'[r] = job[r] /\ pc'[r] = pc[r]
    BY <1>0, <1>5 DEF NackRemove
  <2>2. pc'[p] = "requeuing" /\ raw' = raw
    BY <1>0, <1>5 DEF NackRemove
  <2>. QED BY <2>1, <2>2 DEF SameRetries, Leasing
<1>6. CASE Ack(p) \/ Requeue(p)
  <2>1. GoIdle(p)
    BY <1>6 DEF Ack, Requeue
  <2>. QED BY <1>0, <2>1 DEF GoIdle, SameRetries, Leasing
<1>. QED BY <1>1, <1>2, <1>3, <1>4, <1>5, <1>6 DEF WorkerStep

-----------------------------------------------------------------------------
(* No step lets the potential grow.                                        *)

LEMMA NextParts ==
  ASSUME Consistent'
  PROVE  /\ pending' \in Seq(Entry) /\ processing' \in Seq(Entry) /\ dlq' \in Seq(Entry)
         /\ todo' \in [Procs -> Seq(Entry)]
         /\ nacking' \in [Procs -> Entry \cup {None}]
         /\ Handling(pc', job')
<1>1. Live' \subseteq Entry /\ Nacked' \subseteq Entry
  BY DEF Live, Nacked
<1>2. Handling(pc', job')
  BY <1>1, NoneAssumption DEF Consistent, TypeOK, WorkerConsistent, Handling, PC
<1>. QED BY <1>2 DEF Consistent, TypeOK

LEMMA NextPotentialType ==
  ASSUME Consistent', NEW j \in Jobs
  PROVE  /\ Total(Wait(j), pending') \in Nat /\ Total(Wait(j), dlq') \in Nat
         /\ Handled(j)' \in Nat /\ Nacking(j)' \in Nat /\ Debited(j)' \in Nat
BY NextParts, WeightType, TotalType, HeldType, NacksType, DebtsType
   DEF Handled, Nacking, Debited

\* Parts that stay as they are.
LEMMA SameParts ==
  ASSUME NEW j
  PROVE  /\ pc' = pc /\ job' = job => Handled(j)' = Handled(j)
         /\ nacking' = nacking => Nacking(j)' = Nacking(j)
         /\ todo' = todo /\ processing' = processing => Debited(j)' = Debited(j)
BY DEF Handled, Nacking, Debited

\* One worker's part.
LEMMA HandledStep ==
  ASSUME Consistent, Consistent', NEW j \in Jobs, NEW p \in Procs,
         Others(p, pc, pc'), Others(p, job, job')
  PROVE  /\ Handled(j)' + Hold(j, pc[p], job[p]) = Handled(j) + Hold(j, pc'[p], job'[p])
         /\ Hold(j, pc[p], job[p]) \in Nat /\ Hold(j, pc'[p], job'[p]) \in Nat
<1>1. Handling(pc, job) /\ Handling(pc', job')
  BY ConsistentParts, NextParts
<1>2. /\ SumOver(Held(j, pc', job')) + Hold(j, pc[p], job[p])
           = SumOver(Held(j, pc, job)) + Hold(j, pc'[p], job'[p])
      /\ Hold(j, pc[p], job[p]) \in Nat /\ Hold(j, pc'[p], job'[p]) \in Nat
  BY <1>1, HeldStep
<1>. QED BY <1>2 DEF Handled

\* The list loses a copy: no reaper can requeue more than before.
LEMMA DebitedLRem ==
  ASSUME Consistent, NEW j \in Jobs, NEW h, processing' = LRem(processing, h), todo' = todo
  PROVE  Debited(j)' <= Debited(j)
<1>1. /\ processing \in Seq(Entry) /\ LRem(processing, h) \in Seq(Entry)
      /\ todo \in [Procs -> Seq(Entry)]
  BY ConsistentParts, LRemLemma
<1>2. \A p \in Procs : Debt(j, todo[p], LRem(processing, h)) <= Debt(j, todo[p], processing)
  <2>1. \A p \in Procs : todo[p] \in Seq(Entry)
    BY <1>1
  <2>. QED BY <1>1, <2>1, DebtShrinks
<1>3. SumOver(Debts(j, todo, LRem(processing, h))) <= SumOver(Debts(j, todo, processing))
  BY <1>1, <1>2, DebtsLess
<1>. QED BY <1>3 DEF Debited

LEMMA DebitedPush ==
  ASSUME Consistent, NEW j \in Jobs, NEW h \in Entry, processing' = LPush(processing, h),
         todo' = todo
  PROVE  Debited(j)' <= Debited(j) + Cardinality(Procs) * Unit(j)[h]
BY ConsistentParts, DebtsPush DEF Debited

LEMMA LeaseSpent ==
  ASSUME Consistent, Consistent', NEW p \in Procs, Lease(p), NEW j \in Jobs
  PROVE  Potential(j)' <= Potential(j)
<1>. DEFINE h == Head(pending)
            u == Unit(j)[h]
            n == Cardinality(Procs)
<1>0. pc \in [Procs -> PC] /\ job \in [Procs -> Entry \cup {None}]
  BY DEF Consistent, TypeOK
<1>1. h \in Live
  BY HeadTailLemma DEF Consistent, ListsConsistent, Lease
<1>2. /\ h \in Entry /\ u \in Nat /\ Wait(j)[h] = Fanout * u
      /\ n \in Nat /\ Fanout = 2 * n + 1
  BY <1>1, WeightLemma, ProcsAssumption, FS_CardinalityType DEF Fanout
<1>3. Total(Wait(j), pending) = Total(Wait(j), pending') + Fanout * u
  BY <1>2, ConsistentParts, WeightType, TotalTail DEF Lease
<1>4. Handled(j)' = Handled(j) + (n + 1) * u
  <2>1. Others(p, pc, pc') /\ Others(p, job, job')
    BY <1>0 DEF Lease, Others
  <2>2. pc[p] = "idle" /\ pc'[p] = "leased" /\ job'[p] = h
    BY <1>0 DEF Lease
  <2>3. Hold(j, pc[p], job[p]) = 0 /\ Hold(j, pc'[p], job'[p]) = (n + 1) * u
    BY <2>2 DEF Hold
  <2>. HIDE DEF u, n, h
  <2>4. Handled(j)' + 0 = Handled(j) + (n + 1) * u /\ (n + 1) * u \in Nat
    BY <2>1, <2>3, HandledStep
  <2>. QED BY <2>4, PotentialType, NextPotentialType
<1>5. Debited(j)' <= Debited(j) + n * u
  BY <1>2, DebitedPush DEF Lease, reaper
<1>6. Total(Wait(j), dlq') = Total(Wait(j), dlq) /\ Nacking(j)' = Nacking(j)
  BY SameParts DEF Lease, reaper
<1>. HIDE DEF u, n, h
<1>7. Fanout * u = (n + 1) * u + n * u /\ (n + 1) * u \in Nat /\ n * u \in Nat
  <2>1. \A a, b \in Nat : /\ (2 * a + 1) * b = (a + 1) * b + a * b
                          /\ (a + 1) * b \in Nat /\ a * b \in Nat
    OBVIOUS
  <2>. QED BY <1>2, <2>1
<1>. QED BY <1>3, <1>4, <1>5, <1>6, <1>7, PotentialType, NextPotentialType
         DEF Potential

LEMMA StampRemoveSpent ==
  ASSUME Consistent, Consistent', NEW p \in Procs, StampRemove(p), NEW j \in Jobs
  PROVE  Potential(j)' <= Potential(j)
<1>. DEFINE u == Unit(j)[job[p]]
            n == Cardinality(Procs)
<1>0. pc \in [Procs -> PC] /\ job \in [Procs -> Entry \cup {None}]
  BY DEF Consistent, TypeOK
<1>1. job[p] \in Live /\ job[p] \in Entry
  BY NotNone DEF Consistent, WorkerConsistent, StampRemove
<1>2. /\ job'[p] \in Entry /\ job'[p].job = job[p].job
      /\ job'[p].retries = job[p].retries
  <2>1. job'[p] = [job[p] EXCEPT !.stamp = clock']
    BY <1>0 DEF StampRemove
  <2>2. clock' \in 0 .. MaxClock
    BY DEF Consistent, TypeOK
  <2>. QED BY <1>1, <2>1, <2>2 DEF Entry
<1>3. Unit(j)[job'[p]] = u
  BY <1>1, <1>2, SameWeight
<1>4. u \in Nat /\ n \in Nat
  BY <1>1, WeightType, ProcsAssumption, FS_CardinalityType
<1>5. Handled(j)' <= Handled(j)
  <2>1. Others(p, pc, pc') /\ Others(p, job, job')
    BY <1>0 DEF StampRemove, Others
  <2>2. pc[p] = "leased" /\ pc'[p] \in {"restamping", "running"}
    BY <1>0 DEF StampRemove
  <2>3. /\ Hold(j, pc[p], job[p]) = (n + 1) * u
        /\ Hold(j, pc'[p], job'[p]) \in {u, (n + 1) * u}
    BY <1>3, <2>2 DEF Hold
  <2>. HIDE DEF u, n
  <2>4. u <= (n + 1) * u /\ (n + 1) * u \in Nat
    <3>1. \A a, b \in Nat : (a + 1) * b = a * b + b /\ a * b \in Nat
      OBVIOUS
    <3>. QED BY <1>4, <3>1
  <2>5. /\ Handled(j)' + Hold(j, pc[p], job[p]) = Handled(j) + Hold(j, pc'[p], job'[p])
        /\ Hold(j, pc'[p], job'[p]) \in Nat
    BY <2>1, HandledStep
  <2>. QED BY <1>4, <2>3, <2>4, <2>5, PotentialType, NextPotentialType
<1>6. Debited(j)' <= Debited(j)
  BY DebitedLRem DEF StampRemove, reaper
<1>7. /\ Total(Wait(j), pending') = Total(Wait(j), pending)
      /\ Total(Wait(j), dlq') = Total(Wait(j), dlq) /\ Nacking(j)' = Nacking(j)
  BY SameParts DEF StampRemove, reaper
<1>. QED BY <1>5, <1>6, <1>7, PotentialType, NextPotentialType DEF Potential

LEMMA StampPutSpent ==
  ASSUME Consistent, Consistent', NEW p \in Procs, StampPut(p), NEW j \in Jobs
  PROVE  Potential(j)' <= Potential(j)
<1>. DEFINE u == Unit(j)[job[p]]
            n == Cardinality(Procs)
<1>0. pc \in [Procs -> PC]
  BY DEF Consistent, TypeOK
<1>1. job[p] \in Entry
  BY NotNone DEF Consistent, WorkerConsistent, StampPut
<1>2. u \in Nat /\ n \in Nat
  BY <1>1, WeightType, ProcsAssumption, FS_CardinalityType
<1>3. Handled(j)' + (n + 1) * u = Handled(j) + u
  <2>1. Others(p, pc, pc') /\ Others(p, job, job')
    BY <1>0 DEF StampPut, Others
  <2>2. pc[p] = "restamping" /\ pc'[p] = "running" /\ job' = job
    BY <1>0 DEF StampPut
  <2>3. Hold(j, pc[p], job[p]) = (n + 1) * u /\ Hold(j, pc'[p], job'[p]) = u
    BY <2>2 DEF Hold
  <2>. QED BY <2>1, <2>3, HandledStep
<1>4. Debited(j)' <= Debited(j) + n * u
  BY <1>1, DebitedPush DEF StampPut, reaper
<1>5. /\ Total(Wait(j), pending') = Total(Wait(j), pending)
      /\ Total(Wait(j), dlq') = Total(Wait(j), dlq) /\ Nacking(j)' = Nacking(j)
  BY SameParts DEF StampPut, reaper
<1>. HIDE DEF u, n
<1>6. (n + 1) * u = n * u + u /\ n * u \in Nat /\ (n + 1) * u \in Nat
  <2>1. \A a, b \in Nat : (a + 1) * b = a * b + b /\ a * b \in Nat /\ (a + 1) * b \in Nat
    OBVIOUS
  <2>. QED BY <1>2, <2>1
<1>. QED BY <1>2, <1>3, <1>4, <1>5, <1>6, PotentialType, NextPotentialType
         DEF Potential

LEMMA SucceedSpent ==
  ASSUME Consistent, Consistent', NEW p \in Procs, Succeed(p), NEW j \in Jobs
  PROVE  Potential(j)' <= Potential(j)
<1>0. pc \in [Procs -> PC]
  BY DEF Consistent, TypeOK
<1>1. Handled(j)' = Handled(j)
  <2>1. Others(p, pc, pc') /\ Others(p, job, job')
    BY <1>0 DEF Succeed, Others
  <2>2. pc[p] = "running" /\ pc'[p] = "acking" /\ job' = job
    BY <1>0 DEF Succeed
  <2>3. Hold(j, pc'[p], job'[p]) = Hold(j, pc[p], job[p])
    BY <2>2 DEF Hold
  <2>4. /\ Handled(j)' + Hold(j, pc[p], job[p]) = Handled(j) + Hold(j, pc'[p], job'[p])
        /\ Hold(j, pc'[p], job'[p]) \in Nat
    BY <2>1, HandledStep
  <2>. QED BY <2>3, <2>4, PotentialType, NextPotentialType
<1>2. /\ Total(Wait(j), pending') = Total(Wait(j), pending)
      /\ Total(Wait(j), dlq') = Total(Wait(j), dlq) /\ Nacking(j)' = Nacking(j)
      /\ Debited(j)' = Debited(j)
  BY SameParts DEF Succeed, reaper, lists
<1>. QED BY <1>1, <1>2, PotentialType, NextPotentialType DEF Potential

LEMMA AckSpent ==
  ASSUME Consistent, Consistent', NEW p \in Procs, Ack(p), NEW j \in Jobs
  PROVE  Potential(j)' <= Potential(j)
<1>0. /\ pc \in [Procs -> PC]
      /\ raw \in [Procs -> Entry \cup {None}] /\ job \in [Procs -> Entry \cup {None}]
  BY DEF Consistent, TypeOK
<1>1. Handled(j)' <= Handled(j)
  <2>1. Others(p, pc, pc') /\ Others(p, job, job')
    BY <1>0 DEF Ack, GoIdle, Others
  <2>2. pc'[p] = "idle"
    BY <1>0 DEF Ack, GoIdle
  <2>3. Hold(j, pc'[p], job'[p]) = 0
    BY <2>2 DEF Hold
  <2>4. /\ Handled(j)' + Hold(j, pc[p], job[p]) = Handled(j) + Hold(j, pc'[p], job'[p])
        /\ Hold(j, pc[p], job[p]) \in Nat
    BY <2>1, HandledStep
  <2>. QED BY <2>3, <2>4, PotentialType, NextPotentialType
<1>2. Debited(j)' <= Debited(j)
  BY DebitedLRem DEF Ack, reaper
<1>3. /\ Total(Wait(j), pending') = Total(Wait(j), pending)
      /\ Total(Wait(j), dlq') = Total(Wait(j), dlq) /\ Nacking(j)' = Nacking(j)
  BY SameParts DEF Ack, reaper
<1>. QED BY <1>1, <1>2, <1>3, PotentialType, NextPotentialType DEF Potential

LEMMA NackRemoveSpent ==
  ASSUME Consistent, Consistent', NEW p \in Procs, NackRemove(p), NEW j \in Jobs
  PROVE  Potential(j)' <= Potential(j)
<1>0. pc \in [Procs -> PC] /\ job \in [Procs -> Entry \cup {None}]
  BY DEF Consistent, TypeOK
<1>1. job[p] \in Live
  BY DEF Consistent, WorkerConsistent, NackRemove
<1>2. Handled(j)' = Handled(j)
  <2>1. Others(p, pc, pc') /\ Others(p, job, job')
    BY <1>0 DEF NackRemove, Others
  <2>2. pc[p] = "running" /\ pc'[p] = "requeuing" /\ job'[p] = Retried(job[p])
    BY <1>0 DEF NackRemove
  <2>3. Wait(j)[Retried(job[p])] = Unit(j)[job[p]]
    BY <1>1, WeightLemma
  <2>4. Hold(j, pc'[p], job'[p]) = Hold(j, pc[p], job[p])
    BY <2>2, <2>3 DEF Hold
  <2>5. /\ Handled(j)' + Hold(j, pc[p], job[p]) = Handled(j) + Hold(j, pc'[p], job'[p])
        /\ Hold(j, pc'[p], job'[p]) \in Nat
    BY <2>1, HandledStep
  <2>. QED BY <2>4, <2>5, PotentialType, NextPotentialType
<1>3. Debited(j)' <= Debited(j)
  BY DebitedLRem DEF NackRemove, reaper
<1>4. /\ Total(Wait(j), pending') = Total(Wait(j), pending)
      /\ Total(Wait(j), dlq') = Total(Wait(j), dlq) /\ Nacking(j)' = Nacking(j)
  BY SameParts DEF NackRemove, reaper
<1>. QED BY <1>2, <1>3, <1>4, PotentialType, NextPotentialType DEF Potential

\* A nacked copy goes to one list or the other.
LEMMA PutSpent ==
  ASSUME Consistent, NEW x \in Nacked, NackPut(x), NEW j \in Jobs
  PROVE  /\ Total(Wait(j), pending') + Total(Wait(j), dlq')
              = Total(Wait(j), pending) + Total(Wait(j), dlq) + Wait(j)[x]
         /\ Wait(j)[x] \in Nat
<1>1. x \in Entry /\ pending \in Seq(Entry) /\ dlq \in Seq(Entry)
  BY NotNone, ConsistentParts
<1>2. Wait(j) \in [Entry -> Nat] /\ Wait(j)[x] \in Nat
  BY <1>1, WeightType
<1>3. /\ Total(Wait(j), LPush(pending, x)) = Total(Wait(j), pending) + Wait(j)[x]
      /\ Total(Wait(j), LPush(dlq, x)) = Total(Wait(j), dlq) + Wait(j)[x]
      /\ Total(Wait(j), pending) \in Nat /\ Total(Wait(j), dlq) \in Nat
  BY <1>1, <1>2, TotalAppend, TotalType DEF LPush
<1>. QED BY <1>2, <1>3, NackPutLemma

LEMMA RequeueSpent ==
  ASSUME Consistent, Consistent', NEW p \in Procs, Requeue(p), NEW j \in Jobs
  PROVE  Potential(j)' <= Potential(j)
<1>0. pc \in [Procs -> PC] /\ job \in [Procs -> Entry \cup {None}]
  BY DEF Consistent, TypeOK
<1>1. job[p] \in Nacked
  BY DEF Consistent, WorkerConsistent, Requeue
<1>2. /\ Total(Wait(j), pending') + Total(Wait(j), dlq')
           = Total(Wait(j), pending) + Total(Wait(j), dlq) + Wait(j)[job[p]]
      /\ Wait(j)[job[p]] \in Nat
  BY <1>1, PutSpent DEF Requeue
<1>3. Handled(j)' + Wait(j)[job[p]] = Handled(j)
  <2>1. Others(p, pc, pc') /\ Others(p, job, job')
    BY <1>0 DEF Requeue, GoIdle, Others
  <2>2. pc[p] = "requeuing" /\ pc'[p] = "idle"
    BY <1>0 DEF Requeue, GoIdle
  <2>3. Hold(j, pc[p], job[p]) = Wait(j)[job[p]] /\ Hold(j, pc'[p], job'[p]) = 0
    BY <2>2 DEF Hold
  <2>4. Handled(j)' + Hold(j, pc[p], job[p]) = Handled(j) + Hold(j, pc'[p], job'[p])
    BY <2>1, HandledStep
  <2>. QED BY <2>3, <2>4, PotentialType
<1>4. Nacking(j)' = Nacking(j) /\ Debited(j)' = Debited(j)
  BY SameParts DEF Requeue, reaper
<1>. QED BY <1>2, <1>3, <1>4, PotentialType, NextPotentialType DEF Potential

LEMMA WorkerSpent ==
  ASSUME Consistent, Consistent', NEW p \in Procs, WorkerStep(p), NEW j \in Jobs
  PROVE  Potential(j)' <= Potential(j)
BY LeaseSpent, StampRemoveSpent, StampPutSpent, SucceedSpent, AckSpent,
   NackRemoveSpent, RequeueSpent DEF WorkerStep

\* A reaper's look at the list promises nothing new.
LEMMA LookSpent ==
  ASSUME Consistent, Consistent', NEW p \in Procs, Snapshot(p) \/ Skip(p), NEW j \in Jobs
  PROVE  Potential(j)' <= Potential(j)
<1>0. todo \in [Procs -> Seq(Entry)] /\ processing \in Seq(Entry)
  BY ConsistentParts
<1>1. \A q \in Procs : Debt(j, todo'[q], processing) <= Debt(j, todo[q], processing)
  <2>. SUFFICES ASSUME NEW q \in Procs
                PROVE  Debt(j, todo'[q], processing) <= Debt(j, todo[q], processing)
    OBVIOUS
  <2>1. todo[q] \in Seq(Entry) /\ Debt(j, todo[q], processing) \in Nat
    BY <1>0, DebtType
  <2>2. CASE q # p
    <3>1. todo'[q] = todo[q]
      BY <1>0, <2>2 DEF Snapshot, Skip
    <3>. QED BY <2>1, <3>1
  <2>3. CASE q = p /\ Snapshot(p)
    <3>1. todo[q] = <<>> /\ todo'[q] = Reverse(processing)
      BY <1>0, <2>3 DEF Snapshot
    <3>2. Debt(j, Reverse(processing), processing) <= Debt(j, <<>>, processing)
      BY <1>0, <2>1, DebtShrinks
    <3>. QED BY <3>1, <3>2
  <2>4. CASE q = p /\ Skip(p)
    <3>1. todo[q] # <<>> /\ todo'[q] = Tail(todo[q])
      BY <1>0, <2>4 DEF Skip
    <3>2. Debt(j, Tail(todo[q]), processing) <= Debt(j, todo[q], processing)
      BY <1>0, <2>1, <3>1, DebtShrinks
    <3>. QED BY <3>1, <3>2
  <2>. QED BY <2>2, <2>3, <2>4
<1>2. todo' \in [Procs -> Seq(Entry)] /\ processing' = processing
  BY NextParts DEF Snapshot, Skip, lists
<1>3. Debited(j)' <= Debited(j)
  BY <1>0, <1>1, <1>2, DebtsLess DEF Debited
<1>4. /\ Total(Wait(j), pending') = Total(Wait(j), pending)
      /\ Total(Wait(j), dlq') = Total(Wait(j), dlq) /\ Nacking(j)' = Nacking(j)
      /\ Handled(j)' = Handled(j)
  BY SameParts DEF Snapshot, Skip, lists, worker
<1>. QED BY <1>3, <1>4, PotentialType, NextPotentialType DEF Potential

LEMMA ReapRemoveSpent ==
  ASSUME Consistent, Consistent', NEW p \in Procs, ReapRemove(p), NEW j \in Jobs
  PROVE  Potential(j)' <= Potential(j)
<1>. DEFINE h == Head(todo[p])
            u == Unit(j)[h]
<1>0. /\ todo \in [Procs -> Seq(Entry)] /\ processing \in Seq(Entry)
      /\ nacking \in [Procs -> Entry \cup {None}]
  BY ConsistentParts
<1>1. h \in Live /\ todo[p] # <<>>
  BY TodoLemma DEF ReapRemove
<1>2. Retried(h) \in Entry /\ Wait(j)[Retried(h)] = u /\ u \in Nat
  BY <1>1, WeightLemma
<1>3. Debited(j)' + u <= Debited(j)
  <2>1. /\ todo' \in [Procs -> Seq(Entry)] /\ Others(p, todo, todo')
        /\ todo'[p] = Tail(todo[p]) /\ processing' = LRem(processing, h)
    BY <1>0, NextParts DEF ReapRemove, Others
  <2>2. SumOver(Debts(j, todo', LRem(processing, Head(todo[p])))) + Unit(j)[Head(todo[p])]
          <= SumOver(Debts(j, todo, processing))
    BY <1>0, <1>1, <2>1, DebtsReap
  <2>. QED BY <2>1, <2>2 DEF Debited
<1>4. Nacking(j)' = Nacking(j) + u
  <2>1. nacking' \in [Procs -> Entry \cup {None}] /\ Others(p, nacking, nacking')
    BY <1>0, NextParts DEF ReapRemove, Others
  <2>2. nacking[p] = None /\ nacking'[p] = Retried(h)
    BY <1>0 DEF ReapRemove
  <2>3. NackWeight(j, nacking[p]) = 0 /\ NackWeight(j, nacking'[p]) = u
    BY <1>2, <2>2, NoneAssumption DEF NackWeight
  <2>4. Nacking(j)' + NackWeight(j, nacking[p]) = Nacking(j) + NackWeight(j, nacking'[p])
    BY <1>0, <2>1, NacksStep DEF Nacking
  <2>. HIDE DEF u, h
  <2>. QED BY <2>3, <2>4, PotentialType, NextPotentialType
<1>5. /\ Total(Wait(j), pending') = Total(Wait(j), pending)
      /\ Total(Wait(j), dlq') = Total(Wait(j), dlq) /\ Handled(j)' = Handled(j)
  BY SameParts DEF ReapRemove, worker
<1>. HIDE DEF u, h
<1>. QED BY <1>2, <1>3, <1>4, <1>5, PotentialType, NextPotentialType DEF Potential

LEMMA ReapPutSpent ==
  ASSUME Consistent, Consistent', NEW p \in Procs, ReapPut(p), NEW j \in Jobs
  PROVE  Potential(j)' <= Potential(j)
<1>. DEFINE x == nacking[p]
<1>0. nacking \in [Procs -> Entry \cup {None}]
  BY ConsistentParts
<1>1. x \in Nacked /\ x # None
  BY DEF Consistent, ReaperConsistent, ReapPut
<1>2. /\ Total(Wait(j), pending') + Total(Wait(j), dlq')
           = Total(Wait(j), pending) + Total(Wait(j), dlq) + Wait(j)[x]
      /\ Wait(j)[x] \in Nat
  BY <1>1, PutSpent DEF ReapPut
<1>3. Nacking(j)' + Wait(j)[x] = Nacking(j)
  <2>1. nacking' \in [Procs -> Entry \cup {None}] /\ Others(p, nacking, nacking')
    BY <1>0, NextParts DEF ReapPut, Others
  <2>2. nacking'[p] = None
    BY <1>0 DEF ReapPut
  <2>3. NackWeight(j, nacking[p]) = Wait(j)[x] /\ NackWeight(j, nacking'[p]) = 0
    BY <1>1, <2>2 DEF NackWeight
  <2>4. Nacking(j)' + NackWeight(j, nacking[p]) = Nacking(j) + NackWeight(j, nacking'[p])
    BY <1>0, <2>1, NacksStep DEF Nacking
  <2>. HIDE DEF x
  <2>. QED BY <2>3, <2>4, PotentialType, NextPotentialType
<1>4. Handled(j)' = Handled(j) /\ Debited(j)' = Debited(j)
  BY SameParts DEF ReapPut, worker
<1>. QED BY <1>2, <1>3, <1>4, PotentialType, NextPotentialType DEF Potential

\* Only a push adds to the potential: what the new copy can grow into.
LEMMA PushSpent ==
  ASSUME Consistent, Consistent', Spent, NEW i \in Jobs, NEW t \in 0 .. MaxClock, Push(i, t)
  PROVE  Spent'
<1>. DEFINE x == [job |-> i, retries |-> 0, stamp |-> t]
<1>1. x \in Entry /\ pending \in Seq(Entry) /\ pushed \subseteq Jobs
  BY ConsistentParts, BoundsAssumption DEF Entry, Consistent, TypeOK
<1>2. ASSUME NEW j \in Jobs
      PROVE  Potential(j)' <= IF j \in pushed' THEN Power[MaxRetries] ELSE 0
  <2>1. Wait(j)[x] = IF i = j THEN Power[MaxRetries] ELSE 0
    <3>1. Wait(j)[x] = WaitingWeight(j, x)
      BY <1>1 DEF Wait
    <3>. QED BY <3>1, BoundsAssumption DEF WaitingWeight
  <2>2. pending' = LPush(pending, x)
    BY DEF Push
  <2>. HIDE DEF x
  <2>3. Total(Wait(j), pending') = Total(Wait(j), pending) + Wait(j)[x]
    BY <1>1, <2>2, WeightType, TotalAppend DEF LPush
  <2>4. /\ Total(Wait(j), dlq') = Total(Wait(j), dlq) /\ Nacking(j)' = Nacking(j)
        /\ Handled(j)' = Handled(j) /\ Debited(j)' = Debited(j)
    BY SameParts DEF Push, worker, reaper
  <2>5. Power[MaxRetries] \in Nat
    BY PowerLemma, BoundsAssumption
  <2>6. Potential(j)' = Potential(j) + Wait(j)[x]
    BY <2>1, <2>3, <2>4, <2>5, PotentialType, NextPotentialType DEF Potential
  <2>7. i \notin pushed /\ pushed' = pushed \cup {i}
    BY DEF Push
  <2>8. Potential(j) <= (IF j \in pushed THEN Power[MaxRetries] ELSE 0) /\ Potential(j) \in Nat
    BY PotentialType DEF Spent
  <2>. QED BY <2>1, <2>5, <2>6, <2>7, <2>8
<1>. QED BY <1>2 DEF Spent

LEMMA NextCovered == Consistent /\ Covered /\ [Next]_vars => Covered'
<1>. SUFFICES ASSUME Consistent, Covered, [Next]_vars, faults' = 0
              PROVE  ReceiptsCover' /\ SameRetries' /\ Spent'
  BY DEF Covered
<1>0. Consistent'
  BY NextConsistent
<1>1. faults = 0 /\ ~(\E p \in Procs : FaultStep(p) /\ faults' > faults)
  BY FaultCount DEF Consistent, TypeOK
<1>2. ReceiptsCover /\ SameRetries /\ Spent
  BY <1>1 DEF Covered
<1>3. ASSUME pushed' = pushed, \A j \in Jobs : Potential(j)' <= Potential(j)
      PROVE  Spent'
  <2>1. ASSUME NEW j \in Jobs
        PROVE  Potential(j)' <= IF j \in pushed' THEN Power[MaxRetries] ELSE 0
    <3>1. /\ Potential(j)' <= Potential(j)
          /\ Potential(j) <= IF j \in pushed' THEN Power[MaxRetries] ELSE 0
      BY <1>2, <1>3 DEF Spent
    <3>2. /\ Potential(j) \in Nat /\ Potential(j)' \in Nat
          /\ (IF j \in pushed' THEN Power[MaxRetries] ELSE 0) \in Nat
      BY <1>0, PotentialType, NextPotentialType, PowerLemma, BoundsAssumption
         DEF Potential
    <3>. QED BY <3>1, <3>2
  <2>. QED BY <2>1 DEF Spent
<1>4. ASSUME NEW i \in Jobs, NEW t \in 0 .. MaxClock, Push(i, t)
      PROVE  ReceiptsCover' /\ SameRetries' /\ Spent'
  <2>1. pc' = pc /\ raw' = raw /\ job' = job /\ processing' = processing
    BY <1>4 DEF Push, worker
  <2>2. ReceiptsCover' /\ SameRetries'
    BY <1>2, <2>1 DEF ReceiptsCover, SameRetries
  <2>. QED BY <1>0, <1>2, <1>4, <2>2, PushSpent
<1>5. ASSUME NEW p \in Procs, WorkerStep(p)
      PROVE  ReceiptsCover' /\ SameRetries' /\ Spent'
  <2>1. pushed' = pushed
    BY <1>5 DEF WorkerStep, Lease, StampRemove, StampPut, Succeed, Ack, NackRemove,
         Requeue
  <2>2. \A j \in Jobs : Potential(j)' <= Potential(j)
    BY <1>0, <1>5, WorkerSpent
  <2>. QED BY <1>0, <1>2, <1>3, <1>5, <2>1, <2>2, WorkerCover, WorkerRetries
<1>6. ASSUME NEW p \in Procs, ReaperStep(p)
      PROVE  ReceiptsCover' /\ SameRetries' /\ Spent'
  <2>1. pushed' = pushed /\ pc' = pc /\ raw' = raw /\ job' = job
    BY <1>6 DEF ReaperStep, Snapshot, Skip, ReapRemove, ReapPut, worker
  <2>2. SameRetries'
    BY <1>2, <2>1 DEF SameRetries
  <2>3. \A j \in Jobs : Potential(j)' <= Potential(j)
    BY <1>0, <1>6, LookSpent, ReapRemoveSpent, ReapPutSpent DEF ReaperStep
  <2>. QED BY <1>2, <1>3, <1>6, <2>1, <2>2, <2>3, ReaperCover
<1>7. CASE TimePasses \/ UNCHANGED vars
  <2>1. UNCHANGED <<pending, processing, dlq, pushed, pc, raw, job, todo, nacking>>
    BY <1>7 DEF TimePasses, vars, lists, worker, reaper
  <2>2. ReceiptsCover' /\ SameRetries'
    BY <1>2, <2>1 DEF ReceiptsCover, SameRetries
  <2>3. \A j \in Jobs : Potential(j)' = Potential(j)
    BY <2>1 DEF Potential, Handled, Nacking, Debited
  <2>4. \A j \in Jobs : Potential(j)' <= Potential(j)
    BY <2>3, PotentialType
  <2>. QED BY <1>3, <2>1, <2>2, <2>4
<1>8. ASSUME NEW p \in Procs, FaultStep(p) PROVE FALSE
  <2>1. faults' = faults + 1
    BY <1>8 DEF FaultStep, Crash, StampRemoveFails, StampPutFails, AckFails,
         NackRemoveFails, RequeueFails, ReapRemoveFails, ReapPutFails, Fault
  <2>. QED BY <1>1, <2>1
<1>. QED BY <1>4, <1>5, <1>6, <1>7, <1>8 DEF Next

-----------------------------------------------------------------------------
\* What DuplicationBounded counts is part of the potential: a leased copy may be
\* requeued by every reaper, and it has a worker.
LEMMA WeighedWaiting ==
  ASSUME NEW j, NEW s \in Seq(Entry)
  PROVE  WaitingOn(s, j) = Total(Wait(j), s)
<1>1. \A i \in DOMAIN s : WaitingWeight(j, s[i]) = Wait(j)[s[i]]
  <2>1. \A i \in DOMAIN s : s[i] \in Entry
    OBVIOUS
  <2>. QED BY <2>1 DEF Wait
<1>2. [i \in DOMAIN s |-> WaitingWeight(j, s[i])] = Along(Wait(j), s)
  BY <1>1 DEF Along
<1>3. DOMAIN Along(Wait(j), s) = DOMAIN s
  BY DEF Along
<1>. QED BY <1>2, <1>3 DEF WaitingOn, Total, SumFunction

LEMMA WeighedLeased ==
  ASSUME Consistent, NEW j
  PROVE  LeasedOut(j) = (Cardinality(Procs) + 1) * Total(Unit(j), processing)
<1>. DEFINE f == [i \in DOMAIN processing |-> LeasedWeight(j, processing[i])]
            g == Along(Unit(j), processing)
            n == Cardinality(Procs) + 1
            D == DOMAIN processing
<1>1. processing \in Seq(Live) /\ processing \in Seq(Entry)
  BY DEF Consistent, TypeOK, ListsConsistent
<1>2. IsFiniteSet(D) /\ \A i \in D : g[i] = Unit(j)[processing[i]] /\ g[i] \in Nat
  <2>. DEFINE u == Unit(j)
  <2>1. u \in [Entry -> Nat]
    BY WeightType
  <2>. HIDE DEF u
  <2>2. /\ IsFiniteSet(DOMAIN processing)
        /\ \A i \in DOMAIN processing : /\ Along(u, processing)[i] = u[processing[i]]
                                        /\ u[processing[i]] \in Nat
    BY <1>1, <2>1, AlongLemma
  <2>. QED BY <2>2 DEF u
<1>3. \A i \in D : f[i] = n * g[i]
  <2>1. \A i \in D : processing[i] \in Live
    BY <1>1
  <2>2. \A i \in D : LeasedWeight(j, processing[i]) = n * Unit(j)[processing[i]]
    BY <2>1, WeightLemma
  <2>. QED BY <1>2, <2>2
<1>4. n \in Nat
  BY ProcsAssumption, FS_CardinalityType
<1>5. DOMAIN f = D
  OBVIOUS
<1>. HIDE DEF f, g, n, D
<1>6. SumFunctionOnSet(f, D) = n * SumFunctionOnSet(g, D)
  BY <1>2, <1>3, <1>4, SumTimes
<1>. QED BY <1>5, <1>6 DEF LeasedOut, Total, SumFunction, f, g, n, D

LEMMA WeighedReapers ==
  ASSUME Consistent, NEW j
  PROVE  WithReapers(j) = Nacking(j)
<1>1. \A p \in Procs : (IF nacking[p] = None THEN 0 ELSE WaitingWeight(j, nacking[p]))
                         = NackWeight(j, nacking[p])
  BY ConsistentParts DEF NackWeight, Wait
<1>2. [p \in Procs |-> IF nacking[p] = None THEN 0 ELSE WaitingWeight(j, nacking[p])]
        = Nacks(j, nacking)
  BY <1>1 DEF Nacks
<1>3. DOMAIN Nacks(j, nacking) = Procs
  BY DEF Nacks
<1>. QED BY <1>2, <1>3 DEF WithReapers, Nacking, SumOver, SumFunction

\* The workers' part covers what only they have, and one more of each copy on
\* the processing list.
LEMMA WeighedWorkers ==
  ASSUME Consistent, ReceiptsCover, SameRetries, NEW j \in Jobs
  PROVE  WithWorkers(j) + Total(Unit(j), processing) <= Handled(j)
<1>. DEFINE u == Unit(j)
            X == Kinds(j)
            w == [p \in Procs |-> CASE pc[p] = "requeuing"  -> WaitingWeight(j, job[p])
                                    [] pc[p] = "restamping" -> LeasedWeight(j, job[p])
                                    [] OTHER -> 0]
            k == [p \in Procs |-> IF pc[p] \in Leasing THEN raw[p] ELSE None]
            r == [p \in Procs |-> IF k[p] \in X THEN u[k[p]] ELSE 0]
            s == [p \in Procs |-> w[p] + r[p]]
            h == Held(j, pc, job)
            g == [x \in X |-> u[x] * Counted(k, x, Procs)]
            c == [x \in X |-> u[x] * Copies(processing, x)]
<1>1. /\ IsFiniteSet(X) /\ X \subseteq Entry /\ \A x \in Entry : x \in X <=> x.job = j
      /\ u \in [Entry -> Nat]
  BY KindsFinite, WeightType
<1>2. \A x \in X : u[x] \in Nat
  BY <1>1
<1>3. \A p \in Procs : r[p] \in Nat
  BY <1>2
<1>4. ASSUME NEW p \in Procs PROVE w[p] \in Nat /\ h[p] \in Nat /\ w[p] + r[p] <= h[p]
  <2>. DEFINE n == Cardinality(Procs)
  <2>1. h[p] = Hold(j, pc[p], job[p]) /\ h[p] \in Nat /\ pc[p] \in PC
    BY HoldType, ConsistentParts DEF Held, Handling
  <2>2. CASE pc[p] \in {"idle"}
    <3>1. w[p] = 0 /\ k[p] = None
      BY <2>2 DEF Leasing
    <3>2. r[p] = 0
      BY <1>1, <3>1, NoneAssumption
    <3>. QED BY <2>1, <3>1, <3>2
  <2>3. CASE pc[p] = "requeuing"
    <3>1. w[p] = WaitingWeight(j, job[p]) /\ k[p] = None
      BY <2>3 DEF Leasing
    <3>2. r[p] = 0
      BY <1>1, <3>1, NoneAssumption
    <3>3. job[p] \in Entry
      BY <2>3, NotNone DEF Consistent, WorkerConsistent
    <3>4. h[p] = WaitingWeight(j, job[p])
      BY <2>1, <2>3, <3>3 DEF Hold, Wait
    <3>. QED BY <2>1, <3>1, <3>2, <3>4
  <2>4. CASE pc[p] = "restamping"
    <3>1. w[p] = LeasedWeight(j, job[p]) /\ k[p] = None
      BY <2>4 DEF Leasing
    <3>2. r[p] = 0
      BY <1>1, <3>1, NoneAssumption
    <3>3. job[p] \in Live
      BY <2>4 DEF Consistent, WorkerConsistent
    <3>4. h[p] = LeasedWeight(j, job[p])
      BY <2>1, <2>4, <3>3, WeightLemma DEF Hold
    <3>. QED BY <2>1, <3>1, <3>2, <3>4
  <2>5. CASE pc[p] \in Leasing
    <3>1. w[p] = 0 /\ k[p] = raw[p]
      BY <2>5 DEF Leasing
    <3>2. /\ raw[p] \in Live /\ job[p] \in Live /\ job[p].job = raw[p].job
          /\ job[p].retries = raw[p].retries
      BY <2>5 DEF Consistent, WorkerConsistent, SameRetries, Leasing
    <3>3. raw[p] \in Entry /\ job[p] \in Entry /\ u[raw[p]] = u[job[p]]
      BY <3>2, NotNone, SameWeight
    <3>4. u[job[p]] \in Nat /\ n \in Nat
      BY <1>1, <3>3, ProcsAssumption, FS_CardinalityType
    <3>5. r[p] \in {0, u[job[p]]}
      BY <3>1, <3>3
    <3>6. h[p] \in {u[job[p]], (n + 1) * u[job[p]]}
      BY <2>1, <2>5 DEF Hold, Leasing
    <3>. HIDE DEF u, n, h, r, w
    <3>7. u[job[p]] <= (n + 1) * u[job[p]]
      <4>1. \A a, b \in Nat : (a + 1) * b = a * b + b /\ a * b \in Nat
        OBVIOUS
      <4>. QED BY <3>4, <4>1
    <3>. QED BY <2>1, <3>1, <3>4, <3>5, <3>6, <3>7
  <2>. QED BY <2>1, <2>2, <2>3, <2>4, <2>5 DEF PC, Leasing
<1>5. \A p \in Procs : s[p] = w[p] + r[p]
  OBVIOUS
<1>6. \A p \in Procs : r[p] = IF k[p] \in X THEN u[k[p]] ELSE 0
  OBVIOUS
<1>7. \A x \in X : g[x] = u[x] * Counted(k, x, Procs)
  OBVIOUS
<1>8. ASSUME NEW x \in X
      PROVE  c[x] \in Nat /\ g[x] \in Nat /\ c[x] <= g[x]
  <2>1. x \in Entry /\ x # None
    BY <1>1, NoneAssumption
  <2>2. [p \in Procs |-> IF k[p] = x THEN 1 ELSE 0] = Receipts(pc, raw, x)
    <3>1. \A p \in Procs : k[p] = x <=> pc[p] \in Leasing /\ raw[p] = x
      BY <2>1
    <3>. HIDE DEF k
    <3>. QED BY <3>1 DEF Receipts
  <2>3. Counted(k, x, Procs) = SumOver(Receipts(pc, raw, x))
    BY <2>2 DEF Counted, SumOver
  <2>4. /\ Copies(processing, x) \in Nat /\ Counted(k, x, Procs) \in Nat
        /\ Copies(processing, x) <= Counted(k, x, Procs)
    BY <2>1, <2>3, ConsistentParts, CopiesType, ReceiptsType DEF ReceiptsCover
  <2>5. c[x] = u[x] * Copies(processing, x) /\ g[x] = u[x] * Counted(k, x, Procs)
    OBVIOUS
  <2>6. u[x] \in Nat
    BY <1>2
  <2>. HIDE DEF c, g, u, k
  <2>7. \A d, a, b \in Nat : d * b \in Nat /\ (b <= a => d * b <= d * a)
    BY TimesLess
  <2>. QED BY <2>4, <2>5, <2>6, <2>7
<1>9. Total(u, processing) = SumFunctionOnSet(c, X)
  BY ConsistentParts, DebtCovers
<1>10. WithWorkers(j) = SumFunctionOnSet(w, Procs)
  BY DEF WithWorkers, SumFunction
<1>. HIDE DEF u, X, w, k, r, s, h, g, c
<1>11. SumFunctionOnSet(c, X) <= SumFunctionOnSet(g, X)
  BY <1>1, <1>8, SumLess
<1>12. SumFunctionOnSet(r, Procs) = SumFunctionOnSet(g, X)
  <2>1. Keyed(r, Procs, k, u, X)
    BY <1>6 DEF Keyed
  <2>2. IsFiniteSet(X)
    BY <1>1
  <2>. QED BY <1>2, <1>7, <2>1, <2>2, ProcsAssumption, SumByKey
<1>13. SumFunctionOnSet(s, Procs) = SumFunctionOnSet(w, Procs) + SumFunctionOnSet(r, Procs)
  <2>1. \A p \in Procs : w[p] \in Nat /\ r[p] \in Nat /\ s[p] = w[p] + r[p]
    BY <1>3, <1>4, <1>5
  <2>. QED BY <2>1, ProcsAssumption, SumPlus
<1>14. SumFunctionOnSet(s, Procs) <= SumFunctionOnSet(h, Procs)
  <2>1. \A p \in Procs : s[p] \in Nat /\ h[p] \in Nat /\ s[p] <= h[p]
    BY <1>3, <1>4, <1>5
  <2>. QED BY <2>1, ProcsAssumption, SumLess
<1>15. /\ SumFunctionOnSet(w, Procs) \in Nat /\ SumFunctionOnSet(r, Procs) \in Nat
       /\ SumFunctionOnSet(h, Procs) \in Nat
       /\ SumFunctionOnSet(c, X) \in Nat /\ SumFunctionOnSet(g, X) \in Nat
  BY <1>1, <1>3, <1>4, <1>8, ProcsAssumption, SumTake
<1>16. Handled(j) = SumFunctionOnSet(h, Procs)
  BY DEF Handled, SumOver, h
<1>. QED BY <1>9, <1>10, <1>11, <1>12, <1>13, <1>14, <1>15, <1>16 DEF u

\* Each of the reapers covers the processing list once.
LEMMA WeighedDebts ==
  ASSUME Consistent, NEW j \in Jobs
  PROVE  Cardinality(Procs) * Total(Unit(j), processing) <= Debited(j)
<1>. DEFINE t == Total(Unit(j), processing)
            c == [p \in Procs |-> t]
            d == Debts(j, todo, processing)
<1>1. processing \in Seq(Entry) /\ todo \in [Procs -> Seq(Entry)]
  BY ConsistentParts
<1>2. t \in Nat
  BY <1>1, WeightType, TotalType
<1>3. \A p \in Procs : c[p] = t
  OBVIOUS
<1>4. \A p \in Procs : d[p] \in Nat /\ t <= d[p]
  <2>1. \A p \in Procs : d[p] = Debt(j, todo[p], processing) /\ d[p] \in Nat
    BY <1>1, DebtsType
  <2>2. ASSUME NEW p \in Procs PROVE t <= Debt(j, todo[p], processing)
    <3>1. todo[p] \in Seq(Entry)
      BY <1>1
    <3>. QED BY <1>1, <3>1, DebtCovers
  <2>. HIDE DEF t, d
  <2>. QED BY <2>1, <2>2
<1>. HIDE DEF t, c, d
<1>5. \A p \in Procs : c[p] \in Nat /\ d[p] \in Nat /\ c[p] <= d[p]
  BY <1>2, <1>3, <1>4
<1>6. SumFunctionOnSet(c, Procs) = Cardinality(Procs) * t
  BY <1>2, <1>3, ProcsAssumption, SumConst
<1>7. SumFunctionOnSet(c, Procs) <= SumFunctionOnSet(d, Procs)
  BY <1>5, ProcsAssumption, SumLess
<1>. QED BY <1>6, <1>7 DEF Debited, SumOver, d, t

LEMMA CoveredBounds == Consistent /\ Covered => DuplicationBounded
<1>. SUFFICES ASSUME Consistent, Covered, faults = 0, NEW j \in pushed
              PROVE  WaitingOn(pending, j) + WaitingOn(dlq, j) + LeasedOut(j)
                       + WithWorkers(j) + WithReapers(j) <= Power[MaxRetries]
  BY DEF DuplicationBounded
<1>. DEFINE t == Total(Unit(j), processing)
            n == Cardinality(Procs)
            a == Total(Wait(j), pending)
            b == Total(Wait(j), dlq)
<1>0. j \in Jobs /\ ReceiptsCover /\ SameRetries
  BY DEF Consistent, TypeOK, Covered
<1>1. a + b + Handled(j) + Nacking(j) + Debited(j) <= Power[MaxRetries]
  BY <1>0 DEF Covered, Spent, Potential
<1>2. WaitingOn(pending, j) = a /\ WaitingOn(dlq, j) = b
  BY ConsistentParts, WeighedWaiting
<1>3. LeasedOut(j) = (n + 1) * t
  BY WeighedLeased
<1>4. WithReapers(j) = Nacking(j)
  BY WeighedReapers
<1>5. WithWorkers(j) + t <= Handled(j)
  BY <1>0, WeighedWorkers
<1>6. n * t <= Debited(j)
  BY <1>0, WeighedDebts
<1>7. n \in Nat /\ t \in Nat
  BY ConsistentParts, WeightType, TotalType, ProcsAssumption, FS_CardinalityType
<1>8. /\ a \in Nat /\ b \in Nat
      /\ Handled(j) \in Nat /\ Nacking(j) \in Nat /\ Debited(j) \in Nat
  BY <1>0, PotentialType
<1>9. WithWorkers(j) \in Nat
  <2>. DEFINE w == [p \in Procs |-> CASE pc[p] = "requeuing"  -> WaitingWeight(j, job[p])
                                      [] pc[p] = "restamping" -> LeasedWeight(j, job[p])
                                      [] OTHER -> 0]
  <2>1. ASSUME NEW p \in Procs PROVE w[p] \in Nat
    <3>1. CASE pc[p] = "requeuing"
      <4>1. job[p] \in Entry
        BY <3>1, NotNone DEF Consistent, WorkerConsistent
      <4>2. Wait(j)[job[p]] \in Nat /\ Wait(j)[job[p]] = WaitingWeight(j, job[p])
        BY <4>1, WeightType DEF Wait
      <4>. QED BY <3>1, <4>2
    <3>2. CASE pc[p] = "restamping"
      <4>1. job[p] \in Live
        BY <3>2 DEF Consistent, WorkerConsistent
      <4>2. LeasedWeight(j, job[p]) = (n + 1) * Unit(j)[job[p]] /\ Unit(j)[job[p]] \in Nat
        BY <4>1, WeightLemma
      <4>3. LeasedWeight(j, job[p]) \in Nat
        BY <1>7, <4>2
      <4>. QED BY <3>2, <4>3
    <3>. QED BY <3>1, <3>2
  <2>2. WithWorkers(j) = SumFunctionOnSet(w, Procs)
    BY DEF WithWorkers, SumFunction
  <2>. HIDE DEF w
  <2>. QED BY <2>1, <2>2, ProcsAssumption, SumTake
<1>10. Power[MaxRetries] \in Nat
  BY PowerLemma, BoundsAssumption
<1>. HIDE DEF a, b, t, n
<1>11. (n + 1) * t = n * t + t /\ n * t \in Nat
  <2>1. \A x, y \in Nat : (x + 1) * y = x * y + y /\ x * y \in Nat
    OBVIOUS
  <2>. QED BY <1>7, <2>1
<1>. QED BY <1>1, <1>2, <1>3, <1>4, <1>5, <1>6, <1>7, <1>8, <1>9, <1>10, <1>11

\* Without faults the copies of a job that wait, are leased, are dead or are in
\* somebody's hands are bounded, each by what it can still grow into, however
\* many workers and reapers there are and however slow they are (queue.go: "After
\* MaxRetries attempts they are moved to the DLQ").
THEOREM DuplicationBoundedTheorem == Spec => []DuplicationBounded
<1>1. Init => Covered
  BY InitCovered
<1>2. Consistent /\ Covered /\ [Next]_vars => Covered'
  BY NextCovered
<1>3. Consistent /\ Covered => DuplicationBounded
  BY CoveredBounds
<1>. QED BY <1>1, <1>2, <1>3, ConsistentTheorem, PTL DEF Spec

=============================================================================
