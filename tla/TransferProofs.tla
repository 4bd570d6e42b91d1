--------------------------- MODULE TransferProofs ---------------------------
(***************************************************************************)
(* Proofs about Transfer: for any source, any way its export is cut into   *)
(* batches, any number of workers, retries, early reaps and faults.        *)
(*                                                                         *)
(* The lock. OneImporter is inductive but for the sessions that were lost: *)
(* a worker is among the severed ones only while it is inside RunJob, so   *)
(* that the one that takes the lock next is never one of them.             *)
(*                                                                         *)
(* A run. RunInv says where a run is in the export: it has passed exactly  *)
(* the places that precede its own, so that a container comes before what  *)
(* goes into it, no place is passed twice and a run that ends with         *)
(* "completed" has passed all.                                             *)
(*                                                                         *)
(* Completed. WholeInv counts what a run has met for certain and has not   *)
(* imported: each cost a fault, and without faults there is nothing,       *)
(* because each container is there, and known to the run, by the time its  *)
(* contents come. Finish hands this to the row.                            *)
(*                                                                         *)
(* Duplicates. CopiesInv counts, for a place of the export, who may still  *)
(* import from it under a new id: the runs that have it before them, the   *)
(* runs without a lock that can still put the row back to running, and the *)
(* next run, if one is to be expected. Copies and such claims together     *)
(* never exceed one more than the interruptions: a step either moves a     *)
(* claim, turns one into a copy, or pays for the one it makes.             *)
(*                                                                         *)
(* Nothing forgotten. A copy of the job is dropped without a retry in two  *)
(* places: behind a finished migration, and by a worker that does not get  *)
(* the lock. While no lease runs out there is one copy, whose holder gets  *)
(* the lock (Sole); while nothing fails, whoever has the lock ends the     *)
(* migration (Calm). Both apart are enough.                                *)
(***************************************************************************)
EXTENDS Transfer, Integers, FiniteSetTheorems, TLAPS

LockTypeOK ==
  /\ pc \in [Workers -> PC]
  /\ lock \in Workers \cup {None}
  /\ severed \subseteq Workers

SeveredInside == \A w \in severed : Inside(w)

Inv == LockTypeOK /\ SeveredInside /\ OneImporter

LEMMA InitInv == Init => Inv
  BY NobodyAssumption
     DEF Init, Inv, LockTypeOK, SeveredInside, OneImporter, Inside, PC

-----------------------------------------------------------------------------
(* Steps by what they do to the lock and to the program counters.          *)

\* A step that moves w between two places that are both inside RunJob, or both
\* outside, and leaves the lock alone.
LEMMA MoveInv ==
  ASSUME Inv, NEW w \in Workers, NEW place \in PC, Goto(w, place),
         UNCHANGED locks, Inside(w) <=> Inside(w)'
  PROVE  Inv'
<1>1. pc' = [pc EXCEPT ![w] = place]
  BY DEF Goto
<1>2. pc' \in [Workers -> PC] /\ \A v \in Workers \ {w} : pc'[v] = pc[v]
  BY <1>1 DEF Inv, LockTypeOK
<1>3. \A v \in Workers : Inside(v) <=> Inside(v)'
  BY <1>2 DEF Inside
<1>4. lock' = lock /\ severed' = severed
  BY DEF locks
<1>5. LockTypeOK'
  BY <1>2, <1>4 DEF Inv, LockTypeOK
<1>6. SeveredInside'
  BY <1>3, <1>4 DEF Inv, LockTypeOK, SeveredInside
<1>7. OneImporter'
  BY <1>3, <1>4 DEF Inv, OneImporter
<1> QED
  BY <1>5, <1>6, <1>7 DEF Inv

\* A step that leaves all of it alone.
LEMMA StayInv ==
  ASSUME Inv, UNCHANGED <<pc, locks>>
  PROVE  Inv'
BY DEF Inv, LockTypeOK, SeveredInside, OneImporter, Inside, locks

\* A step that ends w's session and takes w out of RunJob.
LEMMA LeaveInv ==
  ASSUME Inv, NEW w \in Workers, NEW place \in {"idle", "acking", "nacking"},
         Goto(w, place), EndSession(w)
  PROVE  Inv'
<1>1. pc' = [pc EXCEPT ![w] = place]
  BY DEF Goto
<1>2. /\ pc' \in [Workers -> PC]
      /\ pc'[w] = place
      /\ \A v \in Workers \ {w} : pc'[v] = pc[v]
  BY <1>1 DEF Inv, LockTypeOK, PC
<1>3. ~Inside(w)' /\ \A v \in Workers \ {w} : Inside(v) <=> Inside(v)'
  BY <1>2 DEF Inside
<1>4. severed' = severed \ {w}
  BY DEF EndSession
<1>5. lock' # w /\ (lock # w => lock' = lock)
  BY NobodyAssumption DEF EndSession
<1>6. \A v \in Workers \ {w} : lock' = v <=> lock = v
  BY NobodyAssumption DEF EndSession
<1>7. LockTypeOK'
  BY <1>2, <1>4 DEF Inv, LockTypeOK, EndSession
<1>8. SeveredInside'
  BY <1>3, <1>4 DEF Inv, LockTypeOK, SeveredInside
<1>9. OneImporter'
  BY <1>3, <1>4, <1>5, <1>6 DEF Inv, OneImporter
<1> QED
  BY <1>7, <1>8, <1>9 DEF Inv

-----------------------------------------------------------------------------
(* The actions that touch the lock.                                        *)

LEMMA LockInv ==
  ASSUME Inv, NEW w \in Workers, Lock(w)
  PROVE  Inv'
<1>1. CASE lock # None
  <2>1. Goto(w, "acking") /\ UNCHANGED locks
    BY <1>1 DEF Lock, locks
  <2>2. ~Inside(w) /\ ~Inside(w)'
    BY <2>1 DEF Lock, Goto, Inside, Inv, LockTypeOK
  <2> QED
    BY <2>1, <2>2, MoveInv DEF PC
<1>2. CASE lock = None
  <2>1. lock' = w /\ severed' = severed /\ pc' = [pc EXCEPT ![w] = "checking"]
    BY <1>2 DEF Lock, Goto
  <2>2. /\ pc' \in [Workers -> PC]
        /\ pc'[w] = "checking"
        /\ \A v \in Workers \ {w} : pc'[v] = pc[v]
    BY <2>1 DEF Inv, LockTypeOK, PC
  <2>3. Inside(w)' /\ \A v \in Workers \ {w} : Inside(v) <=> Inside(v)'
    BY <2>2 DEF Inside
  <2>4. w \notin severed
    BY DEF Inv, SeveredInside, Lock, Inside
  <2>5. \A v \in Workers : ~(Inside(v) /\ v \notin severed)
    BY <1>2, NobodyAssumption DEF Inv, OneImporter
  <2>6. LockTypeOK'
    BY <2>1, <2>2 DEF Inv, LockTypeOK
  <2>7. SeveredInside'
    BY <2>1, <2>3, <2>4 DEF Inv, LockTypeOK, SeveredInside
  <2>8. OneImporter'
    BY <2>1, <2>3, <2>4, <2>5 DEF OneImporter
  <2> QED
    BY <2>6, <2>7, <2>8 DEF Inv
<1> QED
  BY <1>1, <1>2

\* A session that is lost: its worker goes on without the lock.
LEMMA LoseSessionInv ==
  ASSUME Inv, NEW w \in Workers, LoseSession(w)
  PROVE  Inv'
<1>1. lock = w /\ lock' = None /\ severed' = severed \cup {w} /\ pc' = pc
  BY DEF LoseSession, worker
<1>2. Inside(w)
  BY <1>1 DEF Inv, OneImporter
<1>3. \A v \in Workers : Inside(v) <=> Inside(v)'
  BY <1>1 DEF Inside
<1>4. LockTypeOK'
  BY <1>1 DEF Inv, LockTypeOK
<1>5. SeveredInside'
  BY <1>1, <1>2, <1>3 DEF Inv, LockTypeOK, SeveredInside
<1>6. OneImporter'
  BY <1>1, <1>3, NobodyAssumption DEF Inv, OneImporter
<1> QED
  BY <1>4, <1>5, <1>6 DEF Inv

-----------------------------------------------------------------------------
LEMMA WorkerStepInv ==
  ASSUME Inv, NEW w \in Workers, WorkerStep(w)
  PROVE  Inv'
<1>0. pc[w] \in PC /\ pc \in [Workers -> PC]
  BY DEF Inv, LockTypeOK
<1>1. CASE Take(w)
  <2>1. Goto(w, "locking") /\ UNCHANGED locks /\ pc[w] = "idle"
    BY <1>1 DEF Take
  <2> QED
    BY <2>1, <1>0, MoveInv DEF PC, Inside, Goto
<1>2. CASE Lock(w)
  BY <1>2, LockInv
<1>3. CASE Check(w)
  <2>1. /\ UNCHANGED locks /\ pc[w] = "checking"
        /\ Goto(w, "releasing") \/ Goto(w, "marking")
    BY <1>3 DEF Check
  <2> QED
    BY <2>1, <1>0, MoveInv DEF PC, Inside, Goto
<1>4. CASE BuildFails(w)
  <2>1. Goto(w, "finishing") /\ UNCHANGED locks /\ pc[w] = "marking"
    BY <1>4 DEF BuildFails
  <2> QED
    BY <2>1, <1>0, MoveInv DEF PC, Inside, Goto
<1>5. CASE MarkRunning(w)
  <2>1. Goto(w, "paging") /\ UNCHANGED locks /\ pc[w] = "marking"
    BY <1>5 DEF MarkRunning
  <2> QED
    BY <2>1, <1>0, MoveInv DEF PC, Inside, Goto
<1>6. CASE Page(w)
  <2>1. /\ UNCHANGED locks /\ pc[w] = "paging"
        /\ \/ Goto(w, "releasing")
           \/ Goto(w, "finishing")
           \/ Goto(w, "importing")
    BY <1>6 DEF Page, Conclude
  <2> QED
    BY <2>1, <1>0, MoveInv DEF PC, Inside, Goto
<1>7. CASE Interrupted(w)
  <2>1. Goto(w, "releasing") /\ UNCHANGED locks /\ pc[w] = "importing"
    BY <1>7 DEF Interrupted, Conclude
  <2> QED
    BY <2>1, <1>0, MoveInv DEF PC, Inside, Goto
<1>8. CASE \/ SourceSkips(w) \/ DestinationSkips(w) \/ ImportOrphan(w)
            \/ ImportRefused(w) \/ ImportRow(w) \/ InsertFile(w)
  <2>1. /\ UNCHANGED locks /\ pc[w] \in {"importing", "inserting"}
        /\ Goto(w, "paging") \/ Goto(w, "importing")
    BY <1>8 DEF SourceSkips, DestinationSkips, ImportOrphan, ImportRefused, ImportRow,
                InsertFile, NextItem
  <2> QED
    BY <2>1, <1>0, MoveInv DEF PC, Inside, Goto
<1>9. CASE WriteObject(w)
  <2>1. Goto(w, "inserting") /\ UNCHANGED locks /\ pc[w] = "importing"
    BY <1>9 DEF WriteObject
  <2> QED
    BY <2>1, <1>0, MoveInv DEF PC, Inside, Goto
<1>10. CASE Finish(w)
  <2>1. Goto(w, "releasing") /\ UNCHANGED locks /\ pc[w] = "finishing"
    BY <1>10 DEF Finish
  <2> QED
    BY <2>1, <1>0, MoveInv DEF PC, Inside, Goto
<1>11. CASE Release(w)
  <2>1. EndSession(w) /\ (Goto(w, "nacking") \/ Goto(w, "acking"))
    BY <1>11 DEF Release
  <2> QED
    BY <2>1, LeaveInv
<1>12. CASE AckJob(w) \/ NackJob(w)
  <2>1. /\ Goto(w, "idle") /\ UNCHANGED locks
        /\ pc[w] \in {"acking", "nacking"}
    BY <1>12 DEF AckJob, NackJob, Reset
  <2> QED
    BY <2>1, <1>0, MoveInv DEF PC, Inside, Goto
<1> QED
  BY <1>1, <1>2, <1>3, <1>4, <1>5, <1>6, <1>7, <1>8, <1>9, <1>10, <1>11,
     <1>12 DEF WorkerStep

LEMMA FaultStepInv ==
  ASSUME Inv, NEW w \in Workers, FaultStep(w)
  PROVE  Inv'
<1>0. pc[w] \in PC /\ pc \in [Workers -> PC]
  BY DEF Inv, LockTypeOK
<1>1. CASE StartFails(w)
  <2>1. /\ Goto(w, "releasing") /\ UNCHANGED locks
        /\ pc[w] \in {"checking", "marking"}
    BY <1>1 DEF StartFails
  <2> QED
    BY <2>1, <1>0, MoveInv DEF PC, Inside, Goto
<1>2. CASE ImportFails(w) \/ InsertFileFails(w)
  <2>1. /\ UNCHANGED locks /\ pc[w] \in {"importing", "inserting"}
        /\ Goto(w, "paging") \/ Goto(w, "importing")
    BY <1>2 DEF ImportFails, InsertFileFails, NextItem
  <2> QED
    BY <2>1, <1>0, MoveInv DEF PC, Inside, Goto
<1>3. CASE FinishFails(w)
  <2>1. Goto(w, "releasing") /\ UNCHANGED locks /\ pc[w] = "finishing"
    BY <1>3 DEF FinishFails
  <2> QED
    BY <2>1, <1>0, MoveInv DEF PC, Inside, Goto
<1>4. CASE Shutdown(w)
  BY <1>4, StayInv DEF Shutdown
<1>5. CASE Crash(w)
  <2>1. Goto(w, "idle") /\ EndSession(w)
    BY <1>5 DEF Crash, Reset
  <2> QED
    BY <2>1, LeaveInv
<1>6. CASE LoseSession(w)
  BY <1>6, LoseSessionInv
<1> QED
  BY <1>1, <1>2, <1>3, <1>4, <1>5, <1>6 DEF FaultStep

LEMMA NextInv == Inv /\ [Next]_vars => Inv'
<1> SUFFICES ASSUME Inv, [Next]_vars PROVE Inv'
  OBVIOUS
<1>1. CASE Create \/ CreateFails \/ Cancel
  BY <1>1, StayInv DEF Create, CreateFails, Cancel, worker
<1>2. CASE \E w \in Workers : WorkerStep(w) \/ FaultStep(w)
  BY <1>2, WorkerStepInv, FaultStepInv
<1>3. CASE ReapDead \/ ReapLive
  BY <1>3, StayInv DEF ReapDead, ReapLive, worker
<1>4. CASE UNCHANGED vars
  BY <1>4, StayInv DEF vars, worker
<1> QED
  BY <1>1, <1>2, <1>3, <1>4 DEF Next

\* However often the queue delivers a migration's job, whichever sessions are
\* lost and whoever dies when: the advisory lock of RunJob is held by exactly
\* the worker that runs the migration on a live session.
THEOREM OneImporterTheorem == Spec => []OneImporter
<1>1. Inv => OneImporter
  BY DEF Inv
<1> QED
  BY <1>1, InitInv, NextInv, PTL DEF Spec

-----------------------------------------------------------------------------
(* The order of the export.                                                *)

\* What precedes a place.
Done(place) == {b \in Places : Precedes(b, place)}

LEMMA PlaceOf ==
  /\ Len(Pages) \in Nat /\ DOMAIN Pages = 1 .. Len(Pages)
  /\ \A p \in DOMAIN Pages :
       /\ Len(Pages[p]) \in Nat \ {0} /\ DOMAIN Pages[p] = 1 .. Len(Pages[p])
       /\ \A i \in 1 .. Len(Pages[p]) : <<p, i>> \in Places
  /\ \A a \in Places : /\ a = <<a[1], a[2]>> /\ a[1] \in DOMAIN Pages /\ a[1] \in Nat
                       /\ a[2] \in 1 .. Len(Pages[a[1]]) /\ a[2] \in Nat
                       /\ At(a) \in SUBSET Resources
<1>1. Pages \in Seq(Seq(SUBSET Resources))
  BY ResourcesAssumption
<1>2. Len(Pages) \in Nat /\ DOMAIN Pages = 1 .. Len(Pages)
  BY <1>1
<1>3. ASSUME NEW p \in DOMAIN Pages
      PROVE  /\ Len(Pages[p]) \in Nat \ {0} /\ DOMAIN Pages[p] = 1 .. Len(Pages[p])
             /\ \A i \in 1 .. Len(Pages[p]) :
                  <<p, i>> \in Places /\ Pages[p][i] \in SUBSET Resources
  <2>1. Pages[p] \in Seq(SUBSET Resources)
    BY <1>1
  <2>2. Pages[p] # <<>>
    BY ExportAssumption
  <2>3. Len(Pages[p]) \in Nat \ {0} /\ DOMAIN Pages[p] = 1 .. Len(Pages[p])
        /\ \A i \in 1 .. Len(Pages[p]) : Pages[p][i] \in SUBSET Resources
    BY <2>1, <2>2
  <2>4. ASSUME NEW i \in DOMAIN Pages[p] PROVE <<p, i>> \in Places
    BY DEF Places
  <2>. QED BY <2>3, <2>4
<1>4. ASSUME NEW a \in Places
      PROVE  /\ a = <<a[1], a[2]>> /\ a[1] \in DOMAIN Pages /\ a[1] \in Nat
             /\ a[2] \in 1 .. Len(Pages[a[1]]) /\ a[2] \in Nat
             /\ At(a) \in SUBSET Resources
  <2>1. PICK p \in DOMAIN Pages : a \in {p} \X DOMAIN Pages[p]
    BY DEF Places
  <2>2. a = <<a[1], a[2]>> /\ a[1] = p /\ a[2] \in DOMAIN Pages[p]
    BY <2>1
  <2>. QED BY <1>2, <1>3, <2>2 DEF At
<1>. QED BY <1>2, <1>3, <1>4

LEMMA DoneFirst == Done(<<1, 1>>) = {}
BY PlaceOf DEF Done, Precedes

LEMMA DoneAll ==
  ASSUME NEW p \in Nat, p > Len(Pages)
  PROVE  Done(<<p, 1>>) = Places
<1>1. \A a \in Places : Precedes(a, <<p, 1>>)
  BY PlaceOf DEF Precedes
<1>. QED BY <1>1 DEF Done

\* The step from one place to the next.
LEMMA DoneNext ==
  ASSUME NEW p \in DOMAIN Pages, NEW i \in 1 .. Len(Pages[p])
  PROVE  /\ <<p, i>> \in Places /\ <<p, i>> \notin Done(<<p, i>>)
         /\ i < Len(Pages[p]) => Done(<<p, i + 1>>) = Done(<<p, i>>) \cup {<<p, i>>}
         /\ i >= Len(Pages[p]) => Done(<<p + 1, 1>>) = Done(<<p, i>>) \cup {<<p, i>>}
<1>0. <<p, i>> \in Places /\ p \in Nat /\ i \in Nat /\ Len(Pages[p]) \in Nat
  BY PlaceOf
<1>1. ASSUME i < Len(Pages[p])
      PROVE  Done(<<p, i + 1>>) = Done(<<p, i>>) \cup {<<p, i>>}
  <2>1. ASSUME NEW c \in Places
        PROVE  Precedes(c, <<p, i + 1>>) <=> Precedes(c, <<p, i>>) \/ c = <<p, i>>
    <3>1. c = <<c[1], c[2]>> /\ c[1] \in Nat /\ c[2] \in Nat
      BY PlaceOf
    <3>2. c = <<p, i>> <=> c[1] = p /\ c[2] = i
      BY <3>1
    <3>. QED BY <1>0, <3>1, <3>2 DEF Precedes
  <2>. QED BY <1>0, <2>1 DEF Done
<1>2. ASSUME i >= Len(Pages[p])
      PROVE  Done(<<p + 1, 1>>) = Done(<<p, i>>) \cup {<<p, i>>}
  <2>1. ASSUME NEW c \in Places
        PROVE  Precedes(c, <<p + 1, 1>>) <=> Precedes(c, <<p, i>>) \/ c = <<p, i>>
    <3>1. c = <<c[1], c[2]>> /\ c[1] \in Nat /\ c[2] \in Nat /\ c[2] >= 1
          /\ c[2] <= Len(Pages[c[1]])
      BY PlaceOf
    <3>2. c = <<p, i>> <=> c[1] = p /\ c[2] = i
      BY <3>1
    <3>3. i = Len(Pages[p])
      BY <1>0, <1>2
    <3>. QED BY <1>0, <3>1, <3>2, <3>3 DEF Precedes
  <2>. QED BY <1>0, <2>1 DEF Done
<1>3. <<p, i>> \notin Done(<<p, i>>)
  BY <1>0 DEF Done, Precedes
<1>. QED BY <1>0, <1>1, <1>2, <1>3

-----------------------------------------------------------------------------
(* One run of a worker.                                                    *)

Loop == {"paging", "importing", "inserting"}

RunTypes ==
  /\ pc \in [Workers -> PC] /\ live \in [Workers -> BOOLEAN]
  /\ page \in [Workers -> Nat] /\ item \in [Workers -> Nat]
  /\ verdict \in [Workers -> Terminal \cup {"none", "error"}]
  /\ known \in [Workers -> SUBSET Containers]

\* A run is at a place of the export.
RunOK(w) ==
  /\ pc[w] \in {"idle", "locking", "checking"} => live[w]
  /\ pc[w] \in {"idle", "locking", "checking", "marking"} => verdict[w] = "none"
  /\ pc[w] = "finishing" => verdict[w] \in Terminal
  /\ pc[w] = "paging" => page[w] \in 1 .. Len(Pages) + 1 /\ item[w] = 1
  /\ pc[w] \in {"importing", "inserting"} =>
       page[w] \in DOMAIN Pages /\ item[w] \in 1 .. Len(Pages[page[w]])
  /\ pc[w] = "inserting" => At(Here(w)) \subseteq Files

RunInv == RunTypes /\ \A w \in Workers : RunOK(w)

\* A step of one worker.
OnlyBy(w) ==
  \A v \in Workers \ {w} :
    /\ pc'[v] = pc[v] /\ live'[v] = live[v] /\ page'[v] = page[v] /\ item'[v] = item[v]
    /\ verdict'[v] = verdict[v] /\ known'[v] = known[v]

LEMMA OnlyByOK ==
  ASSUME RunInv, NEW w \in Workers, RunTypes', OnlyBy(w), RunOK(w)'
  PROVE  RunInv'
<1>1. ASSUME NEW v \in Workers \ {w} PROVE RunOK(v)'
  BY DEF RunInv, RunOK, OnlyBy, Here
<1>. QED BY <1>1 DEF RunInv

\* The loop goes to the next place.
LEMMA NextItemOK ==
  ASSUME RunInv, NEW w \in Workers, pc[w] \in {"importing", "inserting"}, NextItem(w)
  PROVE  /\ Here(w) \in Places /\ Here(w) \notin Done(Here(w))
         /\ Done(Here(w)') = Done(Here(w)) \cup {Here(w)}
         /\ pc' \in [Workers -> PC] /\ page' \in [Workers -> Nat] /\ item' \in [Workers -> Nat]
         /\ \A v \in Workers \ {w} : pc'[v] = pc[v] /\ page'[v] = page[v] /\ item'[v] = item[v]
         /\ pc'[w] \in {"paging", "importing"}
         /\ pc'[w] = "paging" => page'[w] \in 1 .. Len(Pages) + 1 /\ item'[w] = 1
         /\ pc'[w] = "importing" =>
              page'[w] \in DOMAIN Pages /\ item'[w] \in 1 .. Len(Pages[page'[w]])
<1>. DEFINE p == page[w]
            i == item[w]
<1>1. p \in DOMAIN Pages /\ i \in 1 .. Len(Pages[p]) /\ RunTypes
  BY DEF RunInv, RunOK
<1>2. /\ p \in Nat /\ i \in Nat /\ Len(Pages[p]) \in Nat /\ p \in 1 .. Len(Pages)
      /\ Len(Pages) \in Nat
  BY <1>1, PlaceOf
<1>3. Here(w) = <<p, i>> /\ Here(w) \in Places /\ Here(w) \notin Done(Here(w))
  BY <1>1, DoneNext DEF Here
<1>4. CASE i >= Len(Pages[p])
  <2>1. /\ pc' = [pc EXCEPT ![w] = "paging"] /\ page' = [page EXCEPT ![w] = p + 1]
        /\ item' = [item EXCEPT ![w] = 1]
    BY <1>4 DEF NextItem, Goto
  <2>2. /\ pc' \in [Workers -> PC] /\ page' \in [Workers -> Nat] /\ item' \in [Workers -> Nat]
        /\ pc'[w] = "paging" /\ page'[w] = p + 1 /\ item'[w] = 1
        /\ \A v \in Workers \ {w} : pc'[v] = pc[v] /\ page'[v] = page[v] /\ item'[v] = item[v]
    BY <1>1, <1>2, <2>1 DEF RunTypes, PC
  <2>3. Here(w)' = <<p + 1, 1>>
    BY <2>2 DEF Here
  <2>4. Done(<<p + 1, 1>>) = Done(<<p, i>>) \cup {<<p, i>>}
    BY <1>1, <1>4, DoneNext
  <2>5. p + 1 \in 1 .. Len(Pages) + 1
    BY <1>2
  <2>. QED BY <1>3, <2>2, <2>3, <2>4, <2>5
<1>5. CASE ~(i >= Len(Pages[p]))
  <2>1. /\ pc' = [pc EXCEPT ![w] = "importing"] /\ page' = page
        /\ item' = [item EXCEPT ![w] = i + 1]
    BY <1>5 DEF NextItem, Goto
  <2>2. /\ pc' \in [Workers -> PC] /\ page' \in [Workers -> Nat] /\ item' \in [Workers -> Nat]
        /\ pc'[w] = "importing" /\ page'[w] = p /\ item'[w] = i + 1
        /\ \A v \in Workers \ {w} : pc'[v] = pc[v] /\ page'[v] = page[v] /\ item'[v] = item[v]
    BY <1>1, <1>2, <2>1 DEF RunTypes, PC
  <2>3. Here(w)' = <<p, i + 1>>
    BY <2>2 DEF Here
  <2>4. i < Len(Pages[p]) /\ i + 1 \in 1 .. Len(Pages[p])
    BY <1>1, <1>2, <1>5
  <2>5. Done(<<p, i + 1>>) = Done(<<p, i>>) \cup {<<p, i>>}
    BY <1>1, <2>4, DoneNext
  <2>. QED BY <1>1, <1>3, <2>2, <2>3, <2>4, <2>5
<1>. QED BY <1>4, <1>5

\* What stands at the place of a run.
LEMMA HereOK ==
  ASSUME RunInv, NEW w \in Workers, pc[w] \in {"importing", "inserting"}
  PROVE  /\ Here(w) \in Places /\ At(Here(w)) \in SUBSET Resources /\ At(Here(w)) # {}
         /\ At(Here(w)) \cap Files # {} => At(Here(w)) \subseteq Files
         /\ \A r \in At(Here(w)) \cap DOMAIN Parent :
              \E a \in Done(Here(w)) : At(a) = {Parent[r]}
<1>1. Here(w) \in Places
  BY PlaceOf DEF RunInv, RunOK, Here
<1>2. At(Here(w)) \in SUBSET Resources
  BY <1>1, PlaceOf
<1>3. At(Here(w)) # {} /\ (At(Here(w)) \cap Files # {} => At(Here(w)) \subseteq Files)
  BY <1>1, ExportAssumption
<1>4. \A r \in At(Here(w)) \cap DOMAIN Parent : \E a \in Done(Here(w)) : At(a) = {Parent[r]}
  BY <1>1, ExportAssumption DEF Done
<1>. QED BY <1>1, <1>2, <1>3, <1>4

LEMMA RunInit == Init => RunInv
BY DEF Init, RunInv, RunTypes, RunOK, PC, Terminal

LEMMA RunStay ==
  ASSUME RunInv, UNCHANGED <<pc, live, page, item, verdict, known>>
  PROVE  RunInv'
BY DEF RunInv, RunTypes, RunOK, Here

\* Only the place in RunJob, and perhaps what is to be written, changes.
LEMMA RunMove ==
  ASSUME RunInv, NEW w \in Workers, NEW place \in PC \ Loop, Goto(w, place),
         NEW v \in Terminal \cup {"none", "error"},
         place \in {"idle", "locking", "checking"} => live[w],
         place \in {"idle", "locking", "checking", "marking"} => v = "none",
         place = "finishing" => v \in Terminal,
         verdict' = [verdict EXCEPT ![w] = v],
         UNCHANGED <<live, page, item, known>>
  PROVE  RunInv'
<1>1. /\ pc' \in [Workers -> PC] /\ pc'[w] = place
      /\ verdict' \in [Workers -> Terminal \cup {"none", "error"}] /\ verdict'[w] = v
      /\ \A u \in Workers \ {w} : pc'[u] = pc[u] /\ verdict'[u] = verdict[u]
  BY DEF RunInv, RunTypes, Goto
<1>2. RunTypes' /\ OnlyBy(w)
  BY <1>1 DEF RunInv, RunTypes, OnlyBy
<1>3. RunOK(w)'
  BY <1>1 DEF RunOK, Loop
<1>. QED BY <1>2, <1>3, OnlyByOK

LEMMA VerdictSame ==
  ASSUME RunInv, NEW w \in Workers, verdict' = verdict
  PROVE  /\ verdict' = [verdict EXCEPT ![w] = verdict[w]]
         /\ verdict[w] \in Terminal \cup {"none", "error"}
         /\ RunOK(w)
BY DEF RunInv, RunTypes, RunOK

LEMMA RunMark ==
  ASSUME RunInv, NEW w \in Workers, MarkRunning(w)
  PROVE  /\ RunInv' /\ pc'[w] = "paging" /\ OnlyBy(w)
         /\ Done(Here(w)') = {}
<1>1. /\ pc' = [pc EXCEPT ![w] = "paging"] /\ page' = [page EXCEPT ![w] = 1]
      /\ item' = [item EXCEPT ![w] = 1] /\ known' = [known EXCEPT ![w] = {}]
      /\ verdict' = verdict /\ live' = live /\ pc[w] = "marking"
  BY DEF MarkRunning, Goto
<1>2. /\ RunTypes' /\ OnlyBy(w)
      /\ pc'[w] = "paging" /\ page'[w] = 1 /\ item'[w] = 1
  BY <1>1 DEF RunInv, RunTypes, RunOK, OnlyBy, PC
<1>3. 1 \in 1 .. Len(Pages) + 1 /\ Done(Here(w)') = {}
  BY <1>2, DoneFirst, PlaceOf DEF Here
<1>4. RunOK(w)'
  BY <1>2, <1>3 DEF RunOK, Terminal
<1>. QED BY <1>2, <1>3, <1>4, OnlyByOK

LEMMA RunConclude ==
  ASSUME RunInv, NEW w \in Workers, NEW v \in Terminal \cup {"error"}, Conclude(w, v),
         live' = live
  PROVE  /\ RunInv' /\ OnlyBy(w) /\ verdict'[w] = v
         /\ pc'[w] = (IF v = "error" THEN "releasing" ELSE "finishing")
<1>1. /\ page' = [page EXCEPT ![w] = 1] /\ item' = [item EXCEPT ![w] = 1]
      /\ known' = [known EXCEPT ![w] = {}] /\ verdict' = [verdict EXCEPT ![w] = v]
      /\ pc' = [pc EXCEPT ![w] = IF v = "error" THEN "releasing" ELSE "finishing"]
  BY DEF Conclude, Goto
<1>2. /\ RunTypes' /\ OnlyBy(w) /\ verdict'[w] = v
      /\ pc'[w] = (IF v = "error" THEN "releasing" ELSE "finishing")
  BY <1>1 DEF RunInv, RunTypes, OnlyBy, PC
<1>3. RunOK(w)'
  BY <1>2 DEF RunOK
<1>. QED BY <1>2, <1>3, OnlyByOK

LEMMA RunPage ==
  ASSUME RunInv, NEW w \in Workers, Page(w)
  PROVE  /\ RunInv' /\ OnlyBy(w)
         /\ pc'[w] = "finishing" /\ verdict'[w] = "completed" => Done(Here(w)) = Places
         /\ pc'[w] \in Loop => Here(w)' = Here(w) /\ known'[w] = known[w]
<1>0. /\ pc[w] = "paging" /\ page[w] \in 1 .. Len(Pages) + 1 /\ item[w] = 1
      /\ live' = live /\ RunTypes /\ Len(Pages) \in Nat /\ page[w] \in Nat
  BY PlaceOf DEF Page, RunInv, RunOK, RunTypes
<1>1. CASE \E v \in {"error", "failed", "cancelled"} : Conclude(w, v)
  BY <1>0, <1>1, RunConclude DEF Terminal, Loop
<1>2. CASE page[w] > Len(Pages) /\ Conclude(w, "completed")
  <2>1. Done(Here(w)) = Places
    BY <1>0, <1>2, DoneAll DEF Here
  <2>. QED BY <1>0, <1>2, <2>1, RunConclude DEF Terminal, Loop
<1>3. CASE /\ page[w] <= Len(Pages) /\ Goto(w, "importing")
           /\ UNCHANGED <<page, item, verdict, known>>
  <2>1. /\ pc' \in [Workers -> PC] /\ pc'[w] = "importing"
        /\ \A v \in Workers \ {w} : pc'[v] = pc[v]
    BY <1>0, <1>3 DEF Goto, RunTypes, PC
  <2>2. RunTypes' /\ OnlyBy(w)
    BY <1>0, <1>3, <2>1 DEF RunTypes, OnlyBy
  <2>3. page[w] \in DOMAIN Pages /\ 1 \in 1 .. Len(Pages[page[w]])
    <3>1. page[w] \in DOMAIN Pages
      BY <1>0, <1>3, PlaceOf
    <3>2. Len(Pages[page[w]]) \in Nat \ {0}
      BY <3>1, PlaceOf
    <3>. QED BY <3>1, <3>2
  <2>4. RunOK(w)'
    BY <1>0, <1>3, <2>1, <2>3 DEF RunOK
  <2>. QED BY <1>3, <2>1, <2>2, <2>4, OnlyByOK DEF Here
<1>. QED BY <1>0, <1>1, <1>2, <1>3 DEF Page

\* The steps behind which the run is at the next place.
Handles(w) ==
  \/ SourceSkips(w) \/ DestinationSkips(w) \/ ImportOrphan(w) \/ ImportRefused(w)
  \/ ImportRow(w) \/ InsertFile(w)

HandlesInVain(w) == ImportFails(w) \/ InsertFileFails(w)

LEMMA HandlesOK ==
  ASSUME RunInv, NEW w \in Workers, Handles(w) \/ HandlesInVain(w)
  PROVE  /\ pc[w] \in {"importing", "inserting"} /\ NextItem(w)
         /\ UNCHANGED <<live, verdict, row, pushed, queue, lease, locks>>
         /\ \/ known' = known
            \/ \E r \in At(Here(w)) : Know(w, r)
         /\ RunInv' /\ OnlyBy(w) /\ pc'[w] \in {"paging", "importing"}
<1>1. /\ pc[w] \in {"importing", "inserting"} /\ NextItem(w)
      /\ UNCHANGED <<live, verdict, row, pushed, queue, lease, locks>>
      /\ \/ known' = known
         \/ \E r \in At(Here(w)) : Know(w, r)
  <2>1. CASE \/ SourceSkips(w) \/ DestinationSkips(w) \/ ImportOrphan(w) \/ InsertFile(w)
             \/ InsertFileFails(w)
    BY <2>1 DEF SourceSkips, DestinationSkips, ImportOrphan, InsertFile, InsertFileFails, job
  <2>2. CASE ImportRefused(w) \/ ImportRow(w) \/ ImportFails(w)
    BY <2>2 DEF ImportRefused, ImportRow, ImportFails, job
  <2>. QED BY <2>1, <2>2 DEF Handles, HandlesInVain
<1>2. /\ pc' \in [Workers -> PC] /\ page' \in [Workers -> Nat] /\ item' \in [Workers -> Nat]
      /\ \A v \in Workers \ {w} : pc'[v] = pc[v] /\ page'[v] = page[v] /\ item'[v] = item[v]
      /\ pc'[w] \in {"paging", "importing"}
      /\ pc'[w] = "paging" => page'[w] \in 1 .. Len(Pages) + 1 /\ item'[w] = 1
      /\ pc'[w] = "importing" =>
           page'[w] \in DOMAIN Pages /\ item'[w] \in 1 .. Len(Pages[page'[w]])
  BY <1>1, NextItemOK
<1>3. known' \in [Workers -> SUBSET Containers]
      /\ \A v \in Workers \ {w} : known'[v] = known[v]
  BY <1>1 DEF RunInv, RunTypes, Know
<1>4. RunTypes' /\ OnlyBy(w)
  BY <1>1, <1>2, <1>3 DEF RunInv, RunTypes, OnlyBy
<1>5. RunOK(w)'
  BY <1>1, <1>2 DEF RunInv, RunOK
<1>. QED BY <1>1, <1>2, <1>4, <1>5, OnlyByOK

LEMMA RunReset ==
  ASSUME RunInv, NEW w \in Workers, Reset(w)
  PROVE  RunInv' /\ OnlyBy(w) /\ pc'[w] = "idle" /\ live'[w]
<1>1. /\ RunTypes' /\ OnlyBy(w) /\ pc'[w] = "idle" /\ live'[w] /\ verdict'[w] = "none"
  BY DEF Reset, Goto, RunInv, RunTypes, OnlyBy, PC, Terminal
<1>2. RunOK(w)'
  BY <1>1 DEF RunOK
<1>. QED BY <1>1, <1>2, OnlyByOK

LEMMA RunWorker ==
  ASSUME RunInv, NEW w \in Workers, WorkerStep(w)
  PROVE  RunInv'
<1>0. RunTypes /\ RunOK(w) /\ verdict[w] \in Terminal \cup {"none", "error"}
  BY DEF RunInv, RunTypes
<1>1. CASE Take(w)
  <2>1. Goto(w, "locking") /\ pc[w] = "idle" /\ UNCHANGED <<live, page, item, known>>
        /\ verdict' = verdict
    BY <1>1 DEF Take
  <2>. QED BY <1>0, <2>1, VerdictSame, RunMove DEF PC, Loop, RunOK
<1>2. CASE Lock(w)
  <2>1. /\ Goto(w, "checking") \/ Goto(w, "acking")
        /\ pc[w] = "locking" /\ UNCHANGED <<live, page, item, known>> /\ verdict' = verdict
    BY <1>2 DEF Lock
  <2>. QED BY <1>0, <2>1, VerdictSame, RunMove DEF PC, Loop, RunOK
<1>3. CASE Check(w)
  <2>1. /\ Goto(w, "releasing") \/ Goto(w, "marking")
        /\ pc[w] = "checking" /\ UNCHANGED <<live, page, item, known>> /\ verdict' = verdict
    BY <1>3 DEF Check
  <2>. QED BY <1>0, <2>1, VerdictSame, RunMove DEF PC, Loop, RunOK
<1>4. CASE BuildFails(w)
  <2>1. Goto(w, "finishing") /\ verdict' = [verdict EXCEPT ![w] = "failed"]
        /\ UNCHANGED <<live, page, item, known>>
    BY <1>4 DEF BuildFails
  <2>2. "finishing" \in PC \ Loop /\ "failed" \in Terminal
    BY DEF PC, Loop, Terminal
  <2>. QED BY <2>1, <2>2, RunMove
<1>5. CASE MarkRunning(w)
  BY <1>5, RunMark
<1>6. CASE Page(w)
  BY <1>6, RunPage
<1>7. CASE Interrupted(w)
  BY <1>7, RunConclude DEF Interrupted, Terminal
<1>8. CASE Handles(w)
  BY <1>8, HandlesOK
<1>9. CASE WriteObject(w)
  <2>1. /\ pc[w] = "importing" /\ pc' = [pc EXCEPT ![w] = "inserting"]
        /\ At(Here(w)) \cap Files # {}
        /\ UNCHANGED <<live, page, item, verdict, known>>
    BY <1>9 DEF WriteObject, Goto
  <2>2. RunTypes' /\ OnlyBy(w) /\ pc'[w] = "inserting"
    BY <1>0, <2>1 DEF RunTypes, OnlyBy, PC
  <2>3. At(Here(w)) \subseteq Files
    BY <2>1, HereOK
  <2>4. RunOK(w)'
    BY <1>0, <2>1, <2>2, <2>3 DEF RunOK, Here
  <2>. QED BY <2>2, <2>4, OnlyByOK
<1>12. CASE Finish(w)
  <2>1. Goto(w, "releasing") /\ UNCHANGED <<live, page, item, known>> /\ verdict' = verdict
    BY <1>12 DEF Finish
  <2>. QED BY <1>0, <2>1, VerdictSame, RunMove DEF PC, Loop
<1>13. CASE Release(w)
  <2>1. /\ Goto(w, "nacking") \/ Goto(w, "acking")
        /\ UNCHANGED <<live, page, item, known>> /\ verdict' = verdict
    BY <1>13 DEF Release
  <2>. QED BY <1>0, <2>1, VerdictSame, RunMove DEF PC, Loop
<1>14. CASE AckJob(w) \/ NackJob(w)
  BY <1>14, RunReset DEF AckJob, NackJob
<1>. QED BY <1>1, <1>2, <1>3, <1>4, <1>5, <1>6, <1>7, <1>8, <1>9, <1>12, <1>13, <1>14
         DEF WorkerStep, Handles

LEMMA RunFault ==
  ASSUME RunInv, NEW w \in Workers, FaultStep(w)
  PROVE  RunInv'
<1>0. RunTypes /\ RunOK(w) /\ verdict[w] \in Terminal \cup {"none", "error"}
  BY DEF RunInv, RunTypes
<1>1. CASE StartFails(w) \/ FinishFails(w)
  <2>1. Goto(w, "releasing") /\ verdict' = [verdict EXCEPT ![w] = "error"]
        /\ UNCHANGED <<live, page, item, known>>
    BY <1>1 DEF StartFails, FinishFails
  <2>2. "releasing" \in PC \ Loop /\ "error" \in Terminal \cup {"none", "error"}
    BY DEF PC, Loop
  <2>. QED BY <2>1, <2>2, RunMove
<1>2. CASE HandlesInVain(w)
  BY <1>2, HandlesOK
<1>3. CASE Shutdown(w)
  <2>1. /\ live' = [live EXCEPT ![w] = FALSE]
        /\ pc[w] \in {"marking", "paging", "importing", "inserting", "finishing"}
        /\ UNCHANGED <<pc, page, item, verdict, known>>
    BY <1>3 DEF Shutdown
  <2>2. RunTypes' /\ OnlyBy(w)
    BY <1>0, <2>1 DEF RunTypes, OnlyBy
  <2>3. RunOK(w)'
    BY <1>0, <2>1 DEF RunOK, Here
  <2>. QED BY <2>2, <2>3, OnlyByOK
<1>4. CASE Crash(w)
  BY <1>4, RunReset DEF Crash
<1>5. CASE LoseSession(w)
  BY <1>5, RunStay DEF LoseSession, worker
<1>. QED BY <1>1, <1>2, <1>3, <1>4, <1>5 DEF FaultStep, HandlesInVain

LEMMA RunStep == RunInv /\ [Next]_vars => RunInv'
<1>. SUFFICES ASSUME RunInv, [Next]_vars PROVE RunInv'
  OBVIOUS
<1>1. CASE Create \/ CreateFails \/ Cancel \/ ReapDead \/ ReapLive \/ UNCHANGED vars
  BY <1>1, RunStay DEF Create, CreateFails, Cancel, ReapDead, ReapLive, vars, worker
<1>2. CASE \E w \in Workers : WorkerStep(w) \/ FaultStep(w)
  BY <1>2, RunWorker, RunFault
<1>. QED BY <1>1, <1>2 DEF Next

-----------------------------------------------------------------------------
(* What is missing behind a run.                                           *)

InRun(w) == pc[w] \in Loop \/ (pc[w] = "finishing" /\ verdict[w] = "completed")

\* The places the run has gone past, and what it has met there for certain.
Past(w)  == IF pc[w] \in Loop THEN Done(Here(w)) ELSE Places
Tried(w) == {r \in Owed : \E a \in Past(w) : At(a) = {r}}

\* What of it does not hang on a container and is not there.
Failed(w) == (Tried(w) \ there) \ DOMAIN Parent

Missing == Owed \ there

\* Each failed import has cost a fault, and without faults nothing fails.
RunWhole(w) ==
  /\ InRun(w) /\ live[w] => IsFiniteSet(Failed(w)) /\ Cardinality(Failed(w)) <= faults
  /\ faults = 0 => /\ live[w]
                   /\ InRun(w) => Tried(w) \subseteq there
                   /\ pc[w] \in Loop => Tried(w) \cap Containers \subseteq known[w]

RowWhole ==
  row = "completed" =>
    /\ IsFiniteSet(Missing \ DOMAIN Parent)
    /\ Cardinality(Missing \ DOMAIN Parent) <= faults
    /\ Missing # {} => faults > 0

WholeInv ==
  /\ there \in SUBSET Resources /\ faults \in Nat
  /\ \A w \in Workers : RunWhole(w)
  /\ RowWhole

\* A migration deletes no row.
Grows ==
  /\ there \subseteq there' /\ there' \in SUBSET Resources
  /\ faults' \in Nat /\ faults' >= faults

LEMMA Fewer ==
  ASSUME NEW S, NEW R \in SUBSET S, IsFiniteSet(S), NEW n \in Nat, NEW m \in Nat,
         Cardinality(S) <= n, n <= m
  PROVE  IsFiniteSet(R) /\ Cardinality(R) <= m
<1>1. IsFiniteSet(R) /\ Cardinality(R) <= Cardinality(S)
  BY FS_Subset
<1>2. Cardinality(S) \in Nat /\ Cardinality(R) \in Nat
  BY <1>1, FS_CardinalityType
<1>. QED BY <1>1, <1>2

LEMMA RowWholeGrows ==
  ASSUME WholeInv, Grows, row' = "completed" => row = "completed"
  PROVE  RowWhole'
<1>. SUFFICES ASSUME row' = "completed"
              PROVE  /\ IsFiniteSet(Missing' \ DOMAIN Parent)
                     /\ Cardinality(Missing' \ DOMAIN Parent) <= faults'
                     /\ Missing' # {} => faults' > 0
  BY DEF RowWhole
<1>1. Missing' \subseteq Missing
  BY DEF Missing, Grows, WholeInv
<1>2. /\ IsFiniteSet(Missing \ DOMAIN Parent) /\ faults \in Nat /\ faults' \in Nat
      /\ Cardinality(Missing \ DOMAIN Parent) <= faults /\ faults <= faults'
      /\ Missing # {} => faults > 0
  BY DEF RowWhole, WholeInv, Grows
<1>3. Missing' \ DOMAIN Parent \in SUBSET (Missing \ DOMAIN Parent)
  BY <1>1
<1>4. /\ IsFiniteSet(Missing' \ DOMAIN Parent)
      /\ Cardinality(Missing' \ DOMAIN Parent) <= faults'
  BY <1>2, <1>3, Fewer
<1>. QED BY <1>1, <1>2, <1>4

\* Another step than of the run of w, or one that goes past no place.
LEMMA RunWholeKeeps ==
  ASSUME RunInv, WholeInv, Grows, NEW w \in Workers,
         InRun(w)' /\ live'[w] => live[w],
         live[w] => live'[w] \/ faults' > 0,
         InRun(w)' => \/ Tried(w)' = {}
                      \/ /\ InRun(w) /\ Tried(w)' = Tried(w)
                         /\ pc'[w] \in Loop => pc[w] \in Loop /\ known'[w] = known[w]
  PROVE  RunWhole(w)'
<1>1. faults \in Nat /\ faults' \in Nat /\ faults <= faults' /\ there \subseteq there'
      /\ live \in [Workers -> BOOLEAN]
  BY DEF RunInv, RunTypes, WholeInv, Grows
<1>2. ASSUME InRun(w)', live'[w]
      PROVE  IsFiniteSet(Failed(w)') /\ Cardinality(Failed(w)') <= faults'
  <2>1. CASE Tried(w)' = {}
    <3>1. Failed(w)' = {}
      BY <2>1 DEF Failed
    <3>. QED BY <1>1, <3>1, FS_EmptySet
  <2>2. CASE InRun(w) /\ Tried(w)' = Tried(w)
    <3>1. Failed(w)' \in SUBSET Failed(w)
      BY <1>1, <2>2 DEF Failed
    <3>2. IsFiniteSet(Failed(w)) /\ Cardinality(Failed(w)) <= faults
      BY <1>2, <2>2 DEF WholeInv, RunWhole
    <3>. QED BY <1>1, <3>1, <3>2, Fewer
  <2>. QED BY <1>2, <2>1, <2>2
<1>3. ASSUME faults' = 0
      PROVE  /\ live'[w]
             /\ InRun(w)' => Tried(w)' \subseteq there'
             /\ pc'[w] \in Loop => Tried(w)' \cap Containers \subseteq known'[w]
  <2>1. faults = 0 /\ ~(faults' > 0)
    BY <1>1, <1>3
  <2>2. /\ live[w]
        /\ InRun(w) => Tried(w) \subseteq there
        /\ pc[w] \in Loop => Tried(w) \cap Containers \subseteq known[w]
    BY <2>1 DEF WholeInv, RunWhole
  <2>3. live'[w]
    BY <2>1, <2>2
  <2>4. ASSUME InRun(w)' PROVE Tried(w)' \subseteq there'
    BY <1>1, <2>2, <2>4
  <2>5. ASSUME pc'[w] \in Loop PROVE Tried(w)' \cap Containers \subseteq known'[w]
    <3>1. InRun(w)'
      BY <2>5 DEF InRun
    <3>. QED BY <2>2, <2>5, <3>1
  <2>. QED BY <2>3, <2>4, <2>5
<1>. QED BY <1>2, <1>3 DEF RunWhole

LEMMA WholeOthers ==
  ASSUME RunInv, WholeInv, Grows, NEW w \in Workers, OnlyBy(w), RunWhole(w)', RowWhole'
  PROVE  WholeInv'
<1>1. ASSUME NEW v \in Workers \ {w} PROVE RunWhole(v)'
  <2>1. Tried(v)' = Tried(v) /\ InRun(v)' = InRun(v) /\ pc'[v] = pc[v]
        /\ known'[v] = known[v] /\ live'[v] = live[v]
    BY DEF OnlyBy, InRun, Tried, Past, Here
  <2>. QED BY <2>1, RunWholeKeeps
<1>. QED BY <1>1 DEF WholeInv, Grows

\* A step of w that goes past no place.
LEMMA WholeMoves ==
  ASSUME RunInv, WholeInv, NEW w \in Workers, OnlyBy(w), there' = there,
         faults' = faults \/ (faults' = faults + 1),
         row' = "completed" => row = "completed",
         InRun(w)' /\ live'[w] => live[w], live[w] => live'[w] \/ faults' = faults + 1,
         InRun(w)' => \/ Tried(w)' = {}
                      \/ /\ InRun(w) /\ Tried(w)' = Tried(w)
                         /\ pc'[w] \in Loop => pc[w] \in Loop /\ known'[w] = known[w]
  PROVE  WholeInv'
<1>1. Grows
  BY DEF Grows, WholeInv
<1>2. live[w] => live'[w] \/ faults' > 0
  BY DEF WholeInv
<1>3. RunWhole(w)'
  BY <1>1, <1>2, RunWholeKeeps
<1>4. RowWhole'
  BY <1>1, RowWholeGrows
<1>. QED BY <1>1, <1>3, <1>4, WholeOthers

\* Nothing but the API, the queue or a lock changes.
LEMMA WholeStays ==
  ASSUME RunInv, WholeInv, UNCHANGED <<worker, there>>,
         faults' = faults \/ faults' = faults + 1, row' = "completed" => row = "completed"
  PROVE  WholeInv'
<1>1. Grows
  BY DEF Grows, WholeInv
<1>2. ASSUME NEW w \in Workers PROVE RunWhole(w)'
  <2>1. Tried(w)' = Tried(w) /\ InRun(w)' = InRun(w) /\ UNCHANGED <<pc, live, known>>
    BY DEF worker, InRun, Tried, Past, Here
  <2>. QED BY <1>1, <2>1, RunWholeKeeps
<1>3. RowWhole'
  BY <1>1, RowWholeGrows
<1>. QED BY <1>1, <1>2, <1>3 DEF WholeInv, Grows

\* Behind a place at which c may stand, c is what the run has met there, if anything
\* for certain.
LEMMA TriedNext ==
  ASSUME RunInv, NEW w \in Workers, pc[w] \in {"importing", "inserting"}, NextItem(w),
         NEW c \in At(Here(w))
  PROVE  /\ pc[w] \in Loop /\ pc'[w] \in Loop
         /\ Tried(w)' \subseteq Tried(w) \cup {c}
         /\ c \in Tried(w)' => c \in Owed
<1>1. /\ Done(Here(w)') = Done(Here(w)) \cup {Here(w)}
      /\ pc[w] \in Loop /\ pc'[w] \in Loop
  BY NextItemOK DEF Loop
<1>2. Past(w)' = Past(w) \cup {Here(w)}
  <2>1. Past(w)' = Done(Here(w)')
    BY <1>1 DEF Past, Done, Places, Precedes
  <2>. QED BY <1>1, <2>1 DEF Past
<1>3. Tried(w)' = {r \in Owed : \E a \in Past(w)' : At(a) = {r}}
  BY DEF Tried, Owed, Places, At, Optional, Resources
<1>. QED BY <1>1, <1>2, <1>3 DEF Tried

\* A step of w past a place at which c may stand.
LEMMA WholeHandled ==
  ASSUME RunInv, WholeInv, Grows, NEW w \in Workers, OnlyBy(w), NEW c \in Resources,
         pc[w] \in Loop, pc'[w] \in Loop, live' = live, row' = row,
         Tried(w)' \subseteq Tried(w) \cup {c}, known[w] \subseteq known'[w],
         c \in Tried(w)' =>
           \/ c \in there' /\ (c \in Containers => c \in known'[w])
           \/ c \in DOMAIN Parent /\ faults > 0
           \/ faults' = faults + 1
           \/ ~live[w]
  PROVE  WholeInv'
<1>1. /\ faults \in Nat /\ faults' \in Nat /\ faults <= faults' /\ there \subseteq there'
      /\ InRun(w)
  BY DEF WholeInv, Grows, InRun
<1>2. ASSUME live[w]
      PROVE  IsFiniteSet(Failed(w)') /\ Cardinality(Failed(w)') <= faults'
  <2>1. IsFiniteSet(Failed(w)) /\ Cardinality(Failed(w)) <= faults
        /\ Cardinality(Failed(w)) \in Nat
    BY <1>1, <1>2, FS_CardinalityType DEF WholeInv, RunWhole
  <2>2. CASE c \notin Tried(w)' \/ c \in there' \/ c \in DOMAIN Parent
    <3>1. Failed(w)' \in SUBSET Failed(w)
      BY <1>1, <2>2 DEF Failed
    <3>. QED BY <1>1, <2>1, <3>1, Fewer
  <2>3. CASE faults' = faults + 1
    <3>1. Failed(w)' \in SUBSET (Failed(w) \cup {c})
      BY <1>1 DEF Failed
    <3>2. /\ IsFiniteSet(Failed(w) \cup {c})
          /\ \/ Cardinality(Failed(w) \cup {c}) = Cardinality(Failed(w))
             \/ Cardinality(Failed(w) \cup {c}) = Cardinality(Failed(w)) + 1
      BY <2>1, FS_AddElement
    <3>3. Cardinality(Failed(w) \cup {c}) <= faults'
      BY <1>1, <2>1, <2>3, <3>2
    <3>. QED BY <1>1, <3>1, <3>2, <3>3, Fewer
  <2>. QED BY <1>2, <2>2, <2>3
<1>3. ASSUME faults' = 0
      PROVE  /\ live[w] /\ Tried(w)' \subseteq there'
             /\ Tried(w)' \cap Containers \subseteq known'[w]
  <2>1. faults = 0
    BY <1>1, <1>3
  <2>2. /\ live[w] /\ Tried(w) \subseteq there
        /\ Tried(w) \cap Containers \subseteq known[w]
    BY <1>1, <2>1 DEF WholeInv, RunWhole
  <2>3. c \in Tried(w)' => c \in there' /\ (c \in Containers => c \in known'[w])
    BY <1>1, <1>3, <2>1, <2>2
  <2>. QED BY <1>1, <2>2, <2>3
<1>4. RunWhole(w)'
  BY <1>2, <1>3 DEF RunWhole
<1>5. RowWhole'
  BY RowWholeGrows
<1>. QED BY <1>4, <1>5, WholeOthers

\* The only write of "completed".
LEMMA WholeFinish ==
  ASSUME RunInv, WholeInv, NEW w \in Workers, Finish(w)
  PROVE  WholeInv'
<1>1. pc[w] = "finishing" /\ live[w] /\ row' = verdict[w] /\ pc' = [pc EXCEPT ![w] = "releasing"]
      /\ UNCHANGED <<live, page, item, verdict, known, there, faults>>
  BY DEF Finish, Goto, dest, bounds
<1>2. Grows
  BY <1>1 DEF Grows, WholeInv
<1>3. OnlyBy(w) /\ pc'[w] = "releasing"
  BY <1>1 DEF OnlyBy, RunInv, RunTypes
<1>4. RunWhole(w)'
  BY <1>1, <1>2, <1>3, RunWholeKeeps DEF InRun, Loop
<1>5. ASSUME verdict[w] = "completed" PROVE RowWhole'
  <2>1. InRun(w) /\ Tried(w) = Owed /\ faults \in Nat
    BY <1>1, <1>5 DEF InRun, WholeInv, Tried, Past, Loop, Owed
  <2>2. Failed(w) = Missing' \ DOMAIN Parent
    BY <1>1, <2>1 DEF Failed, Missing
  <2>3. IsFiniteSet(Failed(w)) /\ Cardinality(Failed(w)) <= faults
        /\ (faults = 0 => Owed \subseteq there)
    BY <1>1, <2>1 DEF WholeInv, RunWhole
  <2>4. Missing' # {} => faults' > 0
    BY <1>1, <2>1, <2>3 DEF Missing
  <2>. QED BY <1>1, <2>2, <2>3, <2>4 DEF RowWhole
<1>6. ASSUME verdict[w] # "completed" PROVE RowWhole'
  BY <1>1, <1>6 DEF RowWhole
<1>. QED BY <1>2, <1>3, <1>4, <1>5, <1>6, WholeOthers

\* A container stands at a place of its own before what goes into it; what a run
\* lacks of a table's columns it has tried.
LEMMA MetBefore ==
  ASSUME RunInv, NEW w \in Workers, pc[w] \in {"importing", "inserting"},
         NEW r \in At(Here(w)) \cap DOMAIN Parent
  PROVE  /\ Parent[r] \in Tried(w) \cap Containers
         /\ Lacking(w) \subseteq Tried(w) \ there
<1>1. Past(w) = Done(Here(w)) /\ Done(Here(w)) \subseteq Places
  BY DEF Past, Loop, Done
<1>2. PICK a \in Done(Here(w)) : At(a) = {Parent[r]}
  BY HereOK
<1>3. Parent[r] \in Containers
  BY DEF Containers
<1>4. Parent[r] \in Resources \ Optional
  BY <1>3, ResourcesAssumption DEF Resources
<1>5. Parent[r] \in Tried(w)
  BY <1>1, <1>2, <1>4 DEF Tried, Owed
<1>6. ASSUME NEW s \in Lacking(w) PROVE s \in Tried(w) \ there
  <2>1. s \in Columns /\ s \notin there /\ s \in Resources
        /\ \E b \in Places : At(b) = {s} /\ Precedes(b, Here(w))
    BY DEF Lacking, Behind
  <2>2. PICK b \in Done(Here(w)) : At(b) = {s}
    BY <2>1 DEF Done
  <2>3. s \in Resources \ Optional
    BY <2>1, ResourcesAssumption
  <2>. QED BY <1>1, <2>1, <2>2, <2>3 DEF Tried, Owed
<1>. QED BY <1>3, <1>5, <1>6

LEMMA WholeHandles ==
  ASSUME RunInv, WholeInv, NEW w \in Workers, Handles(w) \/ HandlesInVain(w)
  PROVE  WholeInv'
<1>1. /\ pc[w] \in {"importing", "inserting"} /\ NextItem(w) /\ UNCHANGED <<live, row>>
      /\ OnlyBy(w)
      /\ At(Here(w)) \in SUBSET Resources /\ At(Here(w)) # {}
      /\ At(Here(w)) \cap Files # {} => At(Here(w)) \subseteq Files
  BY HandlesOK, HereOK
<1>2. known[w] \subseteq known'[w]
  BY HandlesOK DEF RunInv, RunTypes, Know
<1>3. ASSUME NEW c \in At(Here(w)), Grows,
             c \in Owed =>
               \/ c \in there' /\ (c \in Containers => c \in known'[w])
               \/ c \in DOMAIN Parent /\ faults > 0
               \/ faults' = faults + 1
               \/ ~live[w]
      PROVE  WholeInv'
  BY <1>1, <1>2, <1>3, TriedNext, WholeHandled
<1>4. CASE SourceSkips(w)
  <2>1. there' = there /\ faults' = faults /\ At(Here(w)) \subseteq Files
    BY <1>4 DEF SourceSkips, dest, bounds
  <2>2. PICK c \in At(Here(w)) : c \notin Owed
    BY <1>1, <2>1 DEF Owed, Optional
  <2>. QED BY <1>3, <2>1, <2>2 DEF Grows, WholeInv
<1>5. CASE DestinationSkips(w)
  <2>1. there' = there /\ faults' = faults /\ At(Here(w)) \cap Optional # {}
    BY <1>5 DEF DestinationSkips, dest, bounds
  <2>2. PICK c \in At(Here(w)) : c \notin Owed
    BY <2>1 DEF Owed
  <2>. QED BY <1>3, <2>1, <2>2 DEF Grows, WholeInv
<1>6. CASE ImportOrphan(w)
  <2>1. there' = there /\ faults' = faults /\ \E r \in At(Here(w)) : ~HasParent(w, r)
    BY <1>6 DEF ImportOrphan, dest, bounds
  <2>2. PICK c \in At(Here(w)) : c \in DOMAIN Parent /\ Parent[c] \notin known[w]
    BY <2>1 DEF HasParent
  <2>3. Parent[c] \in Tried(w) \cap Containers
    BY <1>1, <2>2, MetBefore
  <2>4. faults > 0
    BY <1>1, <2>2, <2>3 DEF WholeInv, RunWhole, Loop
  <2>. QED BY <1>3, <2>1, <2>2, <2>4 DEF Grows, WholeInv
<1>7. CASE ImportRefused(w)
  <2>1. there' = there /\ faults' = faults
    BY <1>7 DEF ImportRefused, dest, bounds
  <2>2. PICK c \in At(Here(w)) \cap DOMAIN Parent : ~Fits(c) \/ Lacking(w) # {}
    BY <1>7 DEF ImportRefused
  <2>3. Parent[c] \in Tried(w) /\ Lacking(w) \subseteq Tried(w) \ there
    BY <1>1, MetBefore
  <2>4. ~(Tried(w) \subseteq there)
    BY <2>2, <2>3 DEF Fits
  <2>5. faults > 0
    BY <1>1, <2>4 DEF WholeInv, RunWhole, InRun, Loop
  <2>. QED BY <1>3, <2>1, <2>2, <2>5 DEF Grows, WholeInv
<1>8. CASE ImportRow(w)
  <2>1. PICK c \in At(Here(w)) : there' = there \cup {c} /\ Know(w, c)
    BY <1>8 DEF ImportRow, Insert
  <2>2. faults' = faults
    BY <1>8 DEF ImportRow, bounds
  <2>3. c \in Containers => c \in known'[w]
    BY <2>1 DEF Know, RunInv, RunTypes
  <2>4. Grows
    BY <1>1, <2>1, <2>2 DEF Grows, WholeInv
  <2>. QED BY <1>3, <2>1, <2>3, <2>4
<1>9. CASE InsertFile(w)
  <2>1. PICK c \in At(Here(w)) : there' = there \cup {c}
    BY <1>9 DEF InsertFile, Insert
  <2>2. faults' = faults /\ pc[w] = "inserting"
    BY <1>9 DEF InsertFile, bounds
  <2>3. c \notin Owed
    BY <2>2 DEF RunInv, RunOK, Owed, Optional
  <2>4. Grows
    BY <1>1, <2>1, <2>2 DEF Grows, WholeInv
  <2>. QED BY <1>3, <2>1, <2>3, <2>4
<1>10. CASE ImportFails(w)
  <2>1. there' = there /\ faults' = faults + 1
    BY <1>10 DEF ImportFails, Fault, OneFault
  <2>. QED BY <1>1, <1>3, <2>1 DEF Grows, WholeInv
<1>11. CASE InsertFileFails(w)
  <2>1. there' = there /\ (faults' = faults \/ faults' = faults + 1) /\ pc[w] = "inserting"
    BY <1>11 DEF InsertFileFails, Fault, OneFault, bounds
  <2>2. PICK c \in At(Here(w)) : c \notin Owed
    BY <1>1, <2>1 DEF RunInv, RunOK, Owed, Optional
  <2>. QED BY <1>3, <2>1, <2>2 DEF Grows, WholeInv
<1>. QED BY <1>4, <1>5, <1>6, <1>7, <1>8, <1>9, <1>10, <1>11 DEF Handles, HandlesInVain

LEMMA WholeWorker ==
  ASSUME RunInv, WholeInv, NEW w \in Workers, WorkerStep(w)
  PROVE  WholeInv'
<1>0. RunTypes /\ RunOK(w)
  BY DEF RunInv
<1>1. ASSUME NEW place \in PC \ (Loop \cup {"finishing"}), Goto(w, place),
             UNCHANGED <<live, page, item, verdict, known, row, there, faults>>
      PROVE  WholeInv'
  <2>1. OnlyBy(w) /\ pc'[w] = place
    BY <1>0, <1>1 DEF OnlyBy, Goto, RunTypes
  <2>2. ~InRun(w)'
    BY <2>1 DEF InRun
  <2>. QED BY <1>1, <2>1, <2>2, WholeMoves
<1>2. CASE Take(w) \/ Lock(w) \/ Release(w)
  <2>1. /\ \/ Goto(w, "locking") \/ Goto(w, "checking") \/ Goto(w, "acking")
           \/ Goto(w, "nacking")
        /\ UNCHANGED <<live, page, item, verdict, known, row, there, faults>>
    BY <1>2 DEF Take, Lock, Release, job, dest, bounds
  <2>. QED BY <1>1, <2>1 DEF PC, Loop
<1>3. CASE Check(w)
  <2>1. /\ Goto(w, "releasing") \/ Goto(w, "marking")
        /\ UNCHANGED <<live, page, item, verdict, known, row, there, faults>>
    BY <1>3 DEF Check, job, dest, bounds
  <2>. QED BY <1>1, <2>1 DEF PC, Loop
<1>4. CASE BuildFails(w)
  <2>1. /\ pc' = [pc EXCEPT ![w] = "finishing"] /\ verdict' = [verdict EXCEPT ![w] = "failed"]
        /\ UNCHANGED <<live, page, item, known, row, there, faults>>
    BY <1>4 DEF BuildFails, Goto, job, dest, bounds
  <2>2. OnlyBy(w) /\ ~InRun(w)'
    BY <1>0, <2>1 DEF OnlyBy, RunTypes, InRun, Loop
  <2>. QED BY <2>1, <2>2, WholeMoves
<1>5. CASE MarkRunning(w)
  <2>1. /\ OnlyBy(w) /\ Done(Here(w)') = {} /\ pc'[w] = "paging" /\ row' = "running"
        /\ UNCHANGED <<live, there, faults>>
    BY <1>5, RunMark DEF MarkRunning, dest, bounds
  <2>2. Past(w)' = {}
    BY <2>1 DEF Past, Loop, Done, Places, Precedes
  <2>3. Tried(w)' = {}
    BY <2>2 DEF Tried
  <2>. QED BY <2>1, <2>3, WholeMoves
<1>6. CASE Page(w)
  <2>1. /\ pc[w] \in Loop /\ InRun(w) /\ UNCHANGED <<live, row, there, faults>>
    BY <1>6 DEF Page, InRun, Loop, job, dest, bounds
  <2>2. /\ OnlyBy(w)
        /\ pc'[w] = "finishing" /\ verdict'[w] = "completed" => Done(Here(w)) = Places
        /\ pc'[w] \in Loop => Here(w)' = Here(w) /\ known'[w] = known[w]
    BY <1>6, RunPage
  <2>3. ASSUME InRun(w)' PROVE Past(w)' = Past(w)
    <3>1. CASE pc'[w] \in Loop
      BY <2>1, <2>2, <3>1 DEF Past
    <3>2. CASE pc'[w] \notin Loop
      <4>1. Done(Here(w)) = Places
        BY <2>2, <2>3, <3>2 DEF InRun
      <4>. QED BY <2>1, <3>2, <4>1 DEF Past
    <3>. QED BY <3>1, <3>2
  <2>4. InRun(w)' => Tried(w)' = Tried(w)
    BY <2>3 DEF Tried
  <2>. QED BY <2>1, <2>2, <2>4, WholeMoves
<1>7. CASE Interrupted(w)
  <2>1. OnlyBy(w) /\ pc'[w] = "releasing" /\ UNCHANGED <<live, row, there, faults>>
    BY <1>7, RunConclude DEF Interrupted, job, dest, bounds
  <2>2. ~InRun(w)'
    BY <2>1 DEF InRun, Loop
  <2>. QED BY <2>1, <2>2, WholeMoves
<1>8. CASE Handles(w)
  BY <1>8, WholeHandles
<1>9. CASE WriteObject(w)
  <2>1. /\ pc[w] \in Loop /\ UNCHANGED <<live, page, item, verdict, known, row, there, faults>>
        /\ pc' = [pc EXCEPT ![w] = "inserting"]
    BY <1>9 DEF WriteObject, Goto, Loop, job, bounds
  <2>2. OnlyBy(w) /\ pc'[w] \in Loop
    BY <1>0, <2>1 DEF OnlyBy, RunTypes, Loop
  <2>3. Tried(w)' = Tried(w) /\ InRun(w)
    BY <2>1, <2>2 DEF Tried, Past, Here, InRun
  <2>. QED BY <2>1, <2>2, <2>3, WholeMoves
<1>10. CASE Finish(w)
  BY <1>10, WholeFinish
<1>11. CASE AckJob(w) \/ NackJob(w)
  <2>1. OnlyBy(w) /\ pc'[w] = "idle" /\ live'[w] /\ UNCHANGED <<row, there, faults>>
    BY <1>11, RunReset DEF AckJob, NackJob, job, dest, bounds
  <2>2. ~InRun(w)'
    BY <2>1 DEF InRun, Loop
  <2>. QED BY <2>1, <2>2, WholeMoves
<1>. QED BY <1>2, <1>3, <1>4, <1>5, <1>6, <1>7, <1>8, <1>9, <1>10, <1>11
         DEF WorkerStep, Handles

LEMMA WholeFault ==
  ASSUME RunInv, WholeInv, NEW w \in Workers, FaultStep(w)
  PROVE  WholeInv'
<1>0. RunTypes /\ RunOK(w)
  BY DEF RunInv
<1>1. CASE StartFails(w) \/ FinishFails(w)
  <2>1. /\ pc' = [pc EXCEPT ![w] = "releasing"] /\ verdict' = [verdict EXCEPT ![w] = "error"]
        /\ UNCHANGED <<live, page, item, known, row, there>>
        /\ faults' = faults \/ faults' = faults + 1
    BY <1>1 DEF StartFails, FinishFails, Goto, job, dest, bounds, Fault, OneFault
  <2>2. OnlyBy(w) /\ ~InRun(w)'
    BY <1>0, <2>1 DEF OnlyBy, RunTypes, InRun, Loop
  <2>. QED BY <2>1, <2>2, WholeMoves
<1>2. CASE HandlesInVain(w)
  BY <1>2, WholeHandles
<1>3. CASE Shutdown(w)
  <2>1. /\ live' = [live EXCEPT ![w] = FALSE] /\ faults' = faults + 1
        /\ UNCHANGED <<pc, page, item, verdict, known, row, there>>
    BY <1>3 DEF Shutdown, job, dest, Fault, OneFault
  <2>2. OnlyBy(w) /\ ~live'[w] /\ InRun(w)' = InRun(w)
    BY <1>0, <2>1 DEF OnlyBy, RunTypes, InRun
  <2>3. Tried(w)' = Tried(w) /\ pc' = pc /\ known' = known
    BY <2>1 DEF Tried, Past, Here
  <2>. QED BY <2>1, <2>2, <2>3, WholeMoves
<1>4. CASE Crash(w)
  <2>1. OnlyBy(w) /\ pc'[w] = "idle" /\ live'[w] /\ UNCHANGED <<row, there>>
        /\ faults' = faults + 1
    BY <1>4, RunReset DEF Crash, job, dest, Fault, OneFault
  <2>2. ~InRun(w)'
    BY <2>1 DEF InRun, Loop
  <2>. QED BY <2>1, <2>2, WholeMoves
<1>5. CASE LoseSession(w)
  BY <1>5, WholeStays DEF LoseSession, job, dest, OneFault
<1>. QED BY <1>1, <1>2, <1>3, <1>4, <1>5 DEF FaultStep, HandlesInVain

LEMMA WholeStep == RunInv /\ WholeInv /\ [Next]_vars => WholeInv'
<1>. SUFFICES ASSUME RunInv, WholeInv, [Next]_vars PROVE WholeInv'
  OBVIOUS
<1>1. CASE Create \/ CreateFails \/ Cancel \/ ReapDead \/ ReapLive \/ UNCHANGED vars
  <2>1. /\ UNCHANGED <<worker, there>>
        /\ faults' = faults \/ faults' = faults + 1
        /\ row' = "completed" => row = "completed"
    BY <1>1 DEF Create, CreateFails, Cancel, ReapDead, ReapLive, vars, job, dest, bounds,
                Fault, OneFault
  <2>. QED BY <2>1, WholeStays
<1>2. CASE \E w \in Workers : WorkerStep(w) \/ FaultStep(w)
  BY <1>2, WholeWorker, WholeFault
<1>. QED BY <1>1, <1>2 DEF Next

LEMMA WholeInit == Init => WholeInv
<1>. SUFFICES ASSUME Init PROVE WholeInv
  OBVIOUS
<1>1. there = {} /\ faults = 0 /\ row = "none"
  BY DEF Init
<1>2. \A w \in Workers : ~InRun(w) /\ live[w] /\ pc[w] \notin Loop
  BY DEF Init, InRun, Loop
<1>. QED BY <1>1, <1>2 DEF WholeInv, RunWhole, RowWhole

\* Whatever the source has, however its export is cut into batches and however
\* many workers are given the job: a migration that is reported completed lacks
\* only what its run tried in vain of what the export lists for certain, at the
\* cost of a fault each, or what hangs on something that failed (transfer.go: Run,
\* emit; dest_applad.go: Import; service.go: RunJob).
THEOREM CompletedIsWholeTheorem == Spec => []CompletedIsWhole
<1>1. RunInv /\ WholeInv => CompletedIsWhole
  BY DEF CompletedIsWhole, WholeInv, RowWhole, Missing
<1>. QED BY <1>1, RunInit, RunStep, WholeInit, WholeStep, PTL DEF Spec

-----------------------------------------------------------------------------
(* Who may still import one more copy.                                     *)

Bit(b) == IF b THEN 1 ELSE 0

\* A run that is going to pass the place a, once.
Owes(w, a) ==
  \/ pc[w] = "marking"
  \/ pc[w] \in Loop /\ a \notin Done(Here(w))
  \/ w \in severed /\ pc[w] = "checking"

\* A run without the lock that is going to put the row back to running.
Loose(w) == w \in severed /\ pc[w] \in {"checking", "marking"}

\* A further run is to be expected: the migration is not over, or it is being
\* run by a worker whose context is dead.
Restart ==
  \/ lock = None /\ row \notin Terminal
  \/ lock # None /\ pc[lock] \in {"checking", "releasing"} /\ row \notin Terminal
  \/ /\ lock # None /\ ~live[lock]
     /\ pc[lock] \in Loop \cup {"marking", "finishing"}

Owing(a) == {w \in Workers : Owes(w, a)}
Loosened == {w \in Workers : Loose(w)}

CopiesInv ==
  /\ copies \in [Places -> Nat] /\ faults \in Nat /\ lost \in Nat
  /\ IsFiniteSet(Loosened)
  /\ \A a \in Places :
       /\ IsFiniteSet(Owing(a))
       /\ copies[a] + Cardinality(Owing(a)) + Cardinality(Loosened) + Bit(Restart)
            <= 1 + faults + lost

\* A step that changes the state of one worker only.
Apart(w) == OnlyBy(w) /\ \A v \in Workers \ {w} : v \in severed' <=> v \in severed

LEMMA StepApart ==
  ASSUME RunInv, NEW w \in Workers, WorkerStep(w) \/ FaultStep(w)
  PROVE  Apart(w)
<1>0. RunTypes
  BY DEF RunInv
<1>1. ASSUME NEW place \in PC, Goto(w, place), UNCHANGED <<live, page, item, known>>,
             \/ verdict' = verdict
             \/ \E v \in Terminal \cup {"error"} : verdict' = [verdict EXCEPT ![w] = v]
      PROVE  OnlyBy(w)
  BY <1>0, <1>1 DEF RunTypes, OnlyBy, Goto
<1>2. OnlyBy(w)
  <2>1. CASE Take(w) \/ Lock(w) \/ Check(w) \/ BuildFails(w) \/ WriteObject(w)
             \/ Finish(w) \/ Release(w) \/ StartFails(w) \/ FinishFails(w)
    <3>1. /\ \E place \in PC : Goto(w, place)
          /\ UNCHANGED <<live, page, item, known>>
          /\ \/ verdict' = verdict
             \/ \E v \in Terminal \cup {"error"} : verdict' = [verdict EXCEPT ![w] = v]
      BY <2>1 DEF Take, Lock, Check, BuildFails, WriteObject, Finish, Release, StartFails,
                  FinishFails, PC, Terminal
    <3>. QED BY <1>1, <3>1
  <2>2. CASE MarkRunning(w)
    BY <2>2, RunMark
  <2>3. CASE Page(w)
    BY <2>3, RunPage
  <2>4. CASE Interrupted(w)
    BY <2>4, RunConclude DEF Interrupted
  <2>5. CASE Handles(w) \/ HandlesInVain(w)
    BY <2>5, HandlesOK
  <2>6. CASE AckJob(w) \/ NackJob(w) \/ Crash(w)
    BY <2>6, RunReset DEF AckJob, NackJob, Crash
  <2>7. CASE Shutdown(w)
    BY <1>0, <2>7 DEF Shutdown, OnlyBy, RunTypes
  <2>8. CASE LoseSession(w)
    BY <2>8 DEF LoseSession, worker, OnlyBy
  <2>. QED BY <2>1, <2>2, <2>3, <2>4, <2>5, <2>6, <2>7, <2>8
           DEF WorkerStep, FaultStep, Handles, HandlesInVain
<1>3. \/ severed' = severed \/ severed' = severed \ {w} \/ severed' = severed \cup {w}
  <2>1. CASE Handles(w) \/ HandlesInVain(w)
    BY <2>1, HandlesOK DEF locks
  <2>2. CASE Release(w) \/ Crash(w) \/ LoseSession(w)
    BY <2>2 DEF Release, Crash, LoseSession, EndSession
  <2>3. CASE \/ Take(w) \/ Lock(w) \/ Check(w) \/ BuildFails(w) \/ WriteObject(w)
             \/ Finish(w) \/ StartFails(w) \/ FinishFails(w) \/ MarkRunning(w) \/ Page(w)
             \/ Interrupted(w) \/ AckJob(w) \/ NackJob(w) \/ Shutdown(w)
    BY <2>3 DEF Take, Lock, Check, BuildFails, WriteObject, Finish, StartFails, FinishFails,
                MarkRunning, Page, Interrupted, AckJob, NackJob, Shutdown, locks
  <2>. QED BY <2>1, <2>2, <2>3 DEF WorkerStep, FaultStep, Handles, HandlesInVain
<1>. QED BY <1>2, <1>3 DEF Apart

LEMMA BitType == ASSUME NEW b PROVE Bit(b) \in {0, 1}
BY DEF Bit

\* A set that differs in w only.
LEMMA OneChanges ==
  ASSUME NEW S, NEW T, NEW w, IsFiniteSet(S), T \ {w} \subseteq S
  PROVE  /\ IsFiniteSet(T) /\ Cardinality(S) \in Nat /\ Cardinality(T) \in Nat
         /\ Cardinality(T) + Bit(w \in S) <= Cardinality(S) + Bit(w \in T)
<1>1. /\ IsFiniteSet(S \ {w})
      /\ Cardinality(S \ {w}) = Cardinality(S) - Bit(w \in S)
  <2>1. CASE w \in S
    BY <2>1, FS_RemoveElement DEF Bit
  <2>2. CASE w \notin S
    <3>1. S \ {w} = S /\ Cardinality(S) \in Nat
      BY <2>2, FS_CardinalityType
    <3>2. IsFiniteSet(S \ {w}) /\ Cardinality(S \ {w}) = Cardinality(S)
      BY <3>1
    <3>3. Bit(w \in S) = 0
      BY <2>2 DEF Bit
    <3>. QED BY <3>1, <3>2, <3>3
  <2>. QED BY <2>1, <2>2
<1>2. T \ {w} \in SUBSET (S \ {w})
  OBVIOUS
<1>3. IsFiniteSet(T \ {w}) /\ Cardinality(T \ {w}) <= Cardinality(S \ {w})
  BY <1>1, <1>2, FS_Subset
<1>4. IsFiniteSet((T \ {w}) \cup {w})
      /\ Cardinality((T \ {w}) \cup {w}) = Cardinality(T \ {w}) + 1
  BY <1>3, FS_AddElement
<1>5. IsFiniteSet(T) /\ Cardinality(T) = Cardinality(T \ {w}) + Bit(w \in T)
  <2>1. CASE w \in T
    <3>1. T = (T \ {w}) \cup {w}
      BY <2>1
    <3>. QED BY <2>1, <3>1, <1>4 DEF Bit
  <2>2. CASE w \notin T
    <3>1. T = T \ {w}
      BY <2>2
    <3>2. Cardinality(T) \in Nat
      BY <3>1, <1>3, FS_CardinalityType
    <3>. QED BY <2>2, <3>1, <3>2, <1>3 DEF Bit
  <2>. QED BY <2>1, <2>2
<1>6. Cardinality(S) \in Nat /\ Cardinality(T) \in Nat /\ Cardinality(S \ {w}) \in Nat
      /\ Cardinality(T \ {w}) \in Nat
  BY <1>1, <1>3, <1>5, FS_CardinalityType
<1>7. Bit(w \in S) \in {0, 1} /\ Bit(w \in T) \in {0, 1}
  BY BitType
<1>. QED BY <1>1, <1>3, <1>5, <1>6, <1>7

\* The steps of a worker, by what they gain and what they pay.
LEMMA CopiesBy ==
  ASSUME CopiesInv, NEW w \in Workers,
         Apart(w),
         copies' \in [Places -> Nat], faults' \in Nat, lost' \in Nat,
         \A a \in Places :
           copies'[a] + Bit(Owes(w, a)') + Bit(Loose(w)') + Bit(Restart') + faults + lost
             <= copies[a] + Bit(Owes(w, a)) + Bit(Loose(w)) + Bit(Restart) + faults' + lost'
  PROVE  CopiesInv'
<1>1. Loosened' \ {w} \subseteq Loosened /\ (w \in Loosened <=> Loose(w))
      /\ (w \in Loosened' <=> Loose(w)')
  BY DEF Loosened, Loose, Apart, OnlyBy
<1>2. /\ IsFiniteSet(Loosened') /\ Cardinality(Loosened) \in Nat /\ Cardinality(Loosened') \in Nat
      /\ Cardinality(Loosened') + Bit(w \in Loosened) <= Cardinality(Loosened) + Bit(w \in Loosened')
  BY <1>1, OneChanges DEF CopiesInv
<1>3. Bit(w \in Loosened) = Bit(Loose(w)) /\ Bit(w \in Loosened') = Bit(Loose(w)')
  BY <1>1 DEF Bit
<1>4. ASSUME NEW a \in Places
      PROVE  /\ IsFiniteSet(Owing(a)')
             /\ copies'[a] + Cardinality(Owing(a)') + Cardinality(Loosened') + Bit(Restart')
                  <= 1 + faults' + lost'
  <2>1. Owing(a)' \ {w} \subseteq Owing(a) /\ (w \in Owing(a) <=> Owes(w, a))
        /\ (w \in Owing(a)' <=> Owes(w, a)')
    BY DEF Owing, Owes, Apart, OnlyBy, Here
  <2>2. /\ IsFiniteSet(Owing(a)') /\ Cardinality(Owing(a)) \in Nat /\ Cardinality(Owing(a)') \in Nat
        /\ Cardinality(Owing(a)') + Bit(w \in Owing(a)) <= Cardinality(Owing(a)) + Bit(w \in Owing(a)')
    BY <2>1, OneChanges DEF CopiesInv
  <2>3. Bit(w \in Owing(a)) = Bit(Owes(w, a)) /\ Bit(w \in Owing(a)') = Bit(Owes(w, a)')
    BY <2>1 DEF Bit
  <2>4. /\ copies[a] + Cardinality(Owing(a)) + Cardinality(Loosened) + Bit(Restart)
             <= 1 + faults + lost
        /\ faults \in Nat /\ lost \in Nat /\ copies[a] \in Nat /\ copies'[a] \in Nat
    BY DEF CopiesInv
  <2>5. /\ Bit(Owes(w, a)) \in {0, 1} /\ Bit(Owes(w, a)') \in {0, 1} /\ Bit(Loose(w)) \in {0, 1}
        /\ Bit(Loose(w)') \in {0, 1} /\ Bit(Restart) \in {0, 1} /\ Bit(Restart') \in {0, 1}
    BY BitType
  <2>. QED BY <1>2, <1>3, <2>2, <2>3, <2>4, <2>5
<1>. QED BY <1>2, <1>4 DEF CopiesInv

\* A step that pays for what it gains, if it gains anything.
LEMMA CopiesFree ==
  ASSUME CopiesInv, NEW w \in Workers, Apart(w), copies' = copies, lost' = lost,
         \/ faults' = faults /\ (Restart' => Restart)
         \/ faults' = faults + 1,
         \A a \in Places : Owes(w, a)' => Owes(w, a),
         Loose(w)' => Loose(w)
  PROVE  CopiesInv'
<1>1. /\ copies \in [Places -> Nat] /\ faults \in Nat /\ lost \in Nat
      /\ faults' \in Nat /\ lost' \in Nat
  BY DEF CopiesInv
<1>2. ASSUME NEW a \in Places
      PROVE  copies'[a] + Bit(Owes(w, a)') + Bit(Loose(w)') + Bit(Restart') + faults + lost
               <= copies[a] + Bit(Owes(w, a)) + Bit(Loose(w)) + Bit(Restart) + faults' + lost'
  <2>1. Bit(Owes(w, a)') \in Nat /\ Bit(Owes(w, a)) \in Nat
        /\ Bit(Owes(w, a)') <= Bit(Owes(w, a))
    BY DEF Bit
  <2>2. Bit(Loose(w)') \in Nat /\ Bit(Loose(w)) \in Nat /\ Bit(Loose(w)') <= Bit(Loose(w))
    BY DEF Bit
  <2>3. Bit(Restart') \in Nat /\ Bit(Restart) \in Nat
        /\ Bit(Restart') + faults <= Bit(Restart) + faults'
    <3>1. Bit(Restart') \in {0, 1} /\ Bit(Restart) \in {0, 1}
      BY BitType
    <3>2. CASE faults' = faults + 1
      BY <1>1, <3>1, <3>2
    <3>3. CASE faults' = faults /\ (Restart' => Restart)
      <4>1. Bit(Restart') <= Bit(Restart)
        BY <3>3 DEF Bit
      <4>. QED BY <1>1, <3>1, <3>3, <4>1
    <3>. QED BY <3>2, <3>3
  <2>. QED BY <1>1, <2>1, <2>2, <2>3
<1>. QED BY <1>1, <1>2, CopiesBy

LEMMA CopiesStay ==
  ASSUME CopiesInv, UNCHANGED <<pc, live, page, item, locks, copies, lost>>,
         row' \in Terminal \/ row' = row \/ row \notin Terminal,
         faults' = faults \/ faults' = faults + 1
  PROVE  CopiesInv'
<1>1. /\ Loosened' = Loosened /\ \A a \in Places : Owing(a)' = Owing(a)
      /\ Restart' => Restart
  BY DEF Loosened, Loose, Owing, Owes, Here, Restart, locks
<1>2. Bit(Restart') <= Bit(Restart) /\ Bit(Restart') \in Nat /\ Bit(Restart) \in Nat
  BY <1>1 DEF Bit
<1>3. ASSUME NEW a \in Places
      PROVE  /\ IsFiniteSet(Owing(a)')
             /\ copies'[a] + Cardinality(Owing(a)') + Cardinality(Loosened') + Bit(Restart')
                  <= 1 + faults' + lost'
  <2>1. /\ copies[a] + Cardinality(Owing(a)) + Cardinality(Loosened) + Bit(Restart)
             <= 1 + faults + lost
        /\ faults \in Nat /\ lost \in Nat /\ copies[a] \in Nat
        /\ IsFiniteSet(Owing(a)) /\ IsFiniteSet(Loosened)
    BY DEF CopiesInv
  <2>2. Cardinality(Owing(a)) \in Nat /\ Cardinality(Loosened) \in Nat
    BY <2>1, FS_CardinalityType
  <2>. QED BY <1>1, <1>2, <2>1, <2>2
<1>. QED BY <1>1, <1>3 DEF CopiesInv

LEMMA CopiesLock ==
  ASSUME Inv, RunInv, CopiesInv, NEW w \in Workers, Apart(w), Lock(w)
  PROVE  CopiesInv'
<1>1. /\ pc[w] = "locking" /\ live' = live /\ row' = row
      /\ severed' = severed /\ UNCHANGED <<copies, faults, lost>>
      /\ Goto(w, "checking") \/ Goto(w, "acking")
  BY DEF Lock, job, dest, bounds
<1>2. w \notin severed /\ lock # w
  BY <1>1 DEF Inv, SeveredInside, OneImporter, Inside
<1>3. pc'[w] \in {"checking", "acking"} /\ \A v \in Workers \ {w} : pc'[v] = pc[v]
  BY <1>1 DEF Goto, RunInv, RunTypes
<1>4. (\A a \in Places : ~Owes(w, a)') /\ ~Loose(w)'
  BY <1>1, <1>2, <1>3 DEF Owes, Loose, Loop
<1>5. Restart' => Restart
  <2>1. CASE lock = None
    <3>1. lock' = w /\ pc'[w] = "checking"
      BY <2>1 DEF Lock, Goto, RunInv, RunTypes
    <3>. QED BY <1>1, <2>1, <3>1 DEF Restart, Loop
  <2>2. CASE lock # None
    <3>1. lock' = lock /\ lock \in Workers \ {w}
      BY <1>2, <2>2 DEF Lock, Inv, LockTypeOK
    <3>. QED BY <1>1, <1>3, <3>1 DEF Restart
  <2>. QED BY <2>1, <2>2
<1>. QED BY <1>1, <1>4, <1>5, CopiesFree

\* The run begins with a promise to import everything once.
LEMMA CopiesCheck ==
  ASSUME Inv, RunInv, CopiesInv, NEW w \in Workers, Apart(w), Check(w)
  PROVE  CopiesInv'
<1>1. /\ pc[w] = "checking" /\ live[w] /\ live' = live /\ row' = row
      /\ lock' = lock /\ severed' = severed /\ UNCHANGED <<copies, faults, lost>>
  BY DEF Check, job, dest, bounds, locks, RunInv, RunOK
<1>2. /\ pc'[w] = (IF row \in Terminal THEN "releasing" ELSE "marking")
      /\ \A v \in Workers \ {w} : pc'[v] = pc[v]
  BY DEF Check, Goto, RunInv, RunTypes
<1>3. lock = w <=> w \notin severed
  BY <1>1 DEF Inv, OneImporter, Inside
<1>4. lock \in Workers \cup {None} /\ None \notin Workers
  BY NobodyAssumption DEF Inv, LockTypeOK
<1>5. CASE w \in severed
  <2>1. Restart' => Restart
    BY <1>1, <1>2, <1>3, <1>4, <1>5 DEF Restart
  <2>2. (\A a \in Places : Owes(w, a)) /\ Loose(w)
    BY <1>1, <1>5 DEF Owes, Loose
  <2>. QED BY <1>1, <2>1, <2>2, CopiesFree
<1>6. CASE w \notin severed /\ row \in Terminal
  <2>1. Restart' => Restart
    BY <1>1, <1>2, <1>3, <1>4, <1>6 DEF Restart, Loop
  <2>2. (\A a \in Places : ~Owes(w, a)') /\ ~Loose(w)'
    BY <1>1, <1>2, <1>6 DEF Owes, Loose, Loop
  <2>. QED BY <1>1, <2>1, <2>2, CopiesFree
<1>7. CASE w \notin severed /\ row \notin Terminal
  <2>1. Restart /\ ~Restart'
    BY <1>1, <1>2, <1>3, <1>4, <1>7 DEF Restart, Loop
  <2>2. (\A a \in Places : ~Owes(w, a)) /\ ~Loose(w) /\ ~Loose(w)'
    BY <1>1, <1>7 DEF Owes, Loose, Loop
  <2>3. ASSUME NEW a \in Places
        PROVE  copies'[a] + Bit(Owes(w, a)') + Bit(Loose(w)') + Bit(Restart') + faults + lost
                 <= copies[a] + Bit(Owes(w, a)) + Bit(Loose(w)) + Bit(Restart) + faults' + lost'
    <3>1. /\ Bit(Owes(w, a)) = 0 /\ Bit(Loose(w)) = 0 /\ Bit(Loose(w)') = 0
          /\ Bit(Restart) = 1 /\ Bit(Restart') = 0 /\ Bit(Owes(w, a)') \in {0, 1}
      BY <2>1, <2>2 DEF Bit
    <3>2. copies'[a] = copies[a] /\ copies[a] \in Nat /\ faults' = faults /\ lost' = lost
          /\ faults \in Nat /\ lost \in Nat
      BY <1>1 DEF CopiesInv
    <3>. QED BY <3>1, <3>2
  <2>. QED BY <1>1, <2>3, CopiesBy DEF CopiesInv
<1>. QED BY <1>5, <1>6, <1>7

\* A run without the lock that puts the row back to running.
LEMMA CopiesMark ==
  ASSUME Inv, RunInv, CopiesInv, NEW w \in Workers, Apart(w), MarkRunning(w)
  PROVE  CopiesInv'
<1>1. /\ pc[w] = "marking" /\ live' = live /\ row' = "running"
      /\ lock' = lock /\ severed' = severed /\ UNCHANGED <<copies, faults, lost>>
      /\ pc'[w] = "paging" /\ \A v \in Workers \ {w} : pc'[v] = pc[v]
  BY DEF MarkRunning, dest, bounds, locks, RunInv, RunTypes, Goto
<1>2. lock = w <=> w \notin severed
  BY <1>1 DEF Inv, OneImporter, Inside
<1>3. (\A a \in Places : Owes(w, a)) /\ ~Loose(w)'
  BY <1>1 DEF Owes, Loose
<1>4. CASE w \notin severed
  <2>1. Restart' => Restart
    BY <1>1, <1>2, <1>4, NobodyAssumption DEF Restart, Loop
  <2>. QED BY <1>1, <1>3, <2>1, CopiesFree
<1>5. CASE w \in severed
  <2>1. Loose(w)
    BY <1>1, <1>5 DEF Loose
  <2>2. ASSUME NEW a \in Places
        PROVE  copies'[a] + Bit(Owes(w, a)') + Bit(Loose(w)') + Bit(Restart') + faults + lost
                 <= copies[a] + Bit(Owes(w, a)) + Bit(Loose(w)) + Bit(Restart) + faults' + lost'
    <3>1. Bit(Owes(w, a)) = 1 /\ Bit(Loose(w)) = 1 /\ Bit(Loose(w)') = 0
      BY <1>3, <2>1 DEF Bit
    <3>2. copies'[a] = copies[a] /\ copies[a] \in Nat /\ faults' = faults /\ lost' = lost
          /\ faults \in Nat /\ lost \in Nat
      BY <1>1 DEF CopiesInv
    <3>3. /\ Bit(Owes(w, a)') \in {0, 1} /\ Bit(Restart) \in {0, 1} /\ Bit(Restart') \in {0, 1}
      BY BitType
    <3>. QED BY <3>1, <3>2, <3>3
  <2>. QED BY <1>1, <2>2, CopiesBy DEF CopiesInv
<1>. QED BY <1>4, <1>5

\* A place is passed; only a row with a new id is one more copy.
LEMMA CopiesHandled ==
  ASSUME Inv, RunInv, CopiesInv, NEW w \in Workers, Apart(w),
         pc[w] \in {"importing", "inserting"}, NextItem(w),
         UNCHANGED <<live, row, locks>>, lost' = lost,
         \/ copies' = copies /\ faults' \in {faults, faults + 1}
         \/ copies' = [copies EXCEPT ![Here(w)] = @ + 1] /\ faults' = faults
  PROVE  CopiesInv'
<1>1. /\ Here(w) \in Places /\ Here(w) \notin Done(Here(w))
      /\ Done(Here(w)') = Done(Here(w)) \cup {Here(w)}
      /\ pc'[w] \in {"paging", "importing"}
  BY NextItemOK
<1>2. lock \in Workers \cup {None} /\ lock' = lock
  BY DEF Inv, LockTypeOK, locks
<1>3. Restart' => Restart
  BY <1>1, <1>2 DEF Restart, Loop, Apart, OnlyBy
<1>4. ASSUME NEW a \in Places
      PROVE  /\ Owes(w, a)' <=> a \notin Done(Here(w)) \cup {Here(w)}
             /\ Owes(w, a) <=> a \notin Done(Here(w))
  <2>1. Owes(w, a)' <=> a \notin Done(Here(w)')
    BY <1>1 DEF Owes, Loop, Done, Places, Precedes
  <2>. QED BY <1>1, <2>1 DEF Owes, Loop
<1>5. ~Loose(w)'
  BY <1>1 DEF Loose
<1>6. copies \in [Places -> Nat] /\ faults \in Nat /\ lost \in Nat
  BY DEF CopiesInv
<1>7. CASE copies' = copies
  BY <1>3, <1>4, <1>5, <1>6, <1>7, CopiesFree
<1>8. CASE copies' = [copies EXCEPT ![Here(w)] = @ + 1] /\ faults' = faults
  <2>1. /\ copies' \in [Places -> Nat]
        /\ \A a \in Places : copies'[a] = (IF a = Here(w) THEN copies[a] + 1 ELSE copies[a])
    BY <1>1, <1>6, <1>8
  <2>2. ASSUME NEW a \in Places
        PROVE  copies'[a] + Bit(Owes(w, a)') + Bit(Loose(w)') + Bit(Restart') + faults + lost
                 <= copies[a] + Bit(Owes(w, a)) + Bit(Loose(w)) + Bit(Restart) + faults' + lost'
    <3>1. copies'[a] \in Nat /\ copies[a] \in Nat /\ Bit(Loose(w)') = 0 /\ Bit(Loose(w)) \in {0, 1}
          /\ Bit(Restart') \in {0, 1} /\ Bit(Restart) \in {0, 1}
      BY <1>5, <1>6, <2>1, BitType DEF Bit
    <3>2. Bit(Restart') <= Bit(Restart)
      BY <1>3 DEF Bit
    <3>3. Bit(Owes(w, a)') \in {0, 1} /\ Bit(Owes(w, a)) \in {0, 1}
      BY BitType
    <3>4. copies'[a] + Bit(Owes(w, a)') <= copies[a] + Bit(Owes(w, a))
      <4>1. CASE a = Here(w)
        <5>1. Owes(w, a) /\ ~Owes(w, a)'
          BY <1>1, <1>4, <4>1
        <5>2. Bit(Owes(w, a)) = 1 /\ Bit(Owes(w, a)') = 0
          BY <5>1 DEF Bit
        <5>. QED BY <2>1, <3>1, <4>1, <5>2
      <4>2. CASE a # Here(w)
        <5>1. Bit(Owes(w, a)') <= Bit(Owes(w, a))
          BY <1>4 DEF Bit
        <5>. QED BY <2>1, <3>1, <3>3, <4>2, <5>1
      <4>. QED BY <4>1, <4>2
    <3>. QED BY <1>6, <1>8, <3>1, <3>2, <3>3, <3>4
  <2>. QED BY <1>6, <1>8, <2>1, <2>2, CopiesBy
<1>. QED BY <1>7, <1>8

\* A lost session costs two copies at most: the run it leaves alone, and the one
\* that takes the lock next.
LEMMA CopiesLose ==
  ASSUME Inv, RunInv, CopiesInv, NEW w \in Workers, Apart(w), LoseSession(w)
  PROVE  CopiesInv'
<1>1. /\ lock = w /\ lock' = None /\ severed' = severed \cup {w}
      /\ faults' = faults + 1 /\ lost' = lost + 1
      /\ UNCHANGED <<pc, live, page, item, row, copies>>
  BY DEF LoseSession, OneFault, worker, job, dest
<1>2. /\ pc[w] \in {"checking", "marking", "paging", "importing", "inserting",
                    "finishing", "releasing"}
      /\ w \notin severed /\ lock # None
  BY <1>1, NobodyAssumption DEF Inv, OneImporter, Inside
<1>3. ASSUME NEW a \in Places
      PROVE  copies'[a] + Bit(Owes(w, a)') + Bit(Loose(w)') + Bit(Restart') + faults + lost
               <= copies[a] + Bit(Owes(w, a)) + Bit(Loose(w)) + Bit(Restart) + faults' + lost'
  <2>1. copies'[a] = copies[a] /\ copies[a] \in Nat /\ faults \in Nat /\ lost \in Nat
    BY <1>1 DEF CopiesInv
  <2>2. /\ Bit(Owes(w, a)) \in {0, 1} /\ Bit(Owes(w, a)') \in {0, 1} /\ Bit(Loose(w)) \in {0, 1}
        /\ Bit(Loose(w)') \in {0, 1} /\ Bit(Restart) \in {0, 1} /\ Bit(Restart') \in {0, 1}
    BY BitType
  <2>3. CASE pc[w] = "checking"
    <3>1. Restart' => Restart
      BY <1>1, <1>2, <2>3 DEF Restart
    <3>2. Bit(Restart') <= Bit(Restart)
      BY <3>1 DEF Bit
    <3>. QED BY <1>1, <2>1, <2>2, <3>2
  <2>4. CASE pc[w] # "checking"
    <3>1. Owes(w, a)' => Owes(w, a)
      BY <1>1, <2>4 DEF Owes, Here
    <3>2. Bit(Owes(w, a)') <= Bit(Owes(w, a))
      BY <3>1 DEF Bit
    <3>. QED BY <1>1, <2>1, <2>2, <3>2
  <2>. QED BY <2>3, <2>4
<1>. QED BY <1>1, <1>3, CopiesBy DEF CopiesInv

\* A worker that leaves RunJob, or was outside.
LEMMA CopiesLeave ==
  ASSUME Inv, RunInv, CopiesInv, NEW w \in Workers, Apart(w),
         Release(w) \/ AckJob(w) \/ NackJob(w) \/ Crash(w) \/ Take(w)
  PROVE  CopiesInv'
<1>1. UNCHANGED <<copies, row, lost>>
      /\ \E place \in {"idle", "locking", "acking", "nacking"} : Goto(w, place)
  BY DEF Release, AckJob, NackJob, Crash, Take, dest, job, bounds, Fault, Reset
<1>2. pc'[w] \in {"idle", "locking", "acking", "nacking"}
  BY <1>1 DEF Goto, RunInv, RunTypes
<1>3. (\A a \in Places : ~Owes(w, a)') /\ ~Loose(w)'
  BY <1>2 DEF Owes, Loose, Loop
<1>4. \A v \in Workers \ {w} : pc'[v] = pc[v] /\ live'[v] = live[v]
  BY DEF Apart, OnlyBy
<1>5. lock \in Workers \cup {None}
  BY DEF Inv, LockTypeOK
<1>6. CASE Crash(w)
  BY <1>1, <1>3, <1>6, CopiesFree DEF Crash, Fault, OneFault
<1>7. CASE Release(w)
  <2>1. pc[w] = "releasing" /\ EndSession(w) /\ faults' = faults
    BY <1>7 DEF Release, bounds
  <2>2. Restart' => Restart
    <3>1. CASE lock = w
      <4>1. lock' = None
        BY <2>1, <3>1 DEF EndSession
      <4>. QED BY <1>1, <2>1, <3>1, <4>1 DEF Restart
    <3>2. CASE lock # w
      <4>1. lock' = lock
        BY <2>1, <3>2 DEF EndSession
      <4>. QED BY <1>1, <1>4, <1>5, <3>2, <4>1 DEF Restart
    <3>. QED BY <3>1, <3>2
  <2>. QED BY <1>1, <1>3, <2>1, <2>2, CopiesFree
<1>8. CASE AckJob(w) \/ NackJob(w) \/ Take(w)
  <2>1. lock' = lock /\ faults' = faults /\ pc[w] \in {"acking", "nacking", "idle"}
    BY <1>8 DEF AckJob, NackJob, Take, locks, bounds
  <2>2. lock # w
    BY <2>1 DEF Inv, OneImporter, Inside
  <2>3. Restart' => Restart
    BY <1>1, <1>4, <1>5, <2>1, <2>2 DEF Restart
  <2>. QED BY <1>1, <1>3, <2>1, <2>3, CopiesFree
<1>. QED BY <1>6, <1>7, <1>8

\* A step inside a run that passes no place: it stays in the loop or leaves it.
LEMMA CopiesMoves ==
  ASSUME Inv, RunInv, CopiesInv, NEW w \in Workers, Apart(w), UNCHANGED <<copies, lost>>,
         NEW place \in Loop \cup {"finishing", "releasing"}, Goto(w, place),
         place \in Loop => pc[w] \in Loop /\ Here(w)' = Here(w),
         \/ faults' = faults /\ (Restart' => Restart)
         \/ faults' = faults + 1
  PROVE  CopiesInv'
<1>1. pc'[w] = place
  BY DEF Goto, RunInv, RunTypes
<1>2. ~Loose(w)'
  BY <1>1 DEF Loose, Loop
<1>3. ASSUME NEW a \in Places, Owes(w, a)' PROVE Owes(w, a)
  <2>1. place \in Loop /\ a \notin Done(Here(w)')
    BY <1>1, <1>3 DEF Owes, Loop, Done, Places, Precedes
  <2>. QED BY <2>1 DEF Owes
<1>. QED BY <1>2, <1>3, CopiesFree

\* What becomes of the row when w moves on.
LEMMA RestartMoves ==
  ASSUME Inv, RunInv, NEW w \in Workers, lock' = lock, live' = live,
         row' = row \/ row' \in Terminal,
         NEW place \in Loop \cup {"finishing", "releasing"}, Goto(w, place),
         pc[w] \in Loop \cup {"marking", "finishing"},
         place = "releasing" => ~live[w] \/ row' \in Terminal
  PROVE  Restart' => Restart
<1>1. /\ lock \in Workers \cup {None} /\ pc'[w] = place
      /\ \A v \in Workers \ {w} : pc'[v] = pc[v]
  BY DEF Inv, LockTypeOK, Goto, RunInv, RunTypes
<1>. QED BY <1>1, NobodyAssumption DEF Restart, Loop

LEMMA CopiesHandles ==
  ASSUME Inv, RunInv, CopiesInv, NEW w \in Workers, Apart(w), Handles(w) \/ HandlesInVain(w)
  PROVE  CopiesInv'
<1>1. /\ pc[w] \in {"importing", "inserting"} /\ NextItem(w)
      /\ UNCHANGED <<live, row, locks>>
  BY HandlesOK
<1>2. Here(w) \in Places /\ copies \in [Places -> Nat]
  BY <1>1, NextItemOK DEF CopiesInv
<1>3. /\ lost' = lost
      /\ \/ copies' = copies /\ faults' \in {faults, faults + 1}
         \/ copies' = [copies EXCEPT ![Here(w)] = @ + 1] /\ faults' = faults
  <2>1. CASE SourceSkips(w) \/ DestinationSkips(w) \/ ImportOrphan(w) \/ ImportRefused(w)
    BY <2>1 DEF SourceSkips, DestinationSkips, ImportOrphan, ImportRefused, dest, bounds
  <2>2. CASE ImportRow(w) \/ InsertFile(w)
    <3>1. (\E r \in At(Here(w)) : Insert(w, r)) /\ UNCHANGED <<faults, lost>>
      BY <2>2 DEF ImportRow, InsertFile, bounds
    <3>. QED BY <1>2, <3>1 DEF Insert
  <2>3. CASE HandlesInVain(w)
    BY <2>3 DEF HandlesInVain, ImportFails, InsertFileFails, Fault, OneFault, bounds
  <2>. QED BY <2>1, <2>2, <2>3 DEF Handles
<1>. QED BY <1>1, <1>3, CopiesHandled

LEMMA CopiesWorker ==
  ASSUME Inv, RunInv, CopiesInv, NEW w \in Workers, WorkerStep(w)
  PROVE  CopiesInv'
<1>0. Apart(w)
  BY StepApart
<1>1. CASE Take(w) \/ Release(w) \/ AckJob(w) \/ NackJob(w)
  BY <1>0, <1>1, CopiesLeave
<1>2. CASE Lock(w)
  BY <1>0, <1>2, CopiesLock
<1>3. CASE Check(w)
  BY <1>0, <1>3, CopiesCheck
<1>4. CASE MarkRunning(w)
  BY <1>0, <1>4, CopiesMark
<1>5. CASE BuildFails(w) \/ Page(w) \/ Interrupted(w) \/ WriteObject(w)
  <2>1. /\ UNCHANGED <<copies, lost, live, row, faults>>
        /\ pc[w] \in Loop \cup {"marking"} /\ lock' = lock
        /\ \/ Goto(w, "finishing")
           \/ Goto(w, "importing") /\ pc[w] \in Loop /\ UNCHANGED <<page, item>>
           \/ Goto(w, "inserting") /\ pc[w] \in Loop /\ UNCHANGED <<page, item>>
           \/ Goto(w, "releasing") /\ ~live[w]
    BY <1>5 DEF BuildFails, Page, Interrupted, WriteObject, Conclude, Loop, dest, job,
                bounds, locks
  <2>2. Restart' => Restart
    BY <2>1, RestartMoves DEF Loop
  <2>. QED BY <1>0, <2>1, <2>2, CopiesMoves DEF Loop, Here
<1>6. CASE Handles(w)
  BY <1>0, <1>6, CopiesHandles
<1>7. CASE Finish(w)
  <2>1. /\ UNCHANGED <<copies, lost, live, faults>> /\ lock' = lock
        /\ pc[w] = "finishing" /\ Goto(w, "releasing") /\ row' \in Terminal
    BY <1>7 DEF Finish, dest, bounds, locks, RunInv, RunOK
  <2>2. Restart' => Restart
    BY <2>1, RestartMoves
  <2>. QED BY <1>0, <2>1, <2>2, CopiesMoves DEF Loop
<1>. QED BY <1>1, <1>2, <1>3, <1>4, <1>5, <1>6, <1>7 DEF WorkerStep, Handles

LEMMA CopiesFault ==
  ASSUME Inv, RunInv, CopiesInv, NEW w \in Workers, FaultStep(w)
  PROVE  CopiesInv'
<1>0. Apart(w)
  BY StepApart
<1>1. CASE StartFails(w)
  <2>1. UNCHANGED <<copies, lost>> /\ faults' = faults + 1 /\ Goto(w, "releasing")
    BY <1>1 DEF StartFails, dest, Fault, OneFault
  <2>. QED BY <1>0, <2>1, CopiesMoves DEF Loop
<1>2. CASE HandlesInVain(w)
  BY <1>0, <1>2, CopiesHandles
<1>3. CASE FinishFails(w)
  <2>1. /\ UNCHANGED <<copies, lost, live, row>> /\ lock' = lock
        /\ pc[w] = "finishing" /\ Goto(w, "releasing")
        /\ faults' = faults + 1 \/ (faults' = faults /\ ~live[w])
    BY <1>3 DEF FinishFails, dest, job, bounds, locks, Fault, OneFault
  <2>2. ~live[w] => (Restart' => Restart)
    BY <2>1, RestartMoves
  <2>. QED BY <1>0, <2>1, <2>2, CopiesMoves DEF Loop
<1>4. CASE Shutdown(w)
  <2>1. UNCHANGED <<pc, page, item, copies, locks, lost>> /\ faults' = faults + 1
    BY <1>4 DEF Shutdown, dest, Fault, OneFault
  <2>2. (\A a \in Places : Owes(w, a)' => Owes(w, a)) /\ (Loose(w)' => Loose(w))
    BY <2>1 DEF Owes, Loose, Here, locks
  <2>. QED BY <1>0, <2>1, <2>2, CopiesFree
<1>5. CASE Crash(w)
  BY <1>0, <1>5, CopiesLeave
<1>6. CASE LoseSession(w)
  BY <1>0, <1>6, CopiesLose
<1>. QED BY <1>1, <1>2, <1>3, <1>4, <1>5, <1>6 DEF FaultStep, HandlesInVain

LEMMA CopiesStep == Inv /\ RunInv /\ CopiesInv /\ [Next]_vars => CopiesInv'
<1>. SUFFICES ASSUME Inv, RunInv, CopiesInv, [Next]_vars PROVE CopiesInv'
  OBVIOUS
<1>1. CASE Create \/ CreateFails \/ Cancel \/ ReapDead \/ ReapLive \/ UNCHANGED vars
  <2>1. /\ UNCHANGED <<pc, live, page, item, locks, copies, lost>>
        /\ row' \in Terminal \/ row' = row \/ row \notin Terminal
        /\ faults' = faults \/ faults' = faults + 1
    BY <1>1 DEF Create, CreateFails, Cancel, ReapDead, ReapLive, vars, worker, job,
                dest, bounds, Fault, OneFault, Terminal
  <2>. QED BY <2>1, CopiesStay
<1>2. CASE \E w \in Workers : WorkerStep(w) \/ FaultStep(w)
  BY <1>2, CopiesWorker, CopiesFault
<1>. QED BY <1>1, <1>2 DEF Next

LEMMA CopiesInit == Init => CopiesInv
<1>. SUFFICES ASSUME Init PROVE CopiesInv
  OBVIOUS
<1>1. /\ copies = [a \in Places |-> 0] /\ faults = 0 /\ lost = 0
      /\ Loosened = {} /\ \A a \in Places : Owing(a) = {}
  BY DEF Init, Loosened, Loose, Owing, Owes, Loop
<1>2. Bit(Restart) \in {0, 1}
  BY BitType
<1>. QED BY <1>1, <1>2, FS_EmptySet DEF CopiesInv

\* For every source, every number of workers, redeliveries, faults and lost
\* sessions: of what is imported under a new id, each further copy from the same
\* place of the export has been paid for by an interruption (service.go: RunJob's
\* lock and its look at the row).
THEOREM DuplicatesTheorem == Spec => []DuplicatesNeedInterruption
<1>1. CopiesInv => DuplicatesNeedInterruption
  <2>. SUFFICES ASSUME CopiesInv, NEW a \in Places PROVE copies[a] <= 1 + faults + lost
    BY DEF DuplicatesNeedInterruption
  <2>1. /\ copies[a] \in Nat /\ faults \in Nat /\ lost \in Nat
        /\ IsFiniteSet(Owing(a)) /\ IsFiniteSet(Loosened)
        /\ copies[a] + Cardinality(Owing(a)) + Cardinality(Loosened) + Bit(Restart)
             <= 1 + faults + lost
    BY DEF CopiesInv
  <2>2. Cardinality(Owing(a)) \in Nat /\ Cardinality(Loosened) \in Nat
        /\ Bit(Restart) \in {0, 1}
    BY <2>1, FS_CardinalityType, BitType
  <2>. QED BY <2>1, <2>2
<1>. QED BY <1>1, InitInv, NextInv, RunInit, RunStep, CopiesInit, CopiesStep, PTL DEF Spec

-----------------------------------------------------------------------------
(* Nothing is forgotten.                                                   *)

Tries == 0 .. MaxRetries - 1

QueueTypes ==
  /\ waiting \in [Tries -> Nat] /\ leased \in SUBSET Lease
  /\ dead \in Nat /\ deliveries \in Nat /\ early \in Nat /\ faults \in Nat
  /\ row \in Status /\ pushed \in BOOLEAN
  /\ lease \in [Workers -> Lease \cup {NoLease}]

\* A copy is on one of the lists.
Kept == dead > 0 \/ leased # {} \/ \E r \in Tries : waiting[r] > 0

\* A worker will yet write how the migration ended, if nothing stops it.
Running == \E w \in Workers : Inside(w) /\ pc[w] # "releasing"

LEMMA TriesType ==
  /\ MaxRetries \in Nat \ {0} /\ Tries \subseteq Nat /\ 0 \in Tries
  /\ \A l \in Lease : l.retries \in Tries
  /\ NoLease.retries = 0
BY RetriesAssumption DEF Tries, Lease, NoLease

\* What the operations of the queue leave on its lists.
LEMMA NackKeeps ==
  ASSUME QueueTypes, NEW l \in Lease \cup {NoLease}, Nack(l)
  PROVE  /\ waiting' \in [Tries -> Nat] /\ leased' \in SUBSET Lease
         /\ dead' \in Nat /\ deliveries' \in Nat
         /\ Kept'
<1>1. l.retries \in Tries /\ l.retries \in Nat /\ MaxRetries \in Nat
  BY TriesType
<1>2. leased' = leased \ {l} /\ deliveries' = deliveries
  BY DEF Nack
<1>3. CASE l.retries + 1 < MaxRetries
  <2>1. l.retries + 1 \in Tries
    BY <1>1, <1>3 DEF Tries
  <2>2. waiting' = [waiting EXCEPT ![l.retries + 1] = @ + 1] /\ dead' = dead
    BY <1>1, <1>3 DEF Nack
  <2>3. waiting' \in [Tries -> Nat] /\ waiting'[l.retries + 1] > 0
    BY <2>1, <2>2 DEF QueueTypes
  <2> QED
    BY <1>2, <2>1, <2>2, <2>3 DEF QueueTypes, Kept
<1>4. CASE l.retries + 1 = MaxRetries
  BY <1>1, <1>2, <1>4 DEF Nack, QueueTypes, Kept
<1> QED
  BY <1>1, <1>3, <1>4 DEF Nack

LEMMA PopKeeps ==
  ASSUME QueueTypes, NEW r \in Tries, Pop(r)
  PROVE  /\ waiting' \in [Tries -> Nat] /\ leased' \in SUBSET Lease
         /\ dead' \in Nat /\ deliveries' \in Nat
         /\ NextLease(r) \in Lease
         /\ Kept'
<1>1. NextLease(r) \in Lease
  BY DEF QueueTypes, NextLease, Lease, Tries
<1>2. waiting[r] - 1 \in Nat
  BY DEF QueueTypes, Pop
<1> QED
  BY <1>1, <1>2 DEF QueueTypes, Pop, Kept

\* A step that has nothing to do with the lists.
LEMMA QueueSame ==
  ASSUME QueueTypes, UNCHANGED <<queue, pushed>>, row' \in Status,
         lease' \in [Workers -> Lease \cup {NoLease}],
         early' \in Nat, faults' \in Nat
  PROVE  QueueTypes' /\ (Kept' <=> Kept)
BY DEF QueueTypes, Kept, queue

LEMMA QueueTypesStep == RunInv /\ QueueTypes /\ [Next]_vars => QueueTypes'
<1> SUFFICES ASSUME RunInv, QueueTypes, [Next]_vars PROVE QueueTypes'
  OBVIOUS
<1>0. /\ \A w \in Workers : lease[w] \in Lease \cup {NoLease}
      /\ early \in Nat /\ faults \in Nat /\ early + 1 \in Nat /\ faults + 1 \in Nat
      /\ {"pending", "running", "failed", "cancelled"} \subseteq Status
  BY DEF QueueTypes, Status, Terminal
<1>1. CASE Create
  <2>1. Push /\ row' = "pending" /\ pushed' = TRUE /\ UNCHANGED <<lease, early, faults>>
    BY <1>1 DEF Create, worker, bounds
  <2>2. waiting' \in [Tries -> Nat]
    BY <2>1, TriesType DEF Push, QueueTypes
  <2> QED
    BY <1>0, <2>1, <2>2 DEF Push, QueueTypes
<1>2. CASE CreateFails \/ Cancel
  BY <1>0, <1>2, QueueSame DEF CreateFails, Cancel, worker, bounds, Fault, OneFault, QueueTypes
<1>3. ASSUME NEW w \in Workers, WorkerStep(w) PROVE QueueTypes'
  <2>1. CASE Take(w)
    <3>1. PICK r \in Tries : Pop(r) /\ lease' = [lease EXCEPT ![w] = NextLease(r)]
      BY <2>1 DEF Take, Tries
    <3>2. lease' \in [Workers -> Lease \cup {NoLease}]
      BY <3>1, PopKeeps DEF QueueTypes
    <3> QED
      BY <2>1, <3>1, <3>2, PopKeeps DEF Take, QueueTypes, job, bounds
  <2>2. CASE AckJob(w)
    <3>1. lease' \in [Workers -> Lease \cup {NoLease}]
      BY <2>2 DEF AckJob, Reset, QueueTypes
    <3> QED
      BY <2>2, <3>1 DEF AckJob, Ack, QueueTypes, job, bounds
  <2>3. CASE NackJob(w)
    <3>1. lease' \in [Workers -> Lease \cup {NoLease}]
      BY <2>3 DEF NackJob, Reset, QueueTypes
    <3> QED
      BY <1>0, <2>3, <3>1, NackKeeps DEF NackJob, QueueTypes, job, bounds
  <2>4. CASE Finish(w)
    <3>1. row' \in Status
      BY <2>4 DEF Finish, RunInv, RunOK, Status
    <3> QED
      BY <2>4, <3>1, QueueSame DEF Finish, bounds, QueueTypes
  <2>5. CASE \/ Lock(w) \/ Check(w) \/ BuildFails(w) \/ MarkRunning(w) \/ Page(w)
             \/ Interrupted(w) \/ SourceSkips(w) \/ DestinationSkips(w) \/ ImportOrphan(w)
             \/ ImportRefused(w) \/ ImportRow(w) \/ WriteObject(w) \/ InsertFile(w)
             \/ Release(w)
    <3>1. /\ UNCHANGED <<queue, pushed, lease, early, faults>>
          /\ row' \in {row, "running"}
      BY <2>5 DEF Lock, Check, BuildFails, MarkRunning, Page, Interrupted, SourceSkips,
                  DestinationSkips, ImportOrphan, ImportRefused, ImportRow, WriteObject,
                  InsertFile, Release, job, bounds
    <3> QED
      BY <1>0, <3>1, QueueSame DEF QueueTypes
  <2> QED
    BY <1>3, <2>1, <2>2, <2>3, <2>4, <2>5 DEF WorkerStep
<1>4. ASSUME NEW w \in Workers, FaultStep(w) PROVE QueueTypes'
  <2>1. /\ UNCHANGED <<queue, job, early>> /\ faults' \in {faults, faults + 1}
        /\ lease' \in {lease, [lease EXCEPT ![w] = NoLease]}
    BY <1>4 DEF FaultStep, StartFails, ImportFails, InsertFileFails, FinishFails, Shutdown,
                Crash, LoseSession, Reset, Fault, OneFault, bounds, worker
  <2> QED
    BY <1>0, <2>1, QueueSame DEF QueueTypes, job
<1>5. CASE ReapDead \/ ReapLive
  <2>1. PICK l \in Lease \cup {NoLease} : Nack(l)
    BY <1>0, <1>5 DEF ReapDead, ReapLive, QueueTypes
  <2>2. UNCHANGED <<job, worker, faults>> /\ early' \in {early, early + 1}
    BY <1>5 DEF ReapDead, ReapLive, bounds
  <2> QED
    BY <1>0, <2>1, <2>2, NackKeeps DEF QueueTypes, job, worker
<1>6. CASE UNCHANGED vars
  BY <1>6, QueueSame DEF vars, worker, job, bounds, QueueTypes
<1> QED
  BY <1>1, <1>2, <1>3, <1>4, <1>5, <1>6 DEF Next

LEMMA QueueTypesInit == Init => QueueTypes
<1> SUFFICES ASSUME Init PROVE QueueTypes
  OBVIOUS
<1>1. waiting = [r \in Tries |-> 0] /\ leased = {} /\ dead = 0 /\ deliveries = 0
  BY DEF Init, QueueInit, Tries
<1>2. /\ row = "none" /\ pushed = FALSE /\ early = 0 /\ faults = 0
      /\ lease = [w \in Workers |-> NoLease]
  BY DEF Init
<1> QED
  BY <1>1, <1>2 DEF QueueTypes, Status

-----------------------------------------------------------------------------
(* While no lease is reaped from a live worker.                            *)

\* There is one copy of the job at most, and whoever is at work has it. It goes
\* only when the migration is over.
Sole ==
  /\ \A r \in Tries : waiting[r] <= 1
  /\ \A r, s \in Tries : waiting[r] > 0 /\ waiting[s] > 0 => r = s
  /\ \A r \in Tries : waiting[r] > 0 => leased = {}
  /\ \A k, l \in leased : k = l
  /\ ~pushed => leased = {} /\ \A r \in Tries : waiting[r] = 0
  /\ row = "none" => ~pushed
  /\ \A w \in Workers : pc[w] # "idle" => lease[w] \in leased
  /\ \A v, w \in Workers : pc[v] # "idle" /\ pc[w] # "idle" => v = w
  /\ \A w \in Workers :
       pc[w] = "acking" \/ (pc[w] = "releasing" /\ verdict[w] # "error") => row \in Terminal
  /\ pushed /\ row \notin Terminal => Kept

SoleInv == early = 0 => Sole

\* A step of w that moves on inside its job, whatever it finds.
LEMMA SoleMove ==
  ASSUME Sole, NEW w \in Workers, pc[w] # "idle", pc'[w] # "idle",
         UNCHANGED <<queue, pushed, lease>>,
         \A v \in Workers \ {w} : pc'[v] = pc[v] /\ verdict'[v] = verdict[v],
         row' = row \/ row' \in Terminal \/ (row' = "running" /\ pc[w] # "acking"),
         pc'[w] = "acking" \/ (pc'[w] = "releasing" /\ verdict'[w] # "error") => row' \in Terminal
  PROVE  Sole'
<1>1. Kept' <=> Kept
  BY DEF Kept, queue
<1>2. leased # {} /\ pushed
  BY DEF Sole
<1>3. \A v \in Workers \ {w} : pc'[v] = "idle"
  BY DEF Sole
<1>4. row' # "none"
  BY <1>2 DEF Sole, Terminal
<1>5. Kept
  BY <1>2 DEF Kept
<1> QED
  BY <1>1, <1>2, <1>3, <1>4, <1>5 DEF Sole, queue

LEMMA SoleWorker ==
  ASSUME Inv, RunInv, QueueTypes, Sole, NEW w \in Workers, WorkerStep(w)
  PROVE  Sole'
<1>0. /\ pc \in [Workers -> PC] /\ verdict \in [Workers -> Terminal \cup {"none", "error"}]
      /\ RunOK(w)
  BY DEF RunInv, RunTypes
<1>1. CASE Take(w)
  <2>1. PICK r \in Tries : Pop(r) /\ lease' = [lease EXCEPT ![w] = NextLease(r)]
    BY <1>1 DEF Take, Tries
  <2>2. /\ waiting[r] = 1 /\ leased = {} /\ leased' = {NextLease(r)}
        /\ waiting' = [waiting EXCEPT ![r] = @ - 1]
    BY <2>1 DEF Pop, Sole, QueueTypes
  <2>3. \A s \in Tries : waiting'[s] = 0
    BY <2>2 DEF Sole, QueueTypes
  <2>4. \A v \in Workers : pc[v] = "idle"
    BY <2>2 DEF Sole
  <2>5. /\ pc'[w] = "locking" /\ lease'[w] = NextLease(r)
        /\ \A v \in Workers \ {w} : pc'[v] = "idle"
        /\ UNCHANGED <<row, pushed>>
    BY <1>0, <1>1, <2>1, <2>4 DEF Take, Goto, job, QueueTypes
  <2>6. pushed
    BY <2>2 DEF Sole
  <2>7. Kept'
    BY <2>2 DEF Kept
  <2>8. \A v \in Workers : pc'[v] \notin {"acking", "releasing"}
    BY <2>5
  <2> QED
    BY <2>2, <2>3, <2>5, <2>6, <2>7, <2>8 DEF Sole
<1>2. CASE Lock(w)
  <2>1. lock = None
    <3>1. ASSUME lock # None PROVE FALSE
      <4>1. lock \in Workers /\ Inside(lock)
        BY <3>1 DEF Inv, LockTypeOK, OneImporter
      <4>2. pc[lock] # "idle" /\ lock # w
        BY <1>2, <4>1 DEF Inside, Lock
      <4> QED
        BY <1>2, <4>1, <4>2 DEF Sole, Lock
    <3> QED
      BY <3>1
  <2> QED
    BY <1>0, <1>2, <2>1, SoleMove DEF Lock, Goto, job
<1>3. CASE Check(w)
  BY <1>0, <1>3, SoleMove DEF Check, Goto, job
<1>4. CASE BuildFails(w)
  BY <1>0, <1>4, SoleMove DEF BuildFails, Goto, job
<1>5. CASE MarkRunning(w)
  BY <1>0, <1>5, SoleMove DEF MarkRunning, Goto
<1>6. CASE Page(w) \/ Interrupted(w)
  <2>1. /\ pc[w] # "idle" /\ pc' \in [Workers -> PC]
        /\ \/ pc'[w] \in {"finishing", "importing"}
           \/ pc'[w] = "releasing" /\ verdict'[w] = "error"
        /\ UNCHANGED <<job, queue, lease>>
        /\ \A v \in Workers \ {w} : pc'[v] = pc[v] /\ verdict'[v] = verdict[v]
    BY <1>0, <1>6 DEF Page, Interrupted, Conclude, Goto, PC, Terminal
  <2> QED
    BY <2>1, SoleMove DEF job
<1>7. CASE Handles(w)
  <2>1. /\ pc[w] # "idle"
        /\ pc'[w] \in {"paging", "importing"}
        /\ UNCHANGED <<job, queue, lease, verdict>>
        /\ \A v \in Workers \ {w} : pc'[v] = pc[v]
    BY <1>7, HandlesOK DEF OnlyBy, job
  <2> QED
    BY <2>1, SoleMove DEF job
<1>8. CASE WriteObject(w)
  BY <1>0, <1>8, SoleMove DEF WriteObject, Goto, job
<1>9. CASE Finish(w)
  BY <1>0, <1>9, SoleMove DEF Finish, Goto, RunOK
<1>10. CASE Release(w)
  <2>1. verdict[w] # "error" => row \in Terminal
    BY <1>10 DEF Release, Sole
  <2> QED
    BY <1>0, <1>10, <2>1, SoleMove DEF Release, Goto, job
<1>11. CASE AckJob(w) \/ NackJob(w)
  <2>1. /\ pc[w] \in {"acking", "nacking"} /\ lease[w] \in leased
        /\ UNCHANGED <<row, pushed>>
        /\ \A v \in Workers : pc'[v] = "idle"
    BY <1>0, <1>11 DEF AckJob, NackJob, Reset, Goto, Sole, job
  <2>2. leased = {lease[w]} /\ (\A r \in Tries : waiting[r] = 0) /\ pushed
    BY <2>1 DEF Sole, QueueTypes
  <2>3. CASE AckJob(w)
    <3>1. leased' = {} /\ waiting' = waiting /\ row \in Terminal
      BY <2>2, <2>3 DEF AckJob, Ack, Sole
    <3> QED
      BY <2>1, <2>2, <3>1 DEF Sole, Terminal
  <2>4. CASE NackJob(w)
    <3>1. leased' = {} /\ Nack(lease[w]) /\ lease[w] \in Lease
      BY <2>1, <2>2, <2>4 DEF NackJob, Nack, QueueTypes
    <3>2. Kept'
      BY <3>1, NackKeeps
    <3>3. \A r, s \in Tries : waiting'[r] <= 1 /\ (waiting'[r] > 0 /\ waiting'[s] > 0 => r = s)
      BY <2>2, <3>1 DEF Nack, QueueTypes
    <3> QED
      BY <2>1, <2>2, <3>1, <3>2, <3>3 DEF Sole
  <2> QED
    BY <1>11, <2>3, <2>4
<1> QED
  BY <1>1, <1>2, <1>3, <1>4, <1>5, <1>6, <1>7, <1>8, <1>9, <1>10, <1>11
     DEF WorkerStep, Handles

LEMMA SoleFault ==
  ASSUME Inv, RunInv, QueueTypes, Sole, NEW w \in Workers, FaultStep(w)
  PROVE  Sole'
<1>0. pc \in [Workers -> PC] /\ verdict \in [Workers -> Terminal \cup {"none", "error"}]
  BY DEF RunInv, RunTypes
<1>1. CASE StartFails(w) \/ FinishFails(w)
  <2>1. /\ pc[w] # "idle" /\ pc'[w] = "releasing" /\ verdict'[w] = "error"
        /\ UNCHANGED <<job, queue, lease>>
        /\ \A v \in Workers \ {w} : pc'[v] = pc[v] /\ verdict'[v] = verdict[v]
    BY <1>0, <1>1 DEF StartFails, FinishFails, Goto
  <2> QED
    BY <2>1, SoleMove DEF job
<1>2. CASE HandlesInVain(w)
  <2>1. /\ pc[w] # "idle"
        /\ pc'[w] \in {"paging", "importing"}
        /\ UNCHANGED <<job, queue, lease, verdict>>
        /\ \A v \in Workers \ {w} : pc'[v] = pc[v]
    BY <1>2, HandlesOK DEF OnlyBy, job
  <2> QED
    BY <2>1, SoleMove DEF job
<1>3. CASE Shutdown(w) \/ LoseSession(w)
  <2>1. UNCHANGED <<job, queue, pc, lease, verdict>>
    BY <1>3 DEF Shutdown, LoseSession, worker
  <2> QED
    BY <2>1 DEF Sole, Kept, job, queue
<1>4. CASE Crash(w)
  <2>1. /\ UNCHANGED <<job, queue>> /\ pc[w] # "idle"
        /\ \A v \in Workers : pc'[v] = "idle"
    BY <1>0, <1>4 DEF Crash, Reset, Goto, Sole
  <2> QED
    BY <2>1 DEF Sole, Kept, job, queue
<1> QED
  BY <1>1, <1>2, <1>3, <1>4 DEF FaultStep, HandlesInVain

LEMMA SoleStep == Inv /\ RunInv /\ QueueTypes /\ SoleInv /\ [Next]_vars => SoleInv'
<1> SUFFICES ASSUME Inv, RunInv, QueueTypes, Sole, [Next]_vars, early = 0, early' = 0
             PROVE  Sole'
  <2>1. ASSUME QueueTypes, [Next]_vars, early' = 0 PROVE early = 0
    BY <2>1 DEF QueueTypes, Next, vars, bounds, Create, CreateFails, Cancel, WorkerStep, Take,
         Lock, Check, BuildFails, MarkRunning, Page, Interrupted, SourceSkips,
         DestinationSkips, ImportOrphan, ImportRefused, ImportRow, WriteObject, InsertFile,
         Finish, Release, AckJob, NackJob, FaultStep, StartFails, ImportFails,
         InsertFileFails, FinishFails, Shutdown, Crash, LoseSession, Fault,
         OneFault, ReapDead, ReapLive
  <2> QED
    BY <2>1 DEF SoleInv
<1>1. CASE Create
  <2>1. /\ row = "none" /\ row' = "pending" /\ pushed' = TRUE
        /\ waiting' = [waiting EXCEPT ![0] = @ + 1] /\ leased' = leased
        /\ UNCHANGED <<pc, lease>>
    BY <1>1 DEF Create, Push, worker
  <2>2. leased = {} /\ (\A r \in Tries : waiting[r] = 0) /\ \A w \in Workers : pc[w] = "idle"
    BY <2>1 DEF Sole
  <2>3. /\ waiting'[0] = 1 /\ \A r \in Tries \ {0} : waiting'[r] = 0
    BY <2>1, <2>2, TriesType DEF QueueTypes
  <2>4. Kept'
    BY <2>3, TriesType DEF Kept
  <2> QED
    BY <2>1, <2>2, <2>3, <2>4 DEF Sole
<1>2. CASE CreateFails \/ Cancel
  <2>1. UNCHANGED <<pushed, queue, worker>> /\ row' \in Terminal
    BY <1>2 DEF CreateFails, Cancel, Terminal
  <2> QED
    BY <2>1 DEF Sole, queue, worker, Terminal
<1>3. CASE ReapDead
  <2>1. PICK l \in leased : ~Held(l) /\ Nack(l)
    BY <1>3 DEF ReapDead
  <2>2. /\ UNCHANGED <<row, pushed, pc, lease, verdict>> /\ l \in Lease
    BY <1>3 DEF ReapDead, job, worker, QueueTypes
  <2>3. leased' = {} /\ pushed /\ \A r \in Tries : waiting[r] = 0
    BY <2>1 DEF Nack, Sole, QueueTypes
  <2>4. \A w \in Workers : pc[w] = "idle"
    BY <2>1 DEF Sole, Held
  <2>5. Kept'
    BY <2>1, <2>2, NackKeeps
  <2>6. \A r, s \in Tries : waiting'[r] <= 1 /\ (waiting'[r] > 0 /\ waiting'[s] > 0 => r = s)
    BY <2>1, <2>3 DEF Nack, QueueTypes
  <2> QED
    BY <2>2, <2>3, <2>4, <2>5, <2>6 DEF Sole
<1>4. CASE ReapLive
  BY <1>4 DEF ReapLive
<1>5. CASE UNCHANGED vars
  BY <1>5 DEF vars, Sole, Kept, job, queue, worker
<1> QED
  BY <1>1, <1>2, <1>3, <1>4, <1>5, SoleWorker, SoleFault DEF Next

-----------------------------------------------------------------------------
(* While nothing fails.                                                    *)

\* Whoever gets the lock brings the migration to an end, so a copy may go while
\* somebody has it.
Calm ==
  /\ severed = {}
  /\ \A w \in Workers : live[w] /\ verdict[w] # "error" /\ pc[w] # "nacking"
  /\ \A w \in Workers : pc[w] \in {"acking", "releasing"} => row \in Terminal \/ Running
  /\ pushed => row \in Terminal \/ Running \/ Kept

CalmInv == faults = 0 => Calm

\* A step of w inside its job that leaves the lists alone.
LEMMA CalmMove ==
  ASSUME Calm, NEW w \in Workers, UNCHANGED <<queue, pushed, severed, live>>,
         \A v \in Workers \ {w} : pc'[v] = pc[v] /\ verdict'[v] = verdict[v],
         verdict'[w] # "error", pc'[w] # "nacking",
         row \in Terminal => row' \in Terminal \/ (Inside(w)' /\ pc'[w] # "releasing"),
         Inside(w) /\ pc[w] # "releasing" =>
           row' \in Terminal \/ (Inside(w)' /\ pc'[w] # "releasing"),
         pc'[w] \in {"acking", "releasing"} => row' \in Terminal \/ Running
  PROVE  Calm'
<1>1. \A v \in Workers \ {w} : Inside(v)' <=> Inside(v)
  BY DEF Inside
<1>2. row \in Terminal \/ Running => row' \in Terminal \/ Running'
  BY <1>1 DEF Running
<1>3. Kept' <=> Kept
  BY DEF Kept, queue
<1>4. ASSUME NEW v \in Workers, pc'[v] \in {"acking", "releasing"}
      PROVE  row' \in Terminal \/ Running'
  <2>1. CASE v = w
    BY <1>2, <1>4, <2>1
  <2>2. CASE v # w
    BY <1>2, <1>4, <2>2 DEF Calm
  <2> QED
    BY <2>1, <2>2
<1> QED
  BY <1>2, <1>3, <1>4 DEF Calm

LEMMA CalmWorker ==
  ASSUME Inv, RunInv, QueueTypes, Calm, NEW w \in Workers, WorkerStep(w)
  PROVE  Calm'
<1>0. /\ pc \in [Workers -> PC] /\ verdict \in [Workers -> Terminal \cup {"none", "error"}]
      /\ RunOK(w) /\ live[w] /\ verdict[w] # "error" /\ pc[w] # "nacking"
  BY DEF RunInv, RunTypes, Calm
<1>1. CASE Take(w)
  <2>1. PICK r \in Tries : Pop(r)
    BY <1>1 DEF Take, Tries
  <2>2. /\ pc[w] = "idle" /\ pc'[w] = "locking" /\ \A v \in Workers \ {w} : pc'[v] = pc[v]
        /\ UNCHANGED <<row, pushed, severed, live, verdict>>
    BY <1>0, <1>1 DEF Take, Goto, job, locks
  <2>3. Kept'
    BY <2>1, PopKeeps
  <2>4. Running => Running'
    BY <2>2 DEF Running, Inside
  <2> QED
    BY <2>2, <2>3, <2>4 DEF Calm
<1>2. CASE Lock(w)
  <2>1. lock # None => row \in Terminal \/ Running
    <3>1. ASSUME lock # None PROVE lock \in Workers /\ Inside(lock)
      BY <3>1 DEF Inv, LockTypeOK, OneImporter
    <3> QED
      BY <3>1 DEF Calm, Running
  <2>2. /\ pc[w] = "locking" /\ \A v \in Workers \ {w} : pc'[v] = pc[v]
        /\ UNCHANGED <<queue, row, pushed, severed, live, verdict>>
        /\ pc'[w] = "checking" \/ (pc'[w] = "acking" /\ lock # None)
    BY <1>0, <1>2 DEF Lock, Goto, job
  <2> QED
    BY <1>0, <2>1, <2>2, CalmMove DEF Inside
<1>3. CASE Check(w)
  <2>1. /\ pc[w] = "checking" /\ \A v \in Workers \ {w} : pc'[v] = pc[v]
        /\ UNCHANGED <<queue, row, pushed, severed, live, verdict>>
        /\ pc'[w] = "marking" \/ (pc'[w] = "releasing" /\ row \in Terminal)
    BY <1>0, <1>3 DEF Check, Goto, job, locks
  <2> QED
    BY <1>0, <2>1, CalmMove DEF Inside
<1>4. CASE BuildFails(w) \/ MarkRunning(w) \/ WriteObject(w)
  <2>1. /\ \A v \in Workers \ {w} : pc'[v] = pc[v] /\ verdict'[v] = verdict[v]
        /\ UNCHANGED <<queue, pushed, severed, live>>
        /\ verdict'[w] # "error" /\ pc'[w] \in {"finishing", "paging", "inserting"}
    BY <1>0, <1>4 DEF BuildFails, MarkRunning, WriteObject, Goto, job, locks
  <2> QED
    BY <1>0, <2>1, CalmMove DEF Inside
<1>5. CASE Page(w) \/ Interrupted(w)
  <2>1. /\ \A v \in Workers \ {w} : pc'[v] = pc[v] /\ verdict'[v] = verdict[v]
        /\ UNCHANGED <<queue, row, pushed, severed, live>>
        /\ verdict'[w] # "error" /\ pc'[w] \in {"finishing", "importing"}
    BY <1>0, <1>5 DEF Page, Interrupted, Conclude, Goto, job, locks, Terminal
  <2> QED
    BY <1>0, <2>1, CalmMove DEF Inside
<1>6. CASE Handles(w)
  <2>1. /\ \A v \in Workers \ {w} : pc'[v] = pc[v]
        /\ UNCHANGED <<queue, row, pushed, severed, live, verdict>>
        /\ pc'[w] \in {"paging", "importing"}
    BY <1>6, HandlesOK DEF OnlyBy, locks
  <2> QED
    BY <1>0, <2>1, CalmMove DEF Inside
<1>7. CASE Finish(w)
  <2>1. /\ \A v \in Workers \ {w} : pc'[v] = pc[v]
        /\ UNCHANGED <<queue, pushed, severed, live, verdict>>
        /\ pc'[w] = "releasing" /\ row' \in Terminal
    BY <1>0, <1>7 DEF Finish, Goto, locks, RunOK
  <2>2. Calm'
    <3>1. Kept' <=> Kept
      BY <2>1 DEF Kept, queue
    <3>2. \A v \in Workers : verdict'[v] # "error" /\ pc'[v] # "nacking"
      BY <2>1 DEF Calm
    <3> QED
      BY <2>1, <3>1, <3>2 DEF Calm
  <2> QED
    BY <2>2
<1>8. CASE Release(w)
  <2>1. /\ pc[w] = "releasing" /\ \A v \in Workers \ {w} : pc'[v] = pc[v]
        /\ UNCHANGED <<queue, row, pushed, live, verdict>>
        /\ pc'[w] = "acking" /\ severed' = severed
    BY <1>0, <1>8 DEF Release, EndSession, Goto, job, Calm
  <2>2. row \in Terminal \/ Running
    BY <2>1 DEF Calm
  <2> QED
    BY <1>0, <2>1, <2>2, CalmMove DEF Inside
<1>9. CASE AckJob(w)
  <2>1. /\ pc[w] = "acking" /\ pc'[w] = "idle" /\ \A v \in Workers \ {w} : pc'[v] = pc[v]
        /\ UNCHANGED <<row, pushed, severed>>
        /\ \A v \in Workers : live'[v] /\ verdict'[v] # "error"
    BY <1>0, <1>9 DEF AckJob, Reset, Goto, job, locks, Calm, RunInv, RunTypes
  <2>2. row \in Terminal \/ Running
    BY <2>1 DEF Calm
  <2>3. Running => Running'
    BY <2>1 DEF Running, Inside
  <2> QED
    BY <2>1, <2>2, <2>3 DEF Calm
<1>10. CASE NackJob(w)
  BY <1>0, <1>10 DEF NackJob
<1> QED
  BY <1>1, <1>2, <1>3, <1>4, <1>5, <1>6, <1>7, <1>8, <1>9, <1>10
     DEF WorkerStep, Handles

LEMMA CalmStep == Inv /\ RunInv /\ QueueTypes /\ CalmInv /\ [Next]_vars => CalmInv'
<1> SUFFICES ASSUME Inv, RunInv, QueueTypes, CalmInv, [Next]_vars, faults' = 0
             PROVE  Calm'
  BY DEF CalmInv
<1>0. faults \in Nat /\ (faults = 0 => Calm)
  BY DEF QueueTypes, CalmInv
<1>1. CASE Create
  <2>1. /\ row' = "pending" /\ UNCHANGED <<locks, worker, faults>> /\ row = "none" /\ Push
    BY <1>1 DEF Create, bounds
  <2>2. waiting'[0] > 0
    BY <2>1, TriesType DEF Push, QueueTypes
  <2>3. Kept'
    BY <2>2, TriesType DEF Kept
  <2>4. \A w \in Workers : pc[w] \in {"acking", "releasing"} => Running
    BY <1>0, <2>1 DEF Calm, Terminal
  <2>5. Running => Running'
    BY <2>1 DEF Running, Inside, worker
  <2> QED
    BY <1>0, <2>1, <2>3, <2>4, <2>5 DEF Calm, locks, worker
<1>2. CASE CreateFails
  BY <1>0, <1>2 DEF CreateFails, Fault, OneFault
<1>3. CASE Cancel
  <2>1. UNCHANGED <<pushed, queue, locks, worker, faults>> /\ row' \in Terminal
    BY <1>3 DEF Cancel, Terminal, bounds
  <2> QED
    BY <1>0, <2>1 DEF Calm, locks, worker
<1>4. ASSUME NEW w \in Workers, WorkerStep(w) PROVE Calm'
  <2>1. faults' = faults
    BY <1>4 DEF WorkerStep, bounds, Take, Lock, Check, BuildFails, MarkRunning, Page,
         Interrupted, SourceSkips, DestinationSkips, ImportOrphan, ImportRefused, ImportRow,
         WriteObject, InsertFile, Finish, Release, AckJob, NackJob
  <2> QED
    BY <1>0, <1>4, <2>1, CalmWorker
<1>5. ASSUME NEW w \in Workers, FaultStep(w) PROVE FALSE
  <2>1. CASE faults' = faults + 1
    BY <1>0, <2>1
  <2>2. CASE faults' = faults /\ ~live[w]
    BY <1>0, <2>2 DEF Calm
  <2> QED
    BY <1>5, <2>1, <2>2 DEF FaultStep, StartFails, ImportFails, InsertFileFails, FinishFails,
         Shutdown, Crash, LoseSession, Fault, OneFault, bounds
<1>6. CASE ReapDead \/ ReapLive
  <2>1. PICK l \in Lease \cup {NoLease} : Nack(l)
    BY <1>6 DEF ReapDead, ReapLive, QueueTypes
  <2>2. UNCHANGED <<job, locks, worker, faults>>
    BY <1>6 DEF ReapDead, ReapLive, bounds
  <2>3. Kept'
    BY <2>1, NackKeeps
  <2>4. Running' <=> Running
    BY <2>2 DEF Running, Inside, worker
  <2> QED
    BY <1>0, <2>2, <2>3, <2>4 DEF Calm, job, locks, worker
<1>7. CASE UNCHANGED vars
  BY <1>0, <1>7 DEF vars, Calm, Kept, Running, Inside, job, queue, locks, worker, bounds
<1> QED
  BY <1>1, <1>2, <1>3, <1>4, <1>5, <1>6, <1>7 DEF Next

\* A migration that was accepted and is not over is never forgotten: a list has a
\* copy of its job, or a worker will yet write how it ended; unless the job was
\* dead-lettered, or a lease ran out under a live worker and something failed
\* as well. For any source, workers, retries and faults.
THEOREM MigrationHeldTheorem == Spec => []MigrationHeld
<1>1. Init => Inv /\ RunInv /\ QueueTypes /\ SoleInv /\ CalmInv
  <2> SUFFICES ASSUME Init PROVE SoleInv /\ CalmInv
    BY InitInv, RunInit, QueueTypesInit
  <2>1. leased = {} /\ (\A r \in Tries : waiting[r] = 0) /\ pushed = FALSE /\ row = "none"
    BY DEF Init, QueueInit, Tries
  <2>2. severed = {} /\ \A w \in Workers : pc[w] = "idle" /\ live[w] /\ verdict[w] = "none"
    BY DEF Init
  <2> QED
    BY <2>1, <2>2 DEF SoleInv, Sole, CalmInv, Calm
<1>2. /\ Inv /\ RunInv /\ QueueTypes /\ SoleInv /\ CalmInv /\ [Next]_vars
      => (Inv /\ RunInv /\ QueueTypes /\ SoleInv /\ CalmInv)'
  BY NextInv, RunStep, QueueTypesStep, SoleStep, CalmStep
<1>3. QueueTypes /\ SoleInv /\ CalmInv => MigrationHeld
  BY DEF QueueTypes, SoleInv, Sole, CalmInv, Calm, Kept, Running, MigrationHeld, Tries
<1> QED
  BY <1>1, <1>2, <1>3, PTL DEF Spec
=============================================================================
