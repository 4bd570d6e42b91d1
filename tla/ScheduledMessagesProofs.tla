---------------------- MODULE ScheduledMessagesProofs ----------------------
(***************************************************************************)
(* Proofs about ScheduledMessages, for any number of messages, recipients, *)
(* sweeps and faults.                                                      *)
(*                                                                         *)
(* Nothing in the code says who is working on a message but the word       *)
(* "processing" in its row, and that word survives its sender. The         *)
(* invariant therefore relates the row to the sender's memory: a message   *)
(* being sent is in the hands of one sender, whom the row's status has     *)
(* shut everybody else out for, and what that sender has still to do is    *)
(* exactly what the provider has not taken yet.                            *)
(***************************************************************************)
EXTENDS ScheduledMessages, SequenceTheorems, FiniteSetTheorems, TLAPS

Sends(w) == local[w].pc = "send"

\* What a sender knows of the message it has claimed.
SenderKnows(w, m) ==
  /\ row[m].status \in {"processing", "deleted"}
  /\ m \notin withdrawn
  /\ local[w].left \subseteq row[m].to
  /\ \A r \in local[w].left : given[m][r] = 0
  /\ \A r \in row[m].to \ local[w].left : local[w].error \/ given[m][r] = 1

SenderInv ==
  \A w \in Workers :
    /\ w \in Messages => local[w].pc # "claim" /\ (Sends(w) => Current(w) = w)
    /\ Sends(w) => SenderKnows(w, Current(w))

\* A message is in the hands of one sender at most.
UniqueInv ==
  \A v, w \in Workers : Sends(v) /\ Sends(w) /\ Current(v) = Current(w) => v = w

\* What the row and the provider's count say of each other.
RowInv ==
  \A m \in Messages :
    /\ row[m].status \in {"none", "draft", "scheduled"} \/ m \in withdrawn
         => \A r \in Recipients : given[m][r] = 0
    /\ m \in withdrawn => row[m].status = "deleted"
    /\ row[m].status = "sent" => \A r \in row[m].to : given[m][r] = 1
    /\ row[m].status = "processing" =>
         m \in abandoned \/ \E w \in Workers : Sends(w) /\ Current(w) = m

Inv == TypeOK /\ SenderInv /\ UniqueInv /\ RowInv /\ DeliveredOnce

----------------------------------------------------------------------------
(***************************************************************************)
(* Typing.                                                                 *)
(***************************************************************************)

\* A sender that is at a message has one.
LEMMA CurrentType ==
  ASSUME TypeOK, NEW w \in Workers, local[w].pc \in {"claim", "send"}
  PROVE  /\ local[w].due \in Seq(Messages) /\ local[w].due # <<>>
         /\ Current(w) \in Messages
<1>1. local[w] \in Local
  BY DEF TypeOK
<1>2. local[w].due \in Seq(Messages) /\ local[w].due # <<>>
  BY <1>1 DEF TypeOK, Local
<1>3. Head(local[w].due) \in Messages
  BY <1>2, HeadTailProperties
<1> QED
  BY <1>2, <1>3 DEF Current

\* What a loop that leaves its message is like: it has another one to claim,
\* or it waits for the next tick.
LEMMA LeaveType ==
  ASSUME TypeOK, NEW w \in Workers, local[w].pc \in {"claim", "send"}
  PROVE  /\ NextMessage(w) \in Local /\ Leave(w) \in Local
         /\ NextMessage(w).pc \in {"idle", "claim"}
         /\ NextMessage(w).pc = "claim" <=> NextMessage(w).due # <<>>
         /\ Leave(w).pc # "send"
         /\ Leave(w).pc = "claim" <=> Leave(w).due # <<>>
         /\ w \in Messages => Leave(w).pc = "done"
<1>1. Tail(local[w].due) \in Seq(Messages)
  BY CurrentType, HeadTailProperties
<1>2. <<>> \in Seq(Messages)
  OBVIOUS
<1>3. CASE Tail(local[w].due) = <<>>
  BY <1>2, <1>3 DEF NextMessage, Leave, Idle, Done, Local
<1>4. CASE Tail(local[w].due) # <<>>
  BY <1>1, <1>2, <1>4 DEF NextMessage, Leave, Idle, Done, Local
<1> QED
  BY <1>3, <1>4

\* A batch of a sweep that found something due is not empty.
LEMMA BatchType ==
  ASSUME NEW q \in Batches, Due # {}
  PROVE  q \in Seq(Messages) /\ q # <<>>
<1>1. IsFiniteSet(Due) /\ Due \subseteq Messages
  BY MessagesAssumption, FS_Subset DEF Due
<1>2. Cardinality(Due) \in Nat /\ Cardinality(Due) # 0
  BY <1>1, FS_CardinalityType, FS_EmptySet
<1>3. BatchLimit \in Nat \ {0}
  BY MessagesAssumption
<1>4. PICK n \in Nat \ {0} : q \in [1 .. n -> Due]
  BY <1>2, <1>3 DEF Batches
<1>5. q \in Seq(Messages) /\ Len(q) = n
  BY <1>1, <1>4
<1> QED
  BY <1>4, <1>5

LEMMA IdleType == Idle \in Local /\ Done \in Local
<1>1. <<>> \in Seq(Messages)
  OBVIOUS
<1>2. {} \in SUBSET Recipients
  OBVIOUS
<1> QED
  BY <1>1, <1>2 DEF Idle, Done, Local

LEMMA InitInv == Init => Inv
<1> SUFFICES ASSUME Init PROVE Inv
  OBVIOUS
<1>1. TypeOK
  <2>1. [status |-> "none", type |-> "sms", to |-> {}, at |-> 0] \in Row
    <3>1. {} \in SUBSET Recipients /\ 0 \in Times
      BY MessagesAssumption DEF Times
    <3> QED
      BY <3>1 DEF Row, Statuses
  <2>2. \A w \in Workers : local[w].pc = "idle" /\ local[w].due = <<>>
    BY DEF Init, Idle
  <2>3. now \in Times /\ faults \in 0 .. MaxFaults
    BY MessagesAssumption DEF Init, Times
  <2> QED
    BY <2>1, <2>2, <2>3, IdleType DEF Init, TypeOK
<1>2. \A w \in Workers : local[w].pc = "idle"
  BY DEF Init, Idle
<1>3. SenderInv /\ UniqueInv
  BY <1>2 DEF SenderInv, UniqueInv, Sends
<1>4. RowInv /\ DeliveredOnce
  BY DEF Init, RowInv, DeliveredOnce
<1> QED
  BY <1>1, <1>3, <1>4 DEF Inv

----------------------------------------------------------------------------
(***************************************************************************)
(* One lemma per kind of step.                                             *)
(***************************************************************************)

\* A step that only adds to the history and stops some senders, each of which
\* it notes, keeps the invariant: this covers the crashes and the updates that
\* fail.
LEMMA StopInv ==
  ASSUME Inv, TypeOK', row' = row, given' = given, withdrawn' = withdrawn,
         abandoned \subseteq abandoned',
         \A w \in Workers :
           \/ local'[w] = local[w]
           \/ /\ local'[w].pc # "send"
              /\ w \in Messages => local'[w].pc # "claim"
              /\ Claimed(w) \subseteq abandoned'
  PROVE  Inv'
<1>1. \A w \in Workers : Sends(w)' => local'[w] = local[w] /\ Sends(w)
  BY DEF Sends
<1>2. SenderInv'
  BY <1>1 DEF Inv, SenderInv, SenderKnows, Sends, Current
<1>3. UniqueInv'
  BY <1>1 DEF Inv, UniqueInv, Sends, Current
<1>4. RowInv'
  <2>1. ASSUME NEW m \in Messages, row'[m].status = "processing", m \notin abandoned'
        PROVE  \E w \in Workers : Sends(w)' /\ Current(w)' = m
    <3>1. PICK w \in Workers : Sends(w) /\ Current(w) = m
      BY <2>1 DEF Inv, RowInv
    <3>2. local'[w] = local[w]
      BY <2>1, <3>1 DEF Claimed, Sends
    <3> QED
      BY <3>1, <3>2 DEF Sends, Current
  <2> QED
    BY <2>1 DEF Inv, RowInv
<1>5. DeliveredOnce'
  BY DEF Inv, DeliveredOnce
<1> QED
  BY <1>2, <1>3, <1>4, <1>5 DEF Inv

\* A step that changes no row, no delivery and no sender at work.
LEMMA QuietInv ==
  ASSUME Inv, TypeOK', row' = row, given' = given,
         withdrawn' = withdrawn, abandoned' = abandoned,
         \A w \in Workers :
           \/ local'[w] = local[w]
           \/ /\ ~Sends(w) /\ local'[w].pc # "send"
              /\ w \in Messages => local'[w].pc # "claim"
  PROVE  Inv'
<1>1. \A w \in Workers : ~Sends(w) => Claimed(w) = {}
  BY DEF Claimed, Sends
<1> QED
  BY <1>1, StopInv

LEMMA CreateInv ==
  ASSUME Inv, NEW m \in Messages, Create(m)
  PROVE  Inv'
<1>1. PICK draft \in BOOLEAN, at \in Times, type \in {"email", "sms"}, to \in Lists :
        LET status == SendDecision(draft, at) IN
          /\ row' = [row EXCEPT ![m] =
               [status |-> status, type |-> type, to |-> to, at |-> at]]
          /\ local' = IF status = "processing"
                        THEN [local EXCEPT ![m] =
                               [pc |-> "send", due |-> <<m>>, left |-> to, error |-> FALSE]]
                        ELSE local
          /\ open' = IF status = "processing" THEN open \cup {m} ELSE open
  BY DEF Create
<1> DEFINE status == SendDecision(draft, at)
<1>2. status \in {"draft", "scheduled", "processing"}
  BY DEF SendDecision
<1>3. m \in Workers /\ to \in SUBSET Recipients
  BY MessagesAssumption DEF Workers
<1>4. /\ row[m].status = "none" /\ UNCHANGED <<now, given, history, faults>>
      /\ UNCHANGED <<given, withdrawn, abandoned>>
  BY DEF Create, history
<1>5. \A w \in Workers : Sends(w) => Current(w) # m
  BY <1>4 DEF Inv, SenderInv, SenderKnows
<1>6. ~Sends(m)
  BY <1>3, <1>5 DEF Inv, SenderInv
<1>7. /\ row'[m] = [status |-> status, type |-> type, to |-> to, at |-> at]
      /\ \A k \in Messages \ {m} : row'[k] = row[k]
      /\ row' \in [Messages -> Row]
  <2>1. [status |-> status, type |-> type, to |-> to, at |-> at] \in Row
    BY <1>2, <1>3 DEF Row, Statuses
  <2> QED
    BY <1>1, <2>1 DEF Inv, TypeOK
<1>8. /\ \A w \in Workers \ {m} : local'[w] = local[w]
      /\ status # "processing" => local'[m] = local[m]
      /\ status = "processing" =>
           local'[m] = [pc |-> "send", due |-> <<m>>, left |-> to, error |-> FALSE]
      /\ local' \in [Workers -> Local]
  <2>1. <<m>> \in Seq(Messages) /\ <<m>> # <<>>
    OBVIOUS
  <2>2. [pc |-> "send", due |-> <<m>>, left |-> to, error |-> FALSE] \in Local
    BY <1>3, <2>1 DEF Local
  <2> QED
    BY <1>1, <1>3, <2>2 DEF Inv, TypeOK
<1>9. TypeOK'
  <2>1. <<m>> # <<>>
    OBVIOUS
  <2> QED
    BY <1>1, <1>4, <1>7, <1>8, <2>1 DEF Inv, TypeOK
<1>10. status = "processing" => Sends(m)' /\ Current(m)' = m
  BY <1>8 DEF Sends, Current
<1>11. \A w \in Workers \ {m} : Sends(w)' = Sends(w) /\ Current(w)' = Current(w)
  BY <1>8 DEF Sends, Current
<1>12. status # "processing" => ~Sends(m)'
  BY <1>6, <1>8 DEF Sends
<1>13. \A r \in Recipients : given[m][r] = 0
  BY <1>4 DEF Inv, RowInv
<1>14. m \notin withdrawn
  BY <1>4 DEF Inv, RowInv
<1>15. SenderInv'
  <2>1. ASSUME NEW w \in Workers \ {m}
        PROVE  /\ w \in Messages => local'[w].pc # "claim" /\ (Sends(w)' => Current(w)' = w)
               /\ Sends(w)' => SenderKnows(w, Current(w))'
    <3>1. ASSUME Sends(w) PROVE Current(w) \in Messages \ {m}
      BY <1>5, <3>1, CurrentType DEF Sends, Inv
    <3> QED
      BY <1>4, <1>7, <1>8, <1>11, <3>1 DEF Inv, SenderInv, SenderKnows
  <2>2. /\ local'[m].pc # "claim" /\ (Sends(m)' => Current(m)' = m)
        /\ Sends(m)' => SenderKnows(m, Current(m))'
    BY <1>3, <1>4, <1>7, <1>8, <1>10, <1>12, <1>13, <1>14 DEF Inv, SenderInv, SenderKnows
  <2> QED
    BY <2>1, <2>2 DEF SenderInv
<1>16. UniqueInv'
  BY <1>5, <1>10, <1>11, <1>12 DEF Inv, UniqueInv
<1>17. RowInv'
  <2>1. ASSUME NEW k \in Messages, row'[k].status = "processing"
        PROVE  k \in abandoned' \/ \E w \in Workers : Sends(w)' /\ Current(w)' = k
    <3>1. CASE k = m
      BY <1>3, <1>7, <1>10, <2>1, <3>1
    <3>2. CASE k # m
      <4>1. k \in abandoned \/ \E w \in Workers \ {m} : Sends(w) /\ Current(w) = k
        BY <1>6, <1>7, <2>1, <3>2 DEF Inv, RowInv
      <4> QED
        BY <1>4, <1>11, <4>1
    <3> QED
      BY <3>1, <3>2
  <2> QED
    BY <1>2, <1>4, <1>7, <1>13, <1>14, <2>1 DEF Inv, RowInv
<1>18. DeliveredOnce'
  BY <1>4 DEF Inv, DeliveredOnce
<1> QED
  BY <1>9, <1>15, <1>16, <1>17, <1>18 DEF Inv

LEMMA DeleteInv ==
  ASSUME Inv, NEW m \in Messages, Delete(m)
  PROVE  Inv'
<1>1. /\ row' = [row EXCEPT ![m].status = "deleted"]
      /\ withdrawn' = IF row[m].status \in {"draft", "scheduled"}
                        THEN withdrawn \cup {m} ELSE withdrawn
      /\ UNCHANGED <<local, open, now, given, abandoned, faults>>
  BY DEF Delete
<1>2. row \in [Messages -> Row]
  BY DEF Inv, TypeOK
<1>3. /\ row'[m].status = "deleted" /\ row'[m].to = row[m].to
      /\ \A k \in Messages \ {m} : row'[k] = row[k]
      /\ row' \in [Messages -> Row]
  BY <1>1, <1>2 DEF Row, Statuses
<1>4. TypeOK'
  BY <1>1, <1>3 DEF Inv, TypeOK
<1>5. \A w \in Workers : Sends(w)' = Sends(w) /\ Current(w)' = Current(w)
  BY <1>1 DEF Sends, Current
<1>6. SenderInv'
  <2>1. ASSUME NEW w \in Workers, Sends(w)
        PROVE  SenderKnows(w, Current(w))'
    <3>1. Current(w) \in Messages /\ SenderKnows(w, Current(w))
      BY <2>1, CurrentType DEF Sends, Inv, SenderInv
    <3>2. Current(w) \notin withdrawn'
      BY <1>1, <3>1 DEF SenderKnows
    <3> QED
      BY <1>1, <1>3, <1>5, <3>1, <3>2 DEF SenderKnows
  <2> QED
    BY <1>1, <1>5, <2>1 DEF Inv, SenderInv
<1>7. UniqueInv'
  BY <1>5 DEF Inv, UniqueInv
<1>8. RowInv'
  BY <1>1, <1>3, <1>5 DEF Inv, RowInv
<1>9. DeliveredOnce'
  BY <1>1 DEF Inv, DeliveredOnce
<1> QED
  BY <1>4, <1>6, <1>7, <1>8, <1>9 DEF Inv

LEMMA RespondInv ==
  ASSUME Inv, NEW m \in Messages, Respond(m)
  PROVE  Inv'
<1>1. /\ open' = open \ {m}
      /\ UNCHANGED <<row, given, local, now, withdrawn, abandoned, faults>>
  BY DEF Respond, table, history
<1>2. TypeOK'
  BY <1>1 DEF Inv, TypeOK
<1> QED
  BY <1>1, <1>2, QuietInv

LEMMA TimePassesInv == Inv /\ TimePasses => Inv'
<1> SUFFICES ASSUME Inv, TimePasses PROVE Inv'
  OBVIOUS
<1>1. UNCHANGED <<row, given, local, open, withdrawn, abandoned, faults>>
  BY DEF TimePasses, table, history
<1>2. now' \in Times
  BY MessagesAssumption DEF TimePasses, Inv, TypeOK, Times
<1>3. TypeOK'
  BY <1>1, <1>2 DEF Inv, TypeOK
<1> QED
  BY <1>1, <1>3, QuietInv

LEMMA SweepInv ==
  ASSUME Inv, NEW s \in Sweepers, Sweep(s)
  PROVE  Inv'
<1>1. PICK q \in Batches : local' = [local EXCEPT ![s].pc = "claim", ![s].due = q]
  BY DEF Sweep
<1>2. /\ local[s].pc = "idle" /\ Due # {}
      /\ UNCHANGED <<row, given, open, now, withdrawn, abandoned, faults>>
  BY DEF Sweep, table, history
<1>3. q \in Seq(Messages) /\ q # <<>>
  BY <1>2, BatchType
<1>4. s \in Workers /\ s \notin Messages
  BY MessagesAssumption DEF Workers
<1>5. local \in [Workers -> Local]
  BY DEF Inv, TypeOK
<1>6. /\ local'[s].pc = "claim" /\ local'[s].due = q
      /\ \A w \in Workers \ {s} : local'[w] = local[w]
      /\ local' \in [Workers -> Local]
  BY <1>1, <1>3, <1>4, <1>5 DEF Local
<1>7. TypeOK'
  BY <1>2, <1>3, <1>6 DEF Inv, TypeOK
<1> QED
  BY <1>2, <1>4, <1>6, <1>7, QuietInv DEF Sends

LEMMA ClaimInv ==
  ASSUME Inv, NEW s \in Sweepers, Claim(s)
  PROVE  Inv'
<1> DEFINE m == Head(local[s].due)
<1>1. s \in Workers /\ s \notin Messages /\ local[s].pc = "claim"
  BY MessagesAssumption DEF Workers, Claim
<1>2. UNCHANGED <<open, now, given, withdrawn, abandoned, faults>>
  BY DEF Claim, history
<1>3. m \in Messages /\ Current(s) = m /\ local[s].due # <<>>
  BY <1>1, CurrentType DEF Inv, Current
<1>4. local \in [Workers -> Local] /\ row \in [Messages -> Row]
  BY DEF Inv, TypeOK
<1>5. CASE ~Matches(m)
  <2>1. local' = [local EXCEPT ![s] = NextMessage(s)] /\ row' = row
    BY <1>5 DEF Claim
  <2>2. /\ NextMessage(s) \in Local /\ NextMessage(s).pc \in {"idle", "claim"}
        /\ NextMessage(s).pc = "claim" <=> NextMessage(s).due # <<>>
    BY <1>1, LeaveType DEF Inv
  <2>3. local'[s] = NextMessage(s) /\ \A w \in Workers \ {s} : local'[w] = local[w]
    BY <1>1, <1>4, <2>1
  <2>4. TypeOK'
    BY <1>2, <2>1, <2>2, <2>3 DEF Inv, TypeOK
  <2> QED
    BY <1>1, <1>2, <2>1, <2>2, <2>3, <2>4, QuietInv DEF Sends
<1>6. CASE Matches(m)
  <2>1. /\ row[m].status = "scheduled"
        /\ row' = [row EXCEPT ![m].status = "processing"]
        /\ local' = [local EXCEPT ![s].pc = "send", ![s].left = row[m].to]
    BY <1>3, <1>4, <1>6 DEF Claim, Matches
  <2>2. /\ row'[m].status = "processing" /\ row'[m].to = row[m].to
        /\ \A k \in Messages \ {m} : row'[k] = row[k]
        /\ row' \in [Messages -> Row]
    BY <1>3, <1>4, <2>1 DEF Row, Statuses
  <2>3. /\ local'[s].pc = "send" /\ local'[s].due = local[s].due
        /\ local'[s].left = row[m].to
        /\ \A w \in Workers \ {s} : local'[w] = local[w]
        /\ local' \in [Workers -> Local]
    <3>1. local \in [Workers -> Local] /\ row[m].to \in SUBSET Recipients
      BY <1>3, <1>4 DEF Row
    <3>2. local[s] \in Local
      BY <1>1, <3>1
    <3>3. [local[s] EXCEPT !.pc = "send", !.left = row[m].to] \in Local
      BY <3>1, <3>2 DEF Local
    <3>4. local' = [local EXCEPT ![s] = [@ EXCEPT !.pc = "send",
                                                  !.left = row[m].to]]
      BY <2>1
    <3> QED
      BY <1>1, <3>1, <3>2, <3>3, <3>4 DEF Local
  <2>4. TypeOK'
    BY <1>2, <1>3, <2>2, <2>3 DEF Inv, TypeOK
  <2>5. Sends(s)' /\ Current(s)' = m
    BY <2>3 DEF Sends, Current
  <2>6. \A w \in Workers \ {s} : Sends(w)' = Sends(w) /\ Current(w)' = Current(w)
    BY <2>3 DEF Sends, Current
  <2>7. \A w \in Workers : Sends(w) => Current(w) \in Messages \ {m}
    <3>1. ASSUME NEW w \in Workers, Sends(w) PROVE Current(w) \in Messages
      BY <3>1, CurrentType DEF Sends, Inv
    <3> QED
      BY <2>1, <3>1 DEF Inv, SenderInv, SenderKnows
  <2>8. ~Sends(s)
    BY <1>1 DEF Sends
  <2>9. m \notin withdrawn /\ \A r \in Recipients : given[m][r] = 0
    BY <1>3, <2>1 DEF Inv, RowInv
  <2>10. row[m].to \subseteq Recipients
    BY <1>3, <1>4 DEF Row
  <2>11. SenderInv'
    <3>1. SenderKnows(s, m)'
      BY <1>2, <2>2, <2>3, <2>9, <2>10 DEF SenderKnows
    <3>2. ASSUME NEW w \in Workers \ {s}, Sends(w)
          PROVE  SenderKnows(w, Current(w))'
      <4>1. Current(w) \in Messages \ {m} /\ SenderKnows(w, Current(w))
        BY <2>7, <3>2 DEF Inv, SenderInv
      <4> QED
        BY <1>2, <2>2, <2>3, <2>6, <4>1 DEF SenderKnows
    <3> QED
      BY <1>1, <2>3, <2>5, <2>6, <3>1, <3>2 DEF Inv, SenderInv
  <2>12. UniqueInv'
    BY <2>5, <2>6, <2>7 DEF Inv, UniqueInv
  <2>13. RowInv'
    <3>1. ASSUME NEW k \in Messages, row'[k].status = "processing"
          PROVE  k \in abandoned' \/ \E w \in Workers : Sends(w)' /\ Current(w)' = k
      <4>1. CASE k = m
        BY <1>1, <2>5, <4>1
      <4>2. CASE k # m
        <5>1. k \in abandoned \/ \E w \in Workers \ {s} : Sends(w) /\ Current(w) = k
          BY <2>2, <2>8, <3>1, <4>2 DEF Inv, RowInv
        <5> QED
          BY <1>2, <2>6, <5>1
      <4> QED
        BY <4>1, <4>2
    <3> QED
      BY <1>2, <2>2, <2>9, <3>1 DEF Inv, RowInv
  <2>14. DeliveredOnce'
    BY <1>2 DEF Inv, DeliveredOnce
  <2> QED
    BY <2>4, <2>11, <2>12, <2>13, <2>14 DEF Inv
<1> QED
  BY <1>5, <1>6

LEMMA DeliverInv ==
  ASSUME Inv, NEW w \in Workers, Deliver(w)
  PROVE  Inv'
<1> DEFINE m == Current(w)
<1>1. PICK to \in Calls(w), ok \in BOOLEAN, taken \in BOOLEAN :
        /\ ok => taken
        /\ given' = [given EXCEPT ![m] = [r \in Recipients |->
             IF taken /\ r \in to THEN given[m][r] + 1 ELSE given[m][r]]]
        /\ local' = [local EXCEPT ![w].left = @ \ to, ![w].error = Failed(w, ok)]
  BY DEF Deliver
<1>2. Sends(w) /\ UNCHANGED <<row, open, now, withdrawn, abandoned, faults>>
  BY DEF Deliver, history, Sends
<1>3. m \in Messages /\ local[w].due # <<>>
  BY <1>2, CurrentType DEF Inv, Sends
<1>4. SenderKnows(w, m)
  BY <1>2 DEF Inv, SenderInv
<1>5. local \in [Workers -> Local] /\ given \in [Messages -> [Recipients -> Nat]]
  BY DEF Inv, TypeOK
<1>6. to \subseteq local[w].left
  BY DEF Calls
<1>7. local[w].left \subseteq Recipients /\ local[w].error \in BOOLEAN
  BY <1>5 DEF Local
<1>8. /\ local'[w].pc = "send" /\ local'[w].due = local[w].due
      /\ local'[w].left = local[w].left \ to
      /\ local'[w].error = (local[w].error \/ ~ok)
      /\ \A v \in Workers \ {w} : local'[v] = local[v]
      /\ local' \in [Workers -> Local]
  <2> DEFINE l == [local[w] EXCEPT !.left = @ \ to, !.error = Failed(w, ok)]
  <2>1. local' = [local EXCEPT ![w] = l]
    BY <1>1
  <2>2. local[w] \in Local /\ local[w].pc = "send"
    BY <1>2, <1>5 DEF Sends
  <2>3. Failed(w, ok) = (local[w].error \/ ~ok)
    BY DEF Failed
  <2>4. l \in Local
    BY <1>7, <2>2, <2>3 DEF Local
  <2>5. /\ l.pc = "send" /\ l.due = local[w].due
        /\ l.left = local[w].left \ to /\ l.error = (local[w].error \/ ~ok)
    BY <2>2, <2>3 DEF Local
  <2> HIDE DEF l
  <2> QED
    BY <1>5, <2>1, <2>4, <2>5
<1>9. /\ \A r \in Recipients \ to : given'[m][r] = given[m][r]
      /\ \A r \in to : given'[m][r] = IF taken THEN 1 ELSE 0
      /\ \A k \in Messages \ {m} : given'[k] = given[k]
      /\ given' \in [Messages -> [Recipients -> Nat]]
  <2>1. \A r \in to : given[m][r] = 0
    BY <1>4, <1>6 DEF SenderKnows
  <2>2. to \subseteq Recipients
    BY <1>6, <1>7
  <2>3. [r \in Recipients |-> IF taken /\ r \in to THEN given[m][r] + 1 ELSE given[m][r]]
          \in [Recipients -> Nat]
    BY <1>3, <1>5
  <2>4. /\ given'[m] = [r \in Recipients |->
             IF taken /\ r \in to THEN given[m][r] + 1 ELSE given[m][r]]
        /\ \A k \in Messages \ {m} : given'[k] = given[k]
        /\ given' \in [Messages -> [Recipients -> Nat]]
    BY <1>1, <1>3, <1>5, <2>3
  <2> QED
    BY <2>1, <2>2, <2>4
<1>10. TypeOK'
  BY <1>2, <1>3, <1>8, <1>9 DEF Inv, TypeOK, Sends
<1>11. \A v \in Workers : Sends(v)' = Sends(v) /\ Current(v)' = Current(v)
  BY <1>2, <1>8 DEF Sends, Current
<1>12. SenderInv'
  <2>1. SenderKnows(w, m)'
    <3>1. ASSUME NEW r \in row[m].to \ local'[w].left, ~local'[w].error
          PROVE  given'[m][r] = 1
      <4>1. ok /\ taken /\ ~local[w].error
        BY <1>1, <1>8, <3>1
      <4>2. row[m].to \subseteq Recipients
        BY <1>3 DEF Inv, TypeOK, Row
      <4>3. CASE r \in to
        BY <1>9, <4>1, <4>3
      <4>4. CASE r \notin to
        BY <1>4, <1>8, <1>9, <4>1, <4>2, <4>4 DEF SenderKnows
      <4> QED
        BY <4>3, <4>4
    <3>2. \A r \in local'[w].left : given'[m][r] = 0
      BY <1>4, <1>7, <1>8, <1>9 DEF SenderKnows
    <3>3. m' = m
      BY <1>11
    <3> QED
      BY <1>2, <1>4, <1>8, <3>1, <3>2, <3>3 DEF SenderKnows
  <2>2. ASSUME NEW v \in Workers \ {w}, Sends(v)
        PROVE  SenderKnows(v, Current(v))'
    <3>1. Current(v) \in Messages \ {m}
      BY <1>2, <2>2, CurrentType DEF Inv, UniqueInv, Sends
    <3>2. SenderKnows(v, Current(v))
      BY <2>2 DEF Inv, SenderInv
    <3> QED
      BY <1>2, <1>8, <1>9, <1>11, <3>1, <3>2 DEF SenderKnows
  <2>3. SenderKnows(w, Current(w))'
    BY <2>1, <1>11
  <2> QED
    BY <1>2, <1>8, <1>11, <2>2, <2>3 DEF Inv, SenderInv, Sends
<1>13. UniqueInv'
  BY <1>11 DEF Inv, UniqueInv
<1>14. RowInv'
  <2>1. row[m].status \in {"processing", "deleted"} /\ m \notin withdrawn
    BY <1>4 DEF SenderKnows
  <2> QED
    BY <1>2, <1>3, <1>9, <1>11, <2>1 DEF Inv, RowInv
<1>15. DeliveredOnce'
  <2>1. \A r \in to : given'[m][r] <= 1
    BY <1>9
  <2> QED
    BY <1>3, <1>9, <2>1 DEF Inv, DeliveredOnce
<1> QED
  BY <1>10, <1>12, <1>13, <1>14, <1>15 DEF Inv

LEMMA RecordInv ==
  ASSUME Inv, NEW w \in Workers, Record(w)
  PROVE  Inv'
<1> DEFINE m == Current(w)
<1>1. /\ Sends(w) /\ local[w].left = {}
      /\ row' = [row EXCEPT ![m].status = Outcome(@, local[w].error)]
      /\ local' = [local EXCEPT ![w] = Leave(w)]
      /\ UNCHANGED <<open, now, given, withdrawn, abandoned, faults>>
  BY DEF Record, history, Sends
<1>2. m \in Messages /\ SenderKnows(w, m)
  BY <1>1, CurrentType DEF Inv, SenderInv, Sends
<1>3. /\ Leave(w) \in Local /\ Leave(w).pc # "send"
      /\ Leave(w).pc = "claim" <=> Leave(w).due # <<>>
      /\ w \in Messages => Leave(w).pc = "done"
  BY <1>1, LeaveType DEF Inv, Sends
<1>4. local \in [Workers -> Local] /\ row \in [Messages -> Row]
  BY DEF Inv, TypeOK
<1>5. /\ local'[w] = Leave(w) /\ local' \in [Workers -> Local]
      /\ \A v \in Workers \ {w} : local'[v] = local[v]
  BY <1>1, <1>3, <1>4
<1>6. /\ row'[m].status = Outcome(row[m].status, local[w].error)
      /\ row'[m].to = row[m].to
      /\ \A k \in Messages \ {m} : row'[k] = row[k]
      /\ row' \in [Messages -> Row]
  <2>1. Outcome(row[m].status, local[w].error) \in Statuses
    BY DEF Outcome, Statuses
  <2> QED
    BY <1>1, <1>2, <1>4, <2>1 DEF Row
<1>7. row'[m].status \in {"sent", "failed", "deleted"}
  BY <1>6 DEF Outcome
<1>8. TypeOK'
  BY <1>1, <1>3, <1>5, <1>6 DEF Inv, TypeOK
<1>9. /\ ~Sends(w)'
      /\ \A v \in Workers \ {w} : Sends(v)' = Sends(v) /\ Current(v)' = Current(v)
  BY <1>3, <1>5 DEF Sends, Current
<1>10. \A v \in Workers \ {w} : Sends(v) => Current(v) \in Messages \ {m}
  <2>1. ASSUME NEW v \in Workers \ {w}, Sends(v) PROVE Current(v) \in Messages
    BY <2>1, CurrentType DEF Inv, Sends
  <2> QED
    BY <1>1, <2>1 DEF Inv, UniqueInv
<1>11. SenderInv'
  <2>1. ASSUME NEW v \in Workers \ {w}, Sends(v)
        PROVE  SenderKnows(v, Current(v))'
    <3>1. Current(v) \in Messages \ {m} /\ SenderKnows(v, Current(v))
      BY <1>10, <2>1 DEF Inv, SenderInv
    <3> QED
      BY <1>1, <1>5, <1>6, <1>9, <3>1 DEF SenderKnows
  <2> QED
    BY <1>3, <1>5, <1>9, <2>1 DEF Inv, SenderInv
<1>12. UniqueInv'
  BY <1>9 DEF Inv, UniqueInv
<1>13. RowInv'
  <2>1. row'[m].status = "sent" => \A r \in row[m].to : given[m][r] = 1
    BY <1>1, <1>2, <1>6 DEF Outcome, SenderKnows
  <2>2. ASSUME NEW k \in Messages, row'[k].status = "processing"
        PROVE  k \in abandoned' \/ \E v \in Workers : Sends(v)' /\ Current(v)' = k
    <3>1. k # m
      BY <1>7, <2>2
    <3>2. k \in abandoned \/ \E v \in Workers \ {w} : Sends(v) /\ Current(v) = k
      BY <1>6, <2>2, <3>1 DEF Inv, RowInv
    <3> QED
      BY <1>1, <1>9, <3>2
  <2>3. m \notin withdrawn
    BY <1>2 DEF SenderKnows
  <2> QED
    BY <1>1, <1>6, <1>7, <2>1, <2>2, <2>3 DEF Inv, RowInv
<1>14. DeliveredOnce'
  BY <1>1 DEF Inv, DeliveredOnce
<1> QED
  BY <1>8, <1>11, <1>12, <1>13, <1>14 DEF Inv

\* Writing one sender's state down to something that sends nothing.
LEMMA LocalType ==
  ASSUME TypeOK, NEW w \in Workers, NEW l \in Local,
         l.pc \in {"claim", "send"} <=> l.due # <<>>,
         local' = [local EXCEPT ![w] = l],
         row' = row, given' = given, withdrawn' = withdrawn, now' = now,
         open' \subseteq open, abandoned' \subseteq Messages, faults' \in 0 .. MaxFaults
  PROVE  TypeOK' /\ local'[w] = l /\ \A v \in Workers \ {w} : local'[v] = local[v]
<1>1. local \in [Workers -> Local]
  BY DEF TypeOK
<1>2. local'[w] = l /\ \A v \in Workers \ {w} : local'[v] = local[v]
  BY <1>1
<1>3. local' \in [Workers -> Local]
  BY <1>1
<1>4. \A v \in Workers : local'[v].pc \in {"claim", "send"} <=> local'[v].due # <<>>
  BY <1>2 DEF TypeOK
<1> QED
  BY <1>2, <1>3, <1>4 DEF TypeOK

LEMMA ClaimedType ==
  ASSUME TypeOK, NEW w \in Workers
  PROVE  Claimed(w) \subseteq Messages
BY CurrentType DEF Claimed

LEMMA FaultType ==
  ASSUME TypeOK, Fault
  PROVE  faults' \in 0 .. MaxFaults
BY MessagesAssumption DEF TypeOK, Fault

LEMMA RecordCancelledInv ==
  ASSUME Inv, NEW m \in Messages, RecordCancelled(m)
  PROVE  Inv'
<1>1. /\ local[m].pc = "send"
      /\ local' = [local EXCEPT ![m] = Done]
      /\ abandoned' = abandoned \cup {m}
      /\ UNCHANGED <<row, given, open, now, withdrawn, faults>>
  BY DEF RecordCancelled, table
<1>2. m \in Workers
  BY DEF Workers
<1>3. Claimed(m) = {m}
  BY <1>1, <1>2 DEF Inv, SenderInv, Sends, Claimed
<1>4. Done.pc = "done" /\ Done.due = <<>>
  BY DEF Done
<1>5. /\ TypeOK' /\ local'[m] = Done
      /\ \A v \in Workers \ {m} : local'[v] = local[v]
  <2>1. TypeOK /\ abandoned' \subseteq Messages /\ faults' \in 0 .. MaxFaults
    BY <1>1 DEF Inv, TypeOK
  <2> QED
    BY <1>1, <1>2, <1>4, <2>1, IdleType, LocalType
<1> QED
  BY <1>1, <1>3, <1>4, <1>5, StopInv

LEMMA RecordFailsInv ==
  ASSUME Inv, NEW w \in Workers, RecordFails(w)
  PROVE  Inv'
<1> DEFINE l == IF w \in Messages THEN Done ELSE Idle
<1>1. /\ local' = [local EXCEPT ![w] = l]
      /\ abandoned' = abandoned \cup Claimed(w)
      /\ UNCHANGED <<row, given, open, now, withdrawn>>
  BY DEF RecordFails, table
<1>2. l \in Local /\ l.pc \in {"idle", "done"} /\ l.due = <<>>
  BY IdleType DEF Idle, Done
<1>3. TypeOK /\ abandoned' \subseteq Messages /\ faults' \in 0 .. MaxFaults
  BY <1>1, ClaimedType, FaultType DEF Inv, TypeOK, RecordFails
<1>4. TypeOK' /\ local'[w] = l /\ \A v \in Workers \ {w} : local'[v] = local[v]
  BY <1>1, <1>2, <1>3, LocalType
<1> QED
  BY <1>1, <1>2, <1>4, StopInv

LEMMA CrashSweeperInv ==
  ASSUME Inv, NEW s \in Sweepers, CrashSweeper(s)
  PROVE  Inv'
<1>1. /\ local' = [local EXCEPT ![s] = Idle]
      /\ abandoned' = abandoned \cup Claimed(s)
      /\ UNCHANGED <<row, given, open, now, withdrawn>>
  BY DEF CrashSweeper, table
<1>2. s \in Workers
  BY DEF Workers
<1>3. Idle \in Local /\ Idle.pc = "idle" /\ Idle.due = <<>>
  BY IdleType DEF Idle
<1>4. TypeOK /\ abandoned' \subseteq Messages /\ faults' \in 0 .. MaxFaults
  BY <1>1, <1>2, ClaimedType, FaultType DEF Inv, TypeOK, CrashSweeper
<1>5. TypeOK' /\ local'[s] = Idle /\ \A v \in Workers \ {s} : local'[v] = local[v]
  BY <1>1, <1>2, <1>3, <1>4, LocalType
<1> QED
  BY <1>1, <1>2, <1>3, <1>5, StopInv

LEMMA CrashServerInv == Inv /\ CrashServer => Inv'
<1> SUFFICES ASSUME Inv, CrashServer PROVE Inv'
  OBVIOUS
<1>1. /\ local' = [w \in Workers |->
           IF w \in Messages /\ local[w].pc = "send" THEN Done ELSE local[w]]
      /\ open' = {}
      /\ abandoned' = abandoned \cup UNION {Claimed(m) : m \in Messages}
      /\ UNCHANGED <<row, given, now, withdrawn>>
  BY DEF CrashServer, table
<1>2. \A m \in Messages : m \in Workers
  BY DEF Workers
<1>3. abandoned' \subseteq Messages /\ faults' \in 0 .. MaxFaults
  BY <1>1, <1>2, ClaimedType, FaultType DEF Inv, TypeOK, CrashServer
<1>4. Done \in Local /\ Done.pc = "done" /\ Done.due = <<>>
  BY IdleType DEF Done
<1>5. TypeOK'
  <2>1. local' \in [Workers -> Local]
    BY <1>1, <1>4 DEF Inv, TypeOK
  <2>2. \A w \in Workers : local'[w].pc \in {"claim", "send"} <=> local'[w].due # <<>>
    BY <1>1, <1>4 DEF Inv, TypeOK
  <2> QED
    BY <1>1, <1>3, <2>1, <2>2 DEF Inv, TypeOK
<1>6. \A m \in Messages : Claimed(m) \subseteq abandoned'
  BY <1>1
<1>7. \A w \in Workers :
        \/ local'[w] = local[w]
        \/ local'[w].pc = "done" /\ w \in Messages
  BY <1>1, <1>4
<1> QED
  BY <1>1, <1>5, <1>6, <1>7, StopInv

LEMMA ClaimFailsInv ==
  ASSUME Inv, NEW s \in Sweepers, ClaimFails(s)
  PROVE  Inv'
<1> DEFINE m == Head(local[s].due)
<1>1. /\ local[s].pc = "claim" /\ local' = [local EXCEPT ![s] = Idle]
      /\ UNCHANGED <<open, now, given, withdrawn>>
  BY DEF ClaimFails
<1>2. s \in Workers /\ s \notin Messages
  BY MessagesAssumption DEF Workers
<1>3. Idle \in Local /\ Idle.pc = "idle" /\ Idle.due = <<>>
  BY IdleType DEF Idle
<1>4. TypeOK /\ faults' \in 0 .. MaxFaults
  BY FaultType DEF Inv, ClaimFails
<1>5. m \in Messages
  BY <1>1, <1>2, <1>4, CurrentType DEF Current
<1>6. CASE UNCHANGED <<row, abandoned>>
  <2>1. abandoned' \subseteq Messages
    BY <1>4, <1>6 DEF TypeOK
  <2>2. TypeOK' /\ local'[s] = Idle /\ \A v \in Workers \ {s} : local'[v] = local[v]
    BY <1>1, <1>2, <1>3, <1>4, <1>6, <2>1, LocalType
  <2> QED
    BY <1>1, <1>2, <1>3, <1>6, <2>2, QuietInv DEF Sends
<1>7. CASE /\ Matches(m)
           /\ row' = [row EXCEPT ![m].status = "processing"]
           /\ abandoned' = abandoned \cup {m}
  <2>1. local \in [Workers -> Local] /\ row \in [Messages -> Row]
    BY <1>4 DEF TypeOK
  <2>2. /\ row[m].status = "scheduled" /\ row'[m].status = "processing"
        /\ row'[m].to = row[m].to
        /\ \A k \in Messages \ {m} : row'[k] = row[k]
        /\ row' \in [Messages -> Row]
    BY <1>5, <1>7, <2>1 DEF Matches, Row, Statuses
  <2>3. /\ local'[s] = Idle /\ local' \in [Workers -> Local]
        /\ \A v \in Workers \ {s} : local'[v] = local[v]
    BY <1>1, <1>2, <1>3, <2>1
  <2>4. TypeOK'
    <3>1. \A w \in Workers : local'[w].pc \in {"claim", "send"} <=> local'[w].due # <<>>
      BY <1>3, <1>4, <2>3 DEF TypeOK
    <3> QED
      BY <1>1, <1>4, <1>5, <1>7, <2>2, <2>3, <3>1 DEF TypeOK
  <2>5. \A w \in Workers : Sends(w)' => Sends(w) /\ local'[w] = local[w] /\ Current(w)' = Current(w)
    BY <1>3, <2>3 DEF Sends, Current
  <2>6. ~Sends(s)
    BY <1>1 DEF Sends
  <2>7. SenderInv'
    <3>1. ASSUME NEW w \in Workers, Sends(w)'
          PROVE  SenderKnows(w, Current(w))'
      <4>1. Current(w) \in Messages /\ SenderKnows(w, Current(w))
        BY <1>4, <2>5, <3>1, CurrentType DEF Inv, SenderInv, Sends
      <4>2. Current(w) # m
        BY <2>2, <4>1 DEF SenderKnows
      <4> QED
        BY <1>1, <2>2, <2>5, <3>1, <4>1, <4>2 DEF SenderKnows
    <3> QED
      BY <1>2, <2>3, <2>5, <3>1 DEF Inv, SenderInv
  <2>8. UniqueInv'
    BY <2>5 DEF Inv, UniqueInv
  <2>9. RowInv'
    <3>1. ASSUME NEW k \in Messages \ {m}, row'[k].status = "processing"
          PROVE  k \in abandoned' \/ \E w \in Workers : Sends(w)' /\ Current(w)' = k
      <4>1. k \in abandoned \/ \E w \in Workers \ {s} : Sends(w) /\ Current(w) = k
        BY <2>2, <2>6, <3>1 DEF Inv, RowInv
      <4> QED
        BY <1>7, <2>3, <4>1 DEF Sends, Current
    <3> QED
      BY <1>1, <1>7, <2>2, <3>1 DEF Inv, RowInv
  <2>10. DeliveredOnce'
    BY <1>1 DEF Inv, DeliveredOnce
  <2> QED
    BY <2>4, <2>7, <2>8, <2>9, <2>10 DEF Inv
<1> QED
  BY <1>6, <1>7 DEF ClaimFails

LEMMA NextInv == Inv /\ [Next]_vars => Inv'
<1> SUFFICES ASSUME Inv, [Next]_vars PROVE Inv'
  OBVIOUS
<1>1. \A m \in Messages : m \in Workers
  BY DEF Workers
<1>2. \A s \in Sweepers : s \in Workers
  BY DEF Workers
<1>3. ASSUME NEW m \in Messages, Create(m) \/ Respond(m) \/ Delete(m) \/ RequestStep(m)
      PROVE  Inv'
  BY <1>1, <1>3, CreateInv, RespondInv, DeleteInv, DeliverInv, RecordInv, RecordCancelledInv
     DEF RequestStep, Work
<1>4. ASSUME NEW s \in Sweepers, SweepStep(s) \/ ClaimFails(s) \/ CrashSweeper(s)
      PROVE  Inv'
  BY <1>2, <1>4, SweepInv, ClaimInv, DeliverInv, RecordInv, ClaimFailsInv, CrashSweeperInv
     DEF SweepStep, Work
<1>5. CASE UNCHANGED vars
  <2>1. UNCHANGED <<row, given, local, open, now, withdrawn, abandoned, faults>>
    BY <1>5 DEF vars
  <2>2. TypeOK'
    BY <2>1 DEF Inv, TypeOK
  <2> QED
    BY <2>1, <2>2, QuietInv
<1> QED
  BY <1>3, <1>4, <1>5, RecordFailsInv, CrashServerInv, TimePassesInv DEF Next

----------------------------------------------------------------------------
(***************************************************************************)
(* Theorems.                                                               *)
(***************************************************************************)

\* The row, the senders' memory and the provider's count agree with each other
\* in every reachable state, whatever sweeps, requests and crashes interleave.
THEOREM InvTheorem == Spec => []Inv
<1>1. Init => Inv
  BY InitInv
<1>2. Inv /\ [Next]_vars => Inv'
  BY NextInv
<1> QED
  BY <1>1, <1>2, PTL DEF Spec

\* The table, the senders and the history hold what their types say, and a
\* sweep never indexes past the end of its batch.
THEOREM TypeTheorem == Spec => []TypeOK
<1>1. Inv => TypeOK
  BY DEF Inv
<1> QED
  BY <1>1, InvTheorem, PTL

\* However many sweeps and requests run at once and wherever they stop, no
\* recipient is given a message twice (the claim in SweepScheduledMessages).
THEOREM DeliveredOnceTheorem == Spec => []DeliveredOnce
<1>1. Inv => DeliveredOnce
  BY DEF Inv
<1> QED
  BY <1>1, InvTheorem, PTL

\* A message deleted before anybody claimed it reaches nobody, also when a
\* sweep had it in its batch already.
THEOREM WithdrawnTheorem == Spec => []WithdrawnNeverDelivered
<1>1. Inv => WithdrawnNeverDelivered
  BY DEF Inv, TypeOK, RowInv, WithdrawnNeverDelivered
<1> QED
  BY <1>1, InvTheorem, PTL

\* A message whose row says "sent" has reached each recipient exactly once: one
\* failure among several calls to the provider is not lost.
THEOREM SentReachedAllTheorem == Spec => []SentReachedAll
<1>1. Inv => SentReachedAll
  BY DEF Inv, RowInv, SentReachedAll
<1> QED
  BY <1>1, InvTheorem, PTL

\* A message in "processing" is in the hands of exactly one sender, or its
\* sender was stopped and nobody ever takes it up again.
THEOREM ProcessingHasOwnerTheorem == Spec => []ProcessingHasOwner
<1>1. Inv => ProcessingHasOwner
  <2> SUFFICES ASSUME Inv, NEW m \in Messages,
                      row[m].status = "processing", m \notin abandoned
               PROVE  \E w \in Workers : /\ Claimed(w) = {m}
                                         /\ \A v \in Workers \ {w} : Claimed(v) # {m}
    BY DEF ProcessingHasOwner
  <2>1. PICK w \in Workers : Sends(w) /\ Current(w) = m
    BY DEF Inv, RowInv
  <2>2. Claimed(w) = {m}
    BY <2>1 DEF Claimed, Sends
  <2>3. ASSUME NEW v \in Workers \ {w}, Claimed(v) = {m} PROVE FALSE
    <3>1. Sends(v) /\ Current(v) = m
      BY <2>3 DEF Claimed, Sends
    <3> QED
      BY <2>1, <3>1 DEF Inv, UniqueInv
  <2> QED
    BY <2>2, <2>3
<1> QED
  BY <1>1, InvTheorem, PTL

\* What StatusForward says of one message and one step.
Forward(m) ==
  /\ row[m].status \in {"sent", "failed"} => row'[m].status \in {row[m].status, "deleted"}
  /\ row[m].status = "processing" => row'[m].status # "scheduled"

\* No step takes a message back: a claimed one is not offered again, and an
\* outcome is overwritten by nobody but a delete, though UpdateMessageStatus
\* and the delete write whatever the status is.
THEOREM StatusForwardTheorem == Spec => StatusForward
<1>1. ASSUME Inv, [Next]_vars PROVE \A m \in Messages : Forward(m)
  <2> USE <1>1
  <2>1. row \in [Messages -> Row]
    BY DEF Inv, TypeOK
  <2>2. CASE row' = row
    BY <2>2 DEF Forward
  <2>3. ASSUME NEW k \in Messages, Create(k) PROVE \A m \in Messages : Forward(m)
    <3>1. row[k].status = "none" /\ \A m \in Messages \ {k} : row'[m] = row[m]
      BY <2>1, <2>3 DEF Create
    <3> QED
      BY <3>1 DEF Forward
  <2>4. ASSUME NEW k \in Messages, Delete(k) PROVE \A m \in Messages : Forward(m)
    <3>1. row'[k].status = "deleted" /\ \A m \in Messages \ {k} : row'[m] = row[m]
      BY <2>1, <2>4 DEF Delete, Row
    <3> QED
      BY <3>1 DEF Forward
  <2>5. ASSUME NEW w \in Workers, Record(w) PROVE \A m \in Messages : Forward(m)
    <3>1. /\ Current(w) \in Messages
          /\ row[Current(w)].status \in {"processing", "deleted"}
      BY <2>5, CurrentType DEF Inv, SenderInv, SenderKnows, Sends, Record
    <3>2. /\ row'[Current(w)].status = Outcome(row[Current(w)].status, local[w].error)
          /\ \A m \in Messages \ {Current(w)} : row'[m] = row[m]
      BY <2>1, <2>5, <3>1 DEF Record, Row
    <3> QED
      BY <3>1, <3>2 DEF Forward, Outcome
  <2>6. ASSUME NEW s \in Sweepers, Claim(s) \/ ClaimFails(s) PROVE \A m \in Messages : Forward(m)
    <3> DEFINE k == Head(local[s].due)
    <3>1. k \in Messages
      BY <2>6, CurrentType DEF Inv, Workers, Current, Claim, ClaimFails
    <3>2. \/ row' = row
          \/ /\ row[k].status = "scheduled"
             /\ row' = [row EXCEPT ![k].status = "processing"]
      BY <2>1, <2>6, <3>1 DEF Claim, ClaimFails, Matches
    <3>3. CASE /\ row[k].status = "scheduled"
               /\ row' = [row EXCEPT ![k].status = "processing"]
      <4>1. \A m \in Messages \ {k} : row'[m] = row[m]
        BY <2>1, <3>3
      <4> QED
        BY <3>3, <4>1 DEF Forward
    <3> QED
      BY <2>2, <3>2, <3>3
  <2>7. ASSUME NEW w \in Workers, Deliver(w) \/ RecordFails(w) PROVE row' = row
    BY <2>7 DEF Deliver, RecordFails, table
  <2>8. ASSUME NEW m \in Messages, Respond(m) \/ RecordCancelled(m) PROVE row' = row
    BY <2>8 DEF Respond, RecordCancelled, table
  <2>9. ASSUME NEW s \in Sweepers, Sweep(s) \/ CrashSweeper(s) PROVE row' = row
    BY <2>9 DEF Sweep, CrashSweeper, table
  <2>10. CrashServer \/ TimePasses \/ UNCHANGED vars => row' = row
    BY DEF CrashServer, TimePasses, vars, table
  <2>11. Next \/ UNCHANGED vars
    OBVIOUS
  <2>12. \A w \in Sweepers \cup Messages : w \in Workers
    BY DEF Workers
  <2> HIDE <1>1
  <2> QED
    BY <2>2, <2>3, <2>4, <2>5, <2>6, <2>7, <2>8, <2>9, <2>10, <2>11, <2>12
       DEF Next, SweepStep, RequestStep, Work
<1>2. (\A m \in Messages : Forward(m)) =>
        \A m \in Messages :
          /\ row[m].status \in {"sent", "failed"} => row'[m].status \in {row[m].status, "deleted"}
          /\ row[m].status = "processing" => row'[m].status # "scheduled"
  BY DEF Forward
<1> QED
  BY <1>1, <1>2, InvTheorem, PTL DEF Spec, StatusForward
=============================================================================
