------------------------- MODULE ScheduledMessages -------------------------
(***************************************************************************)
(* The messages table of internal/messaging and everybody who sends from   *)
(* it: the sweep that each replica of the cron worker runs every minute    *)
(* (messaging/service.go, SweepScheduledMessages), and the goroutine that  *)
(* a create request starts when the message is to go out at once           *)
(* (messaging/handler.go, createEmail, createSMS and createPush).          *)
(*                                                                         *)
(* The sweep is modelled without the lock of the cron tick: the comment on *)
(* SweepScheduledMessages promises that delivery does not depend on it.    *)
(* A message's text and provider are abstracted; what remains of them is   *)
(* whom it is for, and whether one call reaches everybody (email) or there *)
(* is a call per recipient (sms, push).                                    *)
(***************************************************************************)
EXTENDS Integers, Sequences, FiniteSets

CONSTANTS
  Messages,      \* the ids that messages get; a goroutine is named by its message
  Recipients,    \* the addresses, numbers and tokens messages go to
  Lists,         \* the sets of recipients that create requests name
  Sweepers,      \* the replicas of the cron worker
  BatchLimit,    \* how many due messages one sweep takes (200 in the code)
  MaxTime,       \* bound on the clock
  MaxFaults      \* bound on crashes and failed database calls together

ASSUME MessagesAssumption ==
  /\ IsFiniteSet(Messages) /\ Messages \cap Sweepers = {}
  /\ Lists \subseteq SUBSET Recipients
  /\ BatchLimit \in Nat \ {0}
  /\ MaxTime \in Nat
  /\ MaxFaults \in Nat

Workers == Sweepers \cup Messages

Statuses == {"none", "draft", "scheduled", "processing", "sent", "failed", "deleted"}

Times == 0 .. MaxTime

VARIABLES
  row,           \* the messages table: status, type, recipients, scheduled_at
  local,         \* what a sweep, or the goroutine of a message, is doing
  open,          \* the requests that started a goroutine and have not returned
  now,           \* the clock, in minutes
  given,         \* how often the provider took each message for each recipient
  withdrawn,     \* history: messages deleted before anybody had claimed them
  abandoned,     \* history: messages whose sender stopped before recording the result
  faults         \* faults so far

table == <<row, given>>
history == <<withdrawn, abandoned>>
vars == <<row, local, open, now, given, withdrawn, abandoned, faults>>

Row == [status : Statuses, type : {"email", "sms"}, to : SUBSET Recipients, at : Times]

\* pc: "idle" waits for a tick; "claim" is about to claim the head of due;
\* "send" has claimed it and works through its recipients; "done" is a
\* goroutine that has ended.
Local == [pc : {"idle", "claim", "send", "done"}, due : Seq(Messages),
          left : SUBSET Recipients, error : BOOLEAN]

\* The table, every sender and the history hold what their types say, and a
\* sender that is at a message has one: a sweep never runs off its batch.
TypeOK ==
  /\ row \in [Messages -> Row]
  /\ local \in [Workers -> Local]
  /\ \A w \in Workers : local[w].pc \in {"claim", "send"} <=> local[w].due # <<>>
  /\ open \subseteq Messages
  /\ now \in Times
  /\ given \in [Messages -> [Recipients -> Nat]]
  /\ withdrawn \subseteq Messages
  /\ abandoned \subseteq Messages
  /\ faults \in 0 .. MaxFaults

Idle == [pc |-> "idle", due |-> <<>>, left |-> {}, error |-> FALSE]
Done == [pc |-> "done", due |-> <<>>, left |-> {}, error |-> FALSE]

Init ==
  /\ row = [m \in Messages |-> [status |-> "none", type |-> "sms", to |-> {}, at |-> 0]]
  /\ local = [w \in Workers |-> Idle]
  /\ open = {}
  /\ now = 0
  /\ given = [m \in Messages |-> [r \in Recipients |-> 0]]
  /\ withdrawn = {}
  /\ abandoned = {}
  /\ faults = 0

----------------------------------------------------------------------------
(***************************************************************************)
(* The create request.                                                     *)
(***************************************************************************)

\* What to store: a draft is never sent, a future time waits for the sweep,
\* and everything else goes out at once. A request without a time is one
\* whose time is not in the future.
SendDecision(draft, at) ==
  IF draft THEN "draft" ELSE IF at > now THEN "scheduled" ELSE "processing"

\* The handler stores the message and, when it is to go out now, leaves the
\* sending to a goroutine that works with the request's own context.
Create(m) ==
  /\ row[m].status = "none"
  /\ \E draft \in BOOLEAN, at \in Times, type \in {"email", "sms"}, to \in Lists :
       LET status == SendDecision(draft, at) IN
         /\ row' = [row EXCEPT ![m] =
              [status |-> status, type |-> type, to |-> to, at |-> at]]
         /\ local' = IF status = "processing"
                       THEN [local EXCEPT ![m] =
                              [pc |-> "send", due |-> <<m>>, left |-> to, error |-> FALSE]]
                       ELSE local
         /\ open' = IF status = "processing" THEN open \cup {m} ELSE open
  /\ UNCHANGED <<now, given, history, faults>>

\* The handler returns, or the client goes away: net/http cancels the context.
Respond(m) ==
  /\ m \in open
  /\ open' = open \ {m}
  /\ UNCHANGED <<table, local, now, history, faults>>

\* The delete request removes the row whatever its status.
Delete(m) ==
  /\ row[m].status \notin {"none", "deleted"}
  /\ row' = [row EXCEPT ![m].status = "deleted"]
  /\ withdrawn' = IF row[m].status \in {"draft", "scheduled"}
                    THEN withdrawn \cup {m} ELSE withdrawn
  /\ UNCHANGED <<local, open, now, given, abandoned, faults>>

----------------------------------------------------------------------------
(***************************************************************************)
(* The sweep.                                                              *)
(***************************************************************************)

\* The query without its condition on the status, which the claim checks anyway.
DueAnyStatus == {m \in Messages : row[m].status \notin {"none", "draft", "deleted"} /\ row[m].at <= now}

\* The WHERE clause of the sweep's query.
Due == {m \in Messages : row[m].status = "scheduled" /\ row[m].at <= now}

\* The answers the query can give: as many due messages as the limit allows,
\* the earliest first, those of one minute in any order.
Batches ==
  LET n == IF Cardinality(Due) < BatchLimit THEN Cardinality(Due) ELSE BatchLimit IN
  {q \in [1 .. n -> Due] :
     /\ \A i, j \in 1 .. n : i < j => q[i] # q[j] /\ row[q[i]].at <= row[q[j]].at
     /\ \A m \in Due \ {q[i] : i \in 1 .. n} : \A i \in 1 .. n : row[q[i]].at <= row[m].at}

Sweep(s) ==
  /\ local[s].pc = "idle"
  /\ Due # {}
  /\ \E q \in Batches : local' = [local EXCEPT ![s].pc = "claim", ![s].due = q]
  /\ UNCHANGED <<table, open, now, history, faults>>

\* The state of a sweep that goes on to its next message, if it has one.
NextMessage(w) ==
  LET rest == Tail(local[w].due) IN
    IF rest = <<>> THEN Idle ELSE [Idle EXCEPT !.pc = "claim", !.due = rest]

\* An UPDATE that trusts the query and names only the id.
MatchesId(m) == row[m].status # "deleted"

\* A claim that does not look at how many rows its UPDATE changed.
MatchesAlways(m) == TRUE

\* The claim's UPDATE matches the row only while it is scheduled.
Matches(m) == row[m].status = "scheduled"

\* Claim the next message of the batch, or pass it over.
Claim(s) ==
  /\ local[s].pc = "claim"
  /\ LET m == Head(local[s].due) IN
       IF Matches(m)
         THEN /\ row' = [row EXCEPT ![m].status =
                           IF @ = "deleted" THEN @ ELSE "processing"]
              /\ local' = [local EXCEPT ![s].pc = "send", ![s].left = row[m].to]
         ELSE /\ local' = [local EXCEPT ![s] = NextMessage(s)]
              /\ UNCHANGED row
  /\ UNCHANGED <<open, now, given, history, faults>>

----------------------------------------------------------------------------
(***************************************************************************)
(* Sending, by a sweep or by the goroutine of a request.                   *)
(***************************************************************************)

Current(w) == Head(local[w].due)

\* A sweep has the worker's context, a goroutine that of its request.
Live(w) == w \in Messages => w \in open

\* One call to the provider covers all recipients of an email, and one
\* recipient of an sms or a push notification.
Calls(w) ==
  IF row[Current(w)].type = "email"
    THEN {local[w].left} \ {{}}
    ELSE {{r} : r \in local[w].left}

\* Only the last call counts.
FailedLast(w, ok) == ~ok

\* The first error is remembered while the loop goes on.
Failed(w, ok) == local[w].error \/ ~ok

\* A call that succeeds was taken by the provider; a call that fails may have
\* been (the answer was lost, or came after the timeout). A cancelled context
\* stops the calls that go over HTTP. SMTP does not look at the context.
Deliver(w) ==
  /\ local[w].pc = "send"
  /\ \E to \in Calls(w), ok, taken \in BOOLEAN :
       LET m == Current(w) IN
         /\ ok => taken
         /\ Live(w) \/ row[m].type = "email" \/ ~taken
         /\ given' = [given EXCEPT ![m] = [r \in Recipients |->
              IF taken /\ r \in to THEN given[m][r] + 1 ELSE given[m][r]]]
         /\ local' = [local EXCEPT ![w].left = @ \ to, ![w].error = Failed(w, ok)]
  /\ UNCHANGED <<row, open, now, history, faults>>

\* A sweep goes on to its next message, and a goroutine ends.
Leave(w) == IF w \in Messages THEN Done ELSE NextMessage(w)

\* UpdateMessageStatus names only the id: it overwrites any status, and matches
\* no row once the message is gone.
Outcome(status, error) ==
  IF status = "deleted" THEN status ELSE IF error THEN "failed" ELSE "sent"

Record(w) ==
  /\ local[w].pc = "send"
  /\ local[w].left = {}
  /\ Live(w)
  /\ row' = [row EXCEPT ![Current(w)].status = Outcome(@, local[w].error)]
  /\ local' = [local EXCEPT ![w] = Leave(w)]
  /\ UNCHANGED <<open, now, given, history, faults>>

\* On a cancelled context the update fails, and the goroutine drops the error.
RecordCancelled(m) ==
  /\ local[m].pc = "send"
  /\ local[m].left = {}
  /\ ~Live(m)
  /\ local' = [local EXCEPT ![m] = Done]
  /\ abandoned' = abandoned \cup {m}
  /\ UNCHANGED <<table, open, now, withdrawn, faults>>

----------------------------------------------------------------------------
(***************************************************************************)
(* Faults and the clock.                                                   *)
(***************************************************************************)

Fault == faults < MaxFaults /\ faults' = faults + 1

\* The messages w has claimed and not finished.
Claimed(w) == IF local[w].pc = "send" THEN {Current(w)} ELSE {}

\* The claim's UPDATE fails and the sweep returns. The error may hide an
\* UPDATE that the database did carry out.
ClaimFails(s) ==
  /\ local[s].pc = "claim"
  /\ Fault
  /\ LET m == Head(local[s].due) IN
       \/ UNCHANGED <<row, abandoned>>
       \/ /\ Matches(m)
          /\ row' = [row EXCEPT ![m].status = "processing"]
          /\ abandoned' = abandoned \cup {m}
  /\ local' = [local EXCEPT ![s] = Idle]
  /\ UNCHANGED <<open, now, given, withdrawn>>

\* The final UPDATE fails. A sweep returns, leaving the rest of its batch to
\* the next one; a goroutine drops the error.
RecordFails(w) ==
  /\ local[w].pc = "send"
  /\ local[w].left = {}
  /\ Fault
  /\ abandoned' = abandoned \cup Claimed(w)
  /\ local' = [local EXCEPT ![w] = IF w \in Messages THEN Done ELSE Idle]
  /\ UNCHANGED <<table, open, now, withdrawn>>

\* A replica of the cron worker dies and comes back with nothing in memory.
CrashSweeper(s) ==
  /\ local[s] # Idle
  /\ Fault
  /\ local' = [local EXCEPT ![s] = Idle]
  /\ abandoned' = abandoned \cup Claimed(s)
  /\ UNCHANGED <<table, open, now, withdrawn>>

\* The API server dies, and every request and goroutine with it.
CrashServer ==
  /\ Fault
  /\ local' = [w \in Workers |->
       IF w \in Messages /\ local[w].pc = "send" THEN Done ELSE local[w]]
  /\ open' = {}
  /\ abandoned' = abandoned \cup UNION {Claimed(m) : m \in Messages}
  /\ UNCHANGED <<table, now, withdrawn>>

TimePasses ==
  /\ now < MaxTime
  /\ now' = now + 1
  /\ UNCHANGED <<table, local, open, history, faults>>

----------------------------------------------------------------------------
\* What a sender does on its own account.
Work(w) == Deliver(w) \/ Record(w)

SweepStep(s) == Sweep(s) \/ Claim(s) \/ Work(s)

RequestStep(m) == Work(m) \/ RecordCancelled(m)

Next ==
  \/ \E m \in Messages : Create(m) \/ Respond(m) \/ Delete(m) \/ RequestStep(m)
  \/ \E s \in Sweepers : SweepStep(s) \/ ClaimFails(s) \/ CrashSweeper(s)
  \/ \E w \in Workers : RecordFails(w)
  \/ CrashServer
  \/ TimePasses

Spec == Init /\ [][Next]_vars

\* Every replica goes on ticking and its sweep goes on; a goroutine runs and
\* a handler returns. Nobody is obliged to create or to delete a message.
Fairness ==
  /\ \A s \in Sweepers : WF_vars(SweepStep(s))
  /\ \A m \in Messages : WF_vars(RequestStep(m)) /\ WF_vars(Respond(m))
  /\ WF_vars(TimePasses)

FairSpec == Spec /\ Fairness

----------------------------------------------------------------------------
(***************************************************************************)
(* Properties.                                                             *)
(***************************************************************************)

\* However many sweeps race, crash and come back, no recipient gets a message
\* twice (the claim of SweepScheduledMessages).
DeliveredOnce == \A m \in Messages, r \in Recipients : given[m][r] <= 1

\* A message that was deleted while it was a draft or still waiting for its
\* time is never delivered, although a sweep may have read it before the
\* delete and come to it afterwards.
WithdrawnNeverDelivered ==
  \A m \in withdrawn, r \in Recipients : given[m][r] = 0

\* A message is only called sent when each of its recipients has got it: the
\* failure of one of several calls is not covered up by the others.
SentReachedAll ==
  \A m \in Messages :
    row[m].status = "sent" => \A r \in row[m].to : given[m][r] = 1

\* A message in "processing" is in exactly one sender's hands, unless its
\* sender was stopped: nothing else picks it up again.
ProcessingHasOwner ==
  \A m \in Messages :
    row[m].status = "processing" =>
      \/ m \in abandoned
      \/ \E w \in Workers : Claimed(w) = {m} /\ \A v \in Workers \ {w} : Claimed(v) # {m}

\* The status only moves forward: a message that somebody has claimed is never
\* offered again, and the outcome of one that was sent or failed stays, though
\* UpdateMessageStatus overwrites whatever it finds.
StatusForward ==
  [][\A m \in Messages :
       /\ row[m].status \in {"sent", "failed"} => row'[m].status \in {row[m].status, "deleted"}
       /\ row[m].status = "processing" => row'[m].status # "scheduled"]_vars

\* A message whose time has come is taken up, even when sweeps crash or are
\* cut short and no matter how many others wait for the limited batches.
DueIsTaken ==
  \A m \in Messages : m \in Due ~> m \notin Due

\* The documentation of a create request: the sending ends in "sent" or in
\* "failed" (docs/build/messaging.mdx).
ProcessingEnds ==
  \A m \in Messages : row[m].status = "processing" ~> row[m].status # "processing"
=============================================================================
