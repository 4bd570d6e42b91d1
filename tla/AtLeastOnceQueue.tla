-------------------------- MODULE AtLeastOnceQueue --------------------------
(***************************************************************************)
(* What package queue promises to its callers, with the lists, the leases  *)
(* and the clock left out: a job that was accepted stays in flight until   *)
(* some worker has executed it or it has been dead-lettered; only a fault  *)
(* (a process that dies, a Redis command that fails) can make it vanish.   *)
(* It may be delivered, and executed, more than once.                      *)
(***************************************************************************)
EXTENDS Naturals

CONSTANT Jobs

VARIABLES submitted,    \* jobs Push has accepted
          inFlight,     \* jobs some list, worker or reaper still holds
          executed,     \* jobs a worker has processed successfully
          dead,         \* jobs in the dead-letter queue
          faults        \* faults so far

vars == <<submitted, inFlight, executed, dead, faults>>

Init == /\ submitted = {} /\ inFlight = {}
        /\ executed = {} /\ dead = {}
        /\ faults = 0

Submit(j) ==
  /\ j \notin submitted
  /\ submitted' = submitted \cup {j}
  /\ inFlight' = inFlight \cup {j}
  /\ UNCHANGED <<executed, dead, faults>>

Execute(j) ==
  /\ j \in submitted
  /\ executed' = executed \cup {j}
  /\ UNCHANGED <<submitted, inFlight, dead, faults>>

\* A copy is acknowledged; it may have been the last one.
Retire(j) ==
  /\ j \in executed
  /\ inFlight' = inFlight \ {j}
  /\ UNCHANGED <<submitted, executed, dead, faults>>

\* A copy has used up its retries; other copies may live on.
DeadLetter(j) ==
  /\ j \in submitted
  /\ dead' = dead \cup {j}
  /\ inFlight' \in {inFlight, inFlight \ {j}}
  /\ UNCHANGED <<submitted, executed, faults>>

\* A late reaper or a late nack puts back a job that was already settled.
Redeliver(j) ==
  /\ j \in submitted
  /\ inFlight' = inFlight \cup {j}
  /\ UNCHANGED <<submitted, executed, dead, faults>>

\* A fault may take with it what only the failing process held, S, and may be
\* met by a reaper that puts back R.
Fault(S, R) ==
  /\ faults' = faults + 1
  /\ S \subseteq inFlight /\ R \subseteq submitted
  /\ inFlight' = (inFlight \ S) \cup R
  /\ UNCHANGED <<submitted, executed, dead>>

Next ==
  \/ \E j \in Jobs : \/ Submit(j) \/ Execute(j) \/ Retire(j)
                     \/ DeadLetter(j) \/ Redeliver(j)
  \/ \E S, R \in SUBSET Jobs : Fault(S, R)

Spec == Init /\ [][Next]_vars
=============================================================================
