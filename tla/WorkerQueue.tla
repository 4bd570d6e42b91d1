---------------------------- MODULE WorkerQueue ----------------------------
(***************************************************************************)
(* The copies of ONE job on a queue, as the worker that handles it sees    *)
(* them: internal/queue/queue.go with every operation a single step. What  *)
(* may happen between the Redis commands of an operation is the subject of *)
(* JobQueue; here the queue is the environment of a handler whose own      *)
(* steps are modelled (WorkflowRuns, Transfer).                            *)
(*                                                                         *)
(* A copy in the pending list is known by its Retries alone, so that list  *)
(* is a bag. A copy in the processing list carries a LeasedAt of its own:  *)
(* no stands for it and tells two leases of the same job apart.            *)
(***************************************************************************)
EXTENDS Naturals

CONSTANTS MaxRetries,      \* Job.MaxRetries
          MaxEarly         \* bound on leases the reaper takes from live workers

ASSUME RetriesAssumption == MaxRetries \in Nat \ {0} /\ MaxEarly \in Nat

Lease == [no : Nat \ {0}, retries : 0 .. MaxRetries - 1]

VARIABLES waiting,         \* copies in the pending list, by Retries
          leased,          \* copies in the processing list
          dead,            \* copies in the dead-letter list
          deliveries       \* how often Pop has returned the job

queue == <<waiting, leased, dead, deliveries>>

QueueTypeOK ==
  /\ waiting \in [0 .. MaxRetries - 1 -> Nat]
  /\ leased \in SUBSET Lease
  /\ dead \in Nat /\ deliveries \in Nat

QueueInit ==
  /\ waiting = [r \in 0 .. MaxRetries - 1 |-> 0]
  /\ leased = {} /\ dead = 0 /\ deliveries = 0

Push ==
  /\ waiting' = [waiting EXCEPT ![0] = @ + 1]
  /\ UNCHANGED <<leased, dead, deliveries>>

\* The copy Pop would return: one with Retries r, stamped.
NextLease(r) == [no |-> deliveries + 1, retries |-> r]

Pop(r) ==
  /\ waiting[r] > 0
  /\ waiting' = [waiting EXCEPT ![r] = @ - 1]
  /\ leased' = leased \cup {NextLease(r)}
  /\ deliveries' = deliveries + 1
  /\ UNCHANGED dead

\* LREM of the receipt's own copy: nothing when the reaper has taken it.
Ack(lease) ==
  /\ leased' = leased \ {lease}
  /\ UNCHANGED <<waiting, dead, deliveries>>

\* Nack puts a copy back whether or not its LREM has found the receipt's.
Nack(lease) ==
  /\ leased' = leased \ {lease}
  /\ \/ /\ lease.retries + 1 < MaxRetries
        /\ waiting' = [waiting EXCEPT ![lease.retries + 1] = @ + 1]
        /\ UNCHANGED dead
     \/ /\ lease.retries + 1 = MaxRetries
        /\ dead' = dead + 1
        /\ UNCHANGED waiting
  /\ UNCHANGED deliveries
=============================================================================
