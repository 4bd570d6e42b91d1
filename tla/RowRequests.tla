----------------------------- MODULE RowRequests -----------------------------
(***************************************************************************)
(* The rows API of a project's databases: requests that read and write the *)
(* rows of one table in PostgreSQL transactions, over a pool with a fixed  *)
(* number of connections.                                                  *)
(*                                                                         *)
(* Sources: src/apps/backend/internal/databases/service.go (the operations *)
(* on rows and ExecuteTransaction), databases/handler.go (upsert, bulk     *)
(* requests and the transaction endpoint) and db/db.go (the pool).         *)
(*                                                                         *)
(* An operation asks the pool for its metadata and permissions, begins a   *)
(* transaction under the caller's role, executes one statement (an update  *)
(* another one, to read its row back), commits, and may ask the pool again *)
(* to build its answer.  The transaction endpoint executes several         *)
(* operations in one transaction and asks the pool for the permissions of  *)
(* each while the transaction holds its connection.  PostgreSQL (read      *)
(* committed, row locks to the end of the transaction) is modelled as far  *)
(* as these statements see it.                                             *)
(*                                                                         *)
(* A row is its incarnation (born), a counter that has an upper bound, and *)
(* the length of an array; the other columns are left out, and with them   *)
(* filters, encryption and row level security, which may refuse or fail an *)
(* operation at any point where the code asks for them (OperationFails).   *)
(***************************************************************************)
EXTENDS Integers, Sequences, FiniteSets

CONSTANTS
    Clients,     \* the goroutines that serve a request each
    Ids,         \* the row ids the requests name
    Menu,        \* the requests a client may send
    PoolSize,    \* DB_MAX_OPEN_CONNS
    Ceiling,     \* the maximum the counter column is validated against
    MaxRequests, \* bound: requests sent over the whole run
    None         \* no row

Verbs == {"create", "update", "delete", "increment", "append", "get", "list"}
Reads == {"get", "list"}

\* One operation of a request.
Ops == [verb : Verbs, id : Ids]

\* A request: "each" executes every operation in a transaction of its own and
\* skips what fails (a single operation, or a bulk of them), "upsert" looks for
\* its row first, "tx" executes all operations in one transaction.  user says
\* whether a user's session sends it; an API key is not asked for permissions.
Requests == [kind : {"each", "upsert", "tx"}, user : BOOLEAN, ops : Seq(Ops)]

ASSUME MenuAssumption ==
    \A r \in Menu :
        /\ r \in Requests
        /\ r.ops # <<>>
        /\ r.kind = "upsert" => Len(r.ops) = 1 /\ r.ops[1].verb = "get"
        /\ r.kind = "tx" => \A k \in DOMAIN r.ops :
                                r.ops[k].verb \in {"create", "update",
                                                  "delete", "list"}

\* A server serves a finite number of requests at a time.
ASSUME ClientsAssumption == IsFiniteSet(Clients)

ASSUME BoundsAssumption ==
    /\ PoolSize \in Nat \ {0}
    /\ Ceiling \in Nat
    /\ MaxRequests \in Nat

ASSUME NoneAssumption == None \notin [born : Nat, n : Nat, items : Nat]

VARIABLES
    rows,     \* [Ids -> row or None]: the table, as committed
    req,      \* [Clients -> the request being served]
    inUse,    \* connections of the pool that are taken for longer than a query
    expected, \* ghost: the table the committed operations should have made
    sent      \* requests sent so far

vars == <<rows, req, inUse, expected, sent>>
------------------------------------------------------------------------------
Rows == [born : 0..MaxRequests, n : 0..Ceiling, items : Nat]

Idle == [pc |-> "idle", kind |-> "each", user |-> FALSE, ops |-> <<>>,
         at |-> 1, no |-> 0, saw |-> None, writes |-> <<>>, did |-> {},
         hit |-> {}, size |-> 0, done |-> {}, reported |-> {}]

\* A request that is over: what is kept of it is what it committed and what
\* it reported, until the client sends the next one.
Ended(q) == [Idle EXCEPT !.kind = q.kind, !.size = q.size,
                         !.done = q.done, !.reported = q.reported]

\* The points at which a request holds a connection for its transaction.
Holding == {"lookup", "statement", "blocked", "readback", "columns", "commit"}

Init ==
    /\ rows \in [Ids -> {None, [born |-> 0, n |-> 0, items |-> 0]}]
    /\ req = [c \in Clients |-> Idle]
    /\ inUse = 0
    /\ expected = rows
    /\ sent = 0
------------------------------------------------------------------------------
(***************************************************************************)
(* What PostgreSQL shows a statement, and what the statement makes of it.  *)
(***************************************************************************)
Op(c) == req[c].ops[req[c].at]

\* A row as c's transaction sees it: its own version, or the committed one.
Sees(c, id) ==
    IF id \in DOMAIN req[c].writes THEN req[c].writes[id] ELSE rows[id]

\* Another transaction has written the row and has not ended.
Locked(c, id) == \E d \in Clients \ {c} : id \in DOMAIN req[d].writes

\* A write waits for the row's lock.  An UPDATE or a DELETE does not see, and
\* so does not wait for, a row that is only being inserted.
MustWait(c) ==
    /\ Op(c).verb \notin Reads
    /\ Locked(c, Op(c).id)
    /\ Op(c).verb = "create" \/ rows[Op(c).id] # None

\* The row a statement of c affects.  A statement that has waited goes on with
\* the row it waited for, in its latest version, or with no row if that one is
\* gone, even when another took its id.
Target(c) ==
    LET row == Sees(c, Op(c).id)
    IN  IF /\ req[c].pc = "blocked"
           /\ Op(c).verb # "create"
           /\ row # None
           /\ row.born # req[c].saw.born
        THEN None ELSE row

\* The row after an operation of request number no on it: a write sets the
\* counter to 0, an increment adds one up to the maximum, in the statement.
Effect(verb, row, no) ==
    CASE verb = "create"    -> [born |-> no, n |-> 0, items |-> 0]
      [] verb = "update"    -> [row EXCEPT !.n = 0]
      [] verb = "increment" ->
             [row EXCEPT !.n = IF @ + 1 > Ceiling THEN Ceiling ELSE @ + 1]
      [] verb = "append"    -> [row EXCEPT !.items = @ + 1]
      [] OTHER              -> None

\* What c's statement writes.
\* Broken: the increment adds to what it had read before it got the lock, as
\* the read-then-write pair did that the single UPDATE replaced.
WrittenFromRead(c) ==
    Effect(Op(c).verb,
           IF Op(c).verb = "increment" /\ req[c].pc = "blocked"
           THEN req[c].saw ELSE Target(c),
           req[c].no)

Written(c) == Effect(Op(c).verb, Target(c), req[c].no)

\* The statement does what its operation asks of it: an INSERT finds its id
\* free, RETURNING and a get find the row.  Nobody looks at how many rows a
\* plain UPDATE or DELETE affected.
Succeeds(c) ==
    CASE Op(c).verb = "create" -> Target(c) = None
      [] Op(c).verb \in {"update", "delete", "list"} -> TRUE
      [] OTHER -> Target(c) # None

\* A write that leaves a row changed.
Affects(c) == Op(c).verb = "create" \/ Target(c) # None
------------------------------------------------------------------------------
(***************************************************************************)
(* How a request goes on.                                                  *)
(***************************************************************************)
\* The request after its current operation has ended.  An error ends a
\* transaction with nothing to follow; a bulk goes on with its next row; an
\* upsert takes any error of its probe for a row that does not exist.
\* Broken: a transaction skips the operation that failed, as a bulk does.
AfterwardsSkipping(q, ok) ==
    LET next == [q EXCEPT !.at = @ + 1, !.writes = <<>>, !.saw = None]
    IN  IF q.kind = "upsert" /\ q.at = 1
        THEN [next EXCEPT !.pc = "authorize",
                          !.ops = Append(@, [verb |-> IF ok THEN "update"
                                                      ELSE "create",
                                             id |-> q.ops[1].id])]
        ELSE IF q.at = Len(q.ops) THEN Ended(q)
        ELSE IF q.kind = "tx"
        THEN [next EXCEPT !.pc = "lookup", !.writes = q.writes]
        ELSE [next EXCEPT !.pc = "authorize"]

Afterwards(q, ok) ==
    LET next == [q EXCEPT !.at = @ + 1, !.writes = <<>>, !.saw = None]
    IN  IF q.kind = "upsert" /\ q.at = 1
        THEN [next EXCEPT !.pc = "authorize",
                          !.ops = Append(@, [verb |-> IF ok THEN "update"
                                                      ELSE "create",
                                             id |-> q.ops[1].id])]
        ELSE IF q.kind = "tx" \/ q.at = Len(q.ops) THEN Ended(q)
        ELSE [next EXCEPT !.pc = "authorize"]

\* The loop of a transaction after an operation that went well.
Onward(q) ==
    IF q.kind = "tx" /\ q.at < Len(q.ops)
    THEN [q EXCEPT !.at = @ + 1, !.pc = "lookup", !.saw = None]
    ELSE [q EXCEPT !.pc = "commit", !.saw = None]

FreeConnection == inUse < PoolSize

\* The deferred Rollback gives the connection back.
\* Broken: an error path without it.
RollbackForgotten(c) == UNCHANGED inUse

Rollback(c) ==
    inUse' = IF req[c].pc \in Holding THEN inUse - 1 ELSE inUse

\* The current operation ends in an error; its transaction is undone.
Failed(c) ==
    /\ req' = [req EXCEPT ![c] = Afterwards(req[c], FALSE)]
    /\ Rollback(c)
    /\ UNCHANGED <<rows, expected, sent>>
------------------------------------------------------------------------------
(***************************************************************************)
(* The steps of a request.                                                 *)
(***************************************************************************)
\* A request arrives.
Send(c, r) ==
    /\ req[c].pc = "idle"
    /\ sent < MaxRequests
    /\ req' = [req EXCEPT ![c] =
                  [Idle EXCEPT !.pc = IF r.kind = "tx" THEN "begin"
                                      ELSE "authorize",
                               !.kind = r.kind, !.user = r.user,
                               !.ops = r.ops, !.no = sent + 1,
                               !.size = Len(r.ops)]]
    /\ sent' = sent + 1
    /\ UNCHANGED <<rows, inUse, expected>>

\* A session may change or remove only a row that is there, by what the
\* pool's own connection sees of it; a key is not asked.
Permitted(c) ==
    req[c].user /\ Op(c).verb \in {"update", "delete", "increment", "append"}
        => rows[Op(c).id] # None

\* Table, permissions and columns are looked up on the pool, one query after
\* another, before the transaction.
Authorize(c) ==
    /\ req[c].pc = "authorize"
    /\ FreeConnection
    /\ Permitted(c)
    /\ req' = [req EXCEPT ![c].pc = "begin"]
    /\ UNCHANGED <<rows, inUse, expected, sent>>

\* The same lookups for an operation of a transaction, on another connection
\* than the transaction's: they do not see what it has written.
Lookup(c) ==
    /\ req[c].pc = "lookup"
    /\ FreeConnection
    /\ Permitted(c)
    /\ req' = [req EXCEPT ![c].pc = "statement"]
    /\ UNCHANGED <<rows, inUse, expected, sent>>

\* The row is not there, or the caller may not: both before the statement.
Refuse(c) ==
    /\ req[c].pc \in {"authorize", "lookup"}
    /\ FreeConnection
    /\ ~Permitted(c)
    /\ Failed(c)

\* A transaction takes a connection and sets its role and its timeout.
Begin(c) ==
    /\ req[c].pc = "begin"
    /\ FreeConnection
    /\ req' = [req EXCEPT ![c].pc = IF req[c].kind = "tx" THEN "lookup"
                                    ELSE "statement"]
    /\ inUse' = inUse + 1
    /\ UNCHANGED <<rows, expected, sent>>

\* The statement finds its row locked.
Block(c) ==
    /\ req[c].pc = "statement"
    /\ MustWait(c)
    /\ req' = [req EXCEPT ![c].pc = "blocked", ![c].saw = rows[Op(c).id]]
    /\ UNCHANGED <<rows, inUse, expected, sent>>

\* The request with its operation done, and the row it affected written.
Did(c) == [req[c] EXCEPT !.did = @ \cup {req[c].at}]

Changed(c) ==
    IF Affects(c)
    THEN [Did(c) EXCEPT !.hit = @ \cup {req[c].at},
                        !.writes = [i \in DOMAIN @ \cup {Op(c).id} |->
                            IF i = Op(c).id THEN Written(c) ELSE @[i]]]
    ELSE Did(c)

\* A read looks up columns, an update reads its row back in another statement.
Executed(c) ==
    IF Op(c).verb \in Reads THEN [Did(c) EXCEPT !.pc = "columns"]
    ELSE IF Op(c).verb = "update" THEN [Changed(c) EXCEPT !.pc = "readback"]
    ELSE Onward(Changed(c))

\* The statement is executed; a write that affects a row locks it.
Execute(c) ==
    /\ req[c].pc \in {"statement", "blocked"}
    /\ ~MustWait(c)
    /\ Succeeds(c)
    /\ req' = [req EXCEPT ![c] = Executed(c)]
    /\ UNCHANGED <<rows, inUse, expected, sent>>

\* The read-back sees what is committed by now: when the row the UPDATE waited
\* for is gone and another has its id, it finds that one, and the request goes
\* on to report an update that affected no row.
ReadBack(c) ==
    /\ req[c].pc = "readback"
    /\ Sees(c, Op(c).id) # None
    /\ req' = [req EXCEPT ![c] = Onward(@)]
    /\ UNCHANGED <<rows, inUse, expected, sent>>

\* The statement violates the primary key, or it or the read-back finds no row.
Miss(c) ==
    /\ \/ /\ req[c].pc \in {"statement", "blocked"}
          /\ ~MustWait(c)
          /\ ~Succeeds(c)
       \/ req[c].pc = "readback" /\ Sees(c, Op(c).id) = None
    /\ Failed(c)

\* A read asks the pool for the columns' metadata before it lets its
\* transaction go; outside the transaction endpoint it then rolls it back.
Columns(c) ==
    /\ req[c].pc = "columns"
    /\ FreeConnection
    /\ IF req[c].kind = "tx"
       THEN /\ req' = [req EXCEPT ![c] = Onward(@)]
            /\ UNCHANGED inUse
       ELSE /\ req' = [req EXCEPT ![c] = Afterwards(@, TRUE)]
            /\ Rollback(c)
    /\ UNCHANGED <<rows, expected, sent>>

\* The operations that end with this commit, and what those that affected a
\* row make of the expected table.
Mine(c) ==
    IF req[c].kind = "tx" THEN req[c].did ELSE req[c].did \cap {req[c].at}

\* The table after the operations at the places in hits, one after another.
Replay(ops, hits, no, table) ==
    LET after[k \in 0..Len(ops)] ==
          IF k = 0 THEN table
          ELSE LET op == ops[k]
                   t  == after[k - 1]
               IN  IF k \in hits
                   THEN [t EXCEPT ![op.id] = Effect(op.verb, t[op.id], no)]
                   ELSE t
    IN  after[Len(ops)]

Replayed(c) ==
    Replay(req[c].ops, Mine(c) \cap req[c].hit, req[c].no, expected)

\* What a commit does in PostgreSQL.
Committed(c) ==
    /\ req[c].pc = "commit"
    /\ rows' = [i \in Ids |-> IF i \in DOMAIN req[c].writes
                              THEN req[c].writes[i] ELSE rows[i]]
    /\ expected' = Replayed(c)
    /\ inUse' = inUse - 1
    /\ UNCHANGED sent

\* The request once its operations have been committed, and reported.
Done(c) == [req[c] EXCEPT !.done = @ \cup Mine(c)]
Reported(q, ops) == [q EXCEPT !.reported = @ \cup ops]

\* The commit succeeds.  A transaction and a delete are answered; the others
\* still build their answer.
Commit(c) ==
    /\ Committed(c)
    /\ req' = [req EXCEPT ![c] =
           IF req[c].kind = "tx" \/ Op(c).verb = "delete"
           THEN Afterwards(Reported(Done(c), Mine(c)), TRUE)
           ELSE [Done(c) EXCEPT !.pc = "finish", !.writes = <<>>]]

\* The commit succeeds and its confirmation is lost: an error for the caller.
CommitUnheard(c) ==
    /\ Committed(c)
    /\ req' = [req EXCEPT ![c] = Afterwards(Done(c), FALSE)]

\* The answer is built from the row: increment and append ask the pool for the
\* encrypted columns, a create for a row its author may not read.
Finish(c) ==
    /\ req[c].pc = "finish"
    /\ Op(c).verb = "update" \/ FreeConnection
    /\ req' = [req EXCEPT ![c] =
                  Afterwards(Reported(@, {req[c].at}), TRUE)]
    /\ UNCHANGED <<rows, inUse, expected, sent>>

\* A query, a permission, a validation, a statement or a commit fails: the
\* deferred Rollback undoes what is not committed.  After the commit it is an
\* error for a write that happened.
OperationFails(c) ==
    /\ req[c].pc \notin {"idle", "blocked"}
    /\ Failed(c)

\* PostgreSQL ends a statement that waits: statement_timeout, or a deadlock.
Abort(c) ==
    /\ req[c].pc = "blocked"
    /\ Failed(c)

\* The client disconnects: its context is cancelled, which rolls back.
Leave(c) ==
    /\ req[c].pc # "idle"
    /\ req' = [req EXCEPT ![c] = Ended(@)]
    /\ Rollback(c)
    /\ UNCHANGED <<rows, expected, sent>>

\* The server dies: PostgreSQL undoes what was not committed.
Crash ==
    /\ \E c \in Clients : req[c].pc # "idle"
    /\ req' = [c \in Clients |-> Ended(req[c])]
    /\ inUse' = 0
    /\ UNCHANGED <<rows, expected, sent>>

\* A step of a request that the server takes by itself.
Serve(c) ==
    \/ Authorize(c)
    \/ Lookup(c)
    \/ Refuse(c)
    \/ Begin(c)
    \/ Block(c)
    \/ Execute(c)
    \/ ReadBack(c)
    \/ Miss(c)
    \/ Columns(c)
    \/ Commit(c)
    \/ Finish(c)

Next ==
    \/ \E c \in Clients, r \in Menu : Send(c, r)
    \/ \E c \in Clients : Serve(c)
    \/ \E c \in Clients :
        \/ CommitUnheard(c)
        \/ OperationFails(c)
        \/ Abort(c)
        \/ Leave(c)
    \/ Crash

\* The goroutine of a request runs, database/sql hands a free connection to
\* one that waits, and PostgreSQL ends a wait (deadlock_timeout, and 30 seconds
\* of statement_timeout).  Nothing bounds the wait for a connection.
Fairness == \A c \in Clients : WF_vars(Serve(c)) /\ WF_vars(Abort(c))

Spec == Init /\ [][Next]_vars /\ Fairness
------------------------------------------------------------------------------
(***************************************************************************)
(* Properties.                                                             *)
(***************************************************************************)
TypeOK ==
    /\ rows \in [Ids -> Rows \cup {None}]
    /\ expected \in [Ids -> Rows \cup {None}]
    /\ inUse \in 0..PoolSize
    /\ sent \in 0..MaxRequests
    /\ \A c \in Clients :
        /\ req[c].pc \in Holding \cup {"idle", "authorize", "begin", "finish"}
        /\ DOMAIN req[c].writes \subseteq Ids
        /\ req[c].pc \notin Holding => req[c].writes = <<>>

\* The transactions that run with a connection of the pool.
Holders == {c \in Clients : req[c].pc \in Holding}

\* Every connection that is taken is held by one transaction that runs: no
\* error path, no client that leaves and no crash loses a connection, and none
\* is given back twice.
ConnectionsAccounted == inUse = Cardinality(Holders)

\* The table is what the committed operations make of it when each that found
\* its row is applied as a whole, one after another, in the order of their
\* commits: no increment or append is lost to another that ran beside it,
\* whoever waited for whom, and nothing of an operation that failed is left.
\* AtomicNumericOp and AtomicArrayAppend compute the new value inside their
\* UPDATE for this (databases/service.go:2641-2645).  An update or a delete
\* whose row another transaction replaced while it waited affects no row, and
\* is not among those that are applied.
RowsAddUp == rows = expected

\* A transaction request is committed with all its operations or with none
\* ("all commit or, on the first error, all roll back"), and no request, a bulk
\* that counts its rows included, reports an operation whose transaction was
\* not committed.  What was reported need not have changed a row: see ReadBack.
AllOrNothing ==
    \A c \in Clients :
        /\ req[c].reported \subseteq req[c].done
        /\ req[c].kind = "tx" => req[c].done \in {{}, 1..req[c].size}

\* What a reader of the answer expects of it, and the code does not keep
\* (RowRequestsReadBack.cfg): an update that is about to be committed, and to
\* be answered with its row, has changed it.
UpdatesTakeEffect ==
    \A c \in Clients : req[c].pc = "commit" =>
        \A k \in req[c].did :
            req[c].ops[k].verb = "update" => k \in req[c].hit

\* Every request is answered, whatever it collides with: no error path keeps a
\* connection, and row locks are given back.  It needs a connection more than
\* there are requests at a time (RowRequestsPool.cfg shows why).
RequestsEnd == \A c \in Clients : req[c].pc # "idle" ~> req[c].pc = "idle"

\* The requests whose transaction may ask the pool for another connection.
Greedy ==
    {c \in Clients : /\ req[c].pc \in Holding
                     /\ req[c].kind = "tx" \/ Op(c).verb \in Reads}

\* The part of it that needs no fairness says how large the pool has to be: as
\* long as fewer transaction requests and reads run at a time than it has
\* connections, one is free, or held by a request that ends without another.
PoolMovesOn ==
    Cardinality(Greedy) < PoolSize =>
        \/ FreeConnection
        \/ \E c \in Clients \ Greedy :
               req[c].pc \in {"statement", "blocked", "readback", "commit"}
==============================================================================
