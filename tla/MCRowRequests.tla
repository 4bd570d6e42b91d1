---------------------------- MODULE MCRowRequests ----------------------------
(***************************************************************************)
(* Instances of RowRequests for TLC: two rows, and requests that meet on   *)
(* them.                                                                   *)
(***************************************************************************)
EXTENDS RowRequests

CONSTANTS c1, c2, a, b

TwoClients == {c1, c2}
TwoRows == {a, b}

One(user, verb, id) ==
    [kind |-> "each", user |-> user, ops |-> <<[verb |-> verb, id |-> id]>>]

Many(kind, user, verb1, id1, verb2, id2) ==
    [kind |-> kind, user |-> user,
     ops |-> <<[verb |-> verb1, id |-> id1], [verb |-> verb2, id |-> id2]>>]

Upsert(id) ==
    [kind |-> "upsert", user |-> TRUE, ops |-> <<[verb |-> "get", id |-> id]>>]

\* Every operation, a bulk, the upsert, and transactions that wait for each
\* other in opposite orders, replace a row and list the table.
Requested ==
    {One(FALSE, "increment", a), One(TRUE, "append", a), Upsert(b),
     Many("each", TRUE, "delete", a, "delete", b),
     [kind |-> "tx", user |-> TRUE,
      ops |-> <<[verb |-> "update", id |-> a], [verb |-> "update", id |-> b],
                [verb |-> "list", id |-> a]>>],
     Many("tx", FALSE, "update", b, "update", a),
     Many("tx", FALSE, "delete", a, "create", a)}
==============================================================================
