-------------------------- MODULE RowRequestsProofs --------------------------
(***************************************************************************)
(* Proofs about RowRequests, for any number of clients, rows, connections  *)
(* and requests, and any requests the endpoints accept: the table is what  *)
(* the committed operations make of it one after another, and transactions *)
(* are whole, and they do not all wait for connections of one another.     *)
(*                                                                         *)
(* What a transaction has written is kept apart until it commits.  The     *)
(* argument is that, while it runs, its own view of the table is what its  *)
(* operations make of the committed one (Faithful): no row it has written  *)
(* can change under it, because no two transactions have written the same  *)
(* row (Apart).  A commit therefore does to the table what replaying the   *)
(* operations does.                                                        *)
(***************************************************************************)
EXTENDS RowRequests, FiniteSetTheorems, WellFoundedInduction, TLAPS

------------------------------------------------------------------------------
(* Induction over numbers, for sets.                                       *)

LEMMA NatSetInduction ==
    ASSUME NEW T, 0 \in T, \A n \in Nat : n \in T => n + 1 \in T
    PROVE  Nat \subseteq T
<1>. DEFINE Rest == Nat \ T
            Less == {ss \in Nat \X Nat : ss[1] < ss[2]}
<1>. SUFFICES ASSUME Rest # {} PROVE FALSE
  OBVIOUS
<1>1. IsWellFoundedOn(Less, Nat)
  BY NatLessThanWellFounded, Zenon DEF OpToRel
<1>2. \A m, n \in Nat : m < n => <<m, n>> \in Less
  OBVIOUS
<1>. HIDE DEF Less
<1>3. PICK n \in Rest : \A m \in Rest : <<m, n>> \notin Less
  BY <1>1, WFMin
<1>4. n # 0 /\ n - 1 \in Nat /\ n - 1 < n
  OBVIOUS
<1>5. n - 1 \in T
  BY <1>2, <1>3, <1>4
<1>6. (n - 1) + 1 \in T
  BY <1>4, <1>5
<1>. QED BY <1>3, <1>4, <1>6

------------------------------------------------------------------------------
(* Replaying operations.                                                   *)

\* One operation of a replay.
Redo(ops, hits, no, k, t) ==
    IF k \in hits THEN [t EXCEPT ![ops[k].id] = Effect(ops[k].verb, t[ops[k].id], no)]
    ELSE t

\* g is the replay up to the n-th operation.
Replays(g, n, ops, hits, no, table) ==
    g = [k \in 0..n |-> IF k = 0 THEN table
                        ELSE Redo(ops, hits, no, k, g[k - 1])]

LEMMA ReplayExists ==
    ASSUME NEW ops, NEW hits, NEW no, NEW table, NEW n \in Nat
    PROVE  \E g : Replays(g, n, ops, hits, no, table)
<1>. DEFINE R(g, m) == Replays(g, m, ops, hits, no, table)
            T == {m \in Nat : \E g : R(g, m)}
<1>1. 0 \in T
  <2>. DEFINE g == [k \in 0..0 |-> table]
  <2>1. g = [k \in 0..0 |-> IF k = 0 THEN table
                            ELSE Redo(ops, hits, no, k, g[k - 1])]
    OBVIOUS
  <2>2. R(g, 0)
    BY <2>1 DEF Replays
  <2>. QED BY <2>2
<1>2. ASSUME NEW m \in Nat, m \in T PROVE m + 1 \in T
  <2>1. PICK f : R(f, m)
    BY <1>2
  <2>. DEFINE g == [k \in 0..m + 1 |->
                      IF k = m + 1 THEN Redo(ops, hits, no, m + 1, f[m])
                      ELSE f[k]]
  <2>2. f = [k \in 0..m |-> IF k = 0 THEN table
                            ELSE Redo(ops, hits, no, k, f[k - 1])]
    BY <2>1 DEF Replays
  <2>3. \A k \in 0..m : g[k] = f[k]
    OBVIOUS
  <2>4. \A k \in 0..m + 1 : g[k] = IF k = 0 THEN table
                                   ELSE Redo(ops, hits, no, k, g[k - 1])
    <3>. SUFFICES ASSUME NEW k \in 0..m + 1
                  PROVE  g[k] = IF k = 0 THEN table
                                ELSE Redo(ops, hits, no, k, g[k - 1])
      OBVIOUS
    <3>1. CASE k = m + 1
      <4>1. k # 0 /\ k - 1 = m /\ m \in 0..m
        BY <3>1
      <4>2. g[k] = Redo(ops, hits, no, m + 1, f[m])
        BY <3>1
      <4>. QED BY <4>1, <4>2, <2>3, <3>1
    <3>2. CASE k # m + 1
      <4>1. k \in 0..m /\ (k # 0 => k - 1 \in 0..m)
        BY <3>2
      <4>2. f[k] = IF k = 0 THEN table ELSE Redo(ops, hits, no, k, f[k - 1])
        BY <4>1, <2>2
      <4>. QED BY <4>1, <4>2, <2>3
    <3>. QED BY <3>1, <3>2
  <2>. HIDE DEF g
  <2>5. DOMAIN g = 0..m + 1
    BY DEF g
  <2>6. R(g, m + 1)
    <3>1. g = [k \in DOMAIN g |-> g[k]]
      BY DEF g
    <3>. QED BY <3>1, <2>4, <2>5 DEF Replays
  <2>. QED BY <2>6
<1>. HIDE DEF T
<1>3. Nat \subseteq T
  BY <1>1, <1>2, NatSetInduction
<1>. QED BY <1>3 DEF T

\* Replay is the last table of such a function.
LEMMA ReplayEquation ==
    ASSUME NEW ops, NEW hits, NEW no, NEW table, Len(ops) \in Nat
    PROVE  \E g : /\ Replays(g, Len(ops), ops, hits, no, table)
                  /\ Replay(ops, hits, no, table) = g[Len(ops)]
<1>. DEFINE g == CHOOSE f : Replays(f, Len(ops), ops, hits, no, table)
<1>1. Replays(g, Len(ops), ops, hits, no, table)
  BY ReplayExists
<1>2. Replay(ops, hits, no, table) = g[Len(ops)]
  BY DEF Replay, Replays, Redo
<1>. QED BY <1>1, <1>2

\* Nothing happens to the table where no operation is replayed.
LEMMA ReplayConstant ==
    ASSUME NEW ops, NEW hits, NEW no, NEW table, NEW n \in Nat, NEW g,
           Replays(g, n, ops, hits, no, table),
           NEW a \in 0..n, \A k \in hits : ~(k \in a + 1..n)
    PROVE  g[n] = g[a]
<1>. DEFINE T == {m \in Nat : a + m \in 0..n => g[a + m] = g[a]}
<1>1. \A k \in 0..n : g[k] = IF k = 0 THEN table
                             ELSE Redo(ops, hits, no, k, g[k - 1])
  BY DEF Replays
<1>2. 0 \in T
  OBVIOUS
<1>3. ASSUME NEW m \in Nat, m \in T PROVE m + 1 \in T
  <2>. SUFFICES ASSUME a + (m + 1) \in 0..n PROVE g[a + (m + 1)] = g[a]
    OBVIOUS
  <2>1. /\ a + m \in 0..n /\ (a + (m + 1)) - 1 = a + m /\ a + (m + 1) # 0
        /\ a + (m + 1) \in a + 1..n
    OBVIOUS
  <2>2. a + (m + 1) \notin hits
    BY <2>1
  <2>3. g[a + (m + 1)] = Redo(ops, hits, no, a + (m + 1), g[a + m])
    BY <1>1, <2>1
  <2>4. g[a + (m + 1)] = g[a + m]
    BY <2>2, <2>3 DEF Redo
  <2>. QED BY <1>3, <2>1, <2>4
<1>. HIDE DEF T
<1>4. n - a \in Nat /\ a + (n - a) = n /\ n \in 0..n
  OBVIOUS
<1>5. n - a \in T
  BY <1>2, <1>3, <1>4, NatSetInduction
<1>. QED BY <1>4, <1>5 DEF T

LEMMA ReplayNothing ==
    ASSUME NEW ops, NEW no, NEW table, Len(ops) \in Nat
    PROVE  Replay(ops, {}, no, table) = table
<1>1. PICK g : /\ Replays(g, Len(ops), ops, {}, no, table)
               /\ Replay(ops, {}, no, table) = g[Len(ops)]
  BY ReplayEquation
<1>2. 0 \in 0..Len(ops)
  OBVIOUS
<1>3. g[Len(ops)] = g[0]
  BY <1>1, <1>2, ReplayConstant
<1>4. g[0] = table
  BY <1>1, <1>2 DEF Replays
<1>. QED BY <1>1, <1>3, <1>4

\* Up to the first operation only one of them replays, two replays are equal.
LEMMA ReplayPrefix ==
    ASSUME NEW ops, NEW S, NEW T, NEW no, NEW table, NEW n \in Nat,
           NEW g, Replays(g, n, ops, S, no, table),
           NEW h, Replays(h, n, ops, T, no, table),
           NEW a \in 0..n, \A k \in 1..a : k \in S <=> k \in T
    PROVE  g[a] = h[a]
<1>. DEFINE U == {m \in Nat : m <= a => g[m] = h[m]}
<1>1. \A k \in 0..n : g[k] = IF k = 0 THEN table
                             ELSE Redo(ops, S, no, k, g[k - 1])
  BY DEF Replays
<1>2. \A k \in 0..n : h[k] = IF k = 0 THEN table
                             ELSE Redo(ops, T, no, k, h[k - 1])
  BY DEF Replays
<1>3. 0 \in U
  BY <1>1, <1>2
<1>4. ASSUME NEW m \in Nat, m \in U PROVE m + 1 \in U
  <2>. SUFFICES ASSUME m + 1 <= a PROVE g[m + 1] = h[m + 1]
    OBVIOUS
  <2>1. m + 1 \in 1..a /\ m + 1 \in 0..n /\ (m + 1) - 1 = m /\ m + 1 # 0 /\ m <= a
    OBVIOUS
  <2>2. g[m + 1] = Redo(ops, S, no, m + 1, g[m])
    BY <1>1, <2>1
  <2>3. h[m + 1] = Redo(ops, T, no, m + 1, h[m])
    BY <1>2, <2>1
  <2>4. g[m] = h[m]
    BY <1>4, <2>1
  <2>5. m + 1 \in S <=> m + 1 \in T
    BY <2>1
  <2>. QED BY <2>2, <2>3, <2>4, <2>5 DEF Redo
<1>. HIDE DEF U
<1>5. a \in U
  BY <1>3, <1>4, NatSetInduction
<1>. QED BY <1>5 DEF U

\* One more operation, after all others.
LEMMA ReplayOneMore ==
    ASSUME NEW ops, NEW S, NEW no, NEW table, Len(ops) \in Nat,
           NEW n \in 1..Len(ops), S \subseteq 1..n - 1
    PROVE  Replay(ops, S \cup {n}, no, table)
             = Redo(ops, {n}, no, n, Replay(ops, S, no, table))
<1>. DEFINE T == S \cup {n}
            len == Len(ops)
<1>1. PICK g : Replays(g, len, ops, S, no, table)
               /\ Replay(ops, S, no, table) = g[len]
  BY ReplayEquation
<1>2. PICK h : Replays(h, len, ops, T, no, table)
               /\ Replay(ops, T, no, table) = h[len]
  BY ReplayEquation
<1>3. /\ len \in Nat /\ n \in 0..len /\ n - 1 \in 0..len /\ n # 0
      /\ \A k \in S : ~(k \in (n - 1) + 1..len)
      /\ \A k \in T : ~(k \in n + 1..len)
      /\ \A k \in 1..n - 1 : k \in S <=> k \in T
  OBVIOUS
<1>. HIDE DEF T, len
<1>4. g[len] = g[n - 1]
  BY <1>1, <1>3, ReplayConstant
<1>5. h[len] = h[n]
  BY <1>2, <1>3, ReplayConstant
<1>6. g[n - 1] = h[n - 1]
  <2>. DEFINE a == n - 1
  <2>1. a \in 0..len /\ \A k \in 1..a : k \in S <=> k \in T
    BY <1>3
  <2>. HIDE DEF a
  <2>2. g[a] = h[a]
    BY <1>1, <1>2, <1>3, <2>1, ReplayPrefix
  <2>. QED BY <2>2 DEF a
<1>7. h[n] = Redo(ops, T, no, n, h[n - 1])
  BY <1>2, <1>3 DEF Replays
<1>8. Redo(ops, T, no, n, h[n - 1]) = Redo(ops, {n}, no, n, h[n - 1])
  BY DEF Redo, T
<1>. QED BY <1>1, <1>2, <1>4, <1>5, <1>6, <1>7, <1>8 DEF T

\* What becomes of a row depends on that row alone.
LEMMA ReplayRow ==
    ASSUME NEW ops \in Seq(Ops), NEW S, NEW no,
           NEW t, t = [j \in Ids |-> t[j]], NEW u, u = [j \in Ids |-> u[j]],
           NEW i \in Ids, t[i] = u[i]
    PROVE  Replay(ops, S, no, t)[i] = Replay(ops, S, no, u)[i]
<1>. DEFINE len == Len(ops)
            Table(f) == f = [j \in Ids |-> f[j]]
<1>0. len \in Nat /\ \A k \in 1..len : ops[k] \in Ops
  OBVIOUS
<1>1. PICK g : Replays(g, len, ops, S, no, t)
               /\ Replay(ops, S, no, t) = g[len]
  BY <1>0, ReplayEquation
<1>2. PICK h : Replays(h, len, ops, S, no, u)
               /\ Replay(ops, S, no, u) = h[len]
  BY <1>0, ReplayEquation
<1>3. \A k \in 0..len : g[k] = IF k = 0 THEN t
                               ELSE Redo(ops, S, no, k, g[k - 1])
  BY <1>1 DEF Replays
<1>4. \A k \in 0..len : h[k] = IF k = 0 THEN u
                               ELSE Redo(ops, S, no, k, h[k - 1])
  BY <1>2 DEF Replays
<1>. DEFINE T == {m \in Nat : m <= len => /\ Table(g[m]) /\ Table(h[m])
                                          /\ g[m][i] = h[m][i]}
<1>5. 0 \in T
  <2>1. 0 \in 0..len
    BY <1>0
  <2>2. g[0] = t /\ h[0] = u
    BY <1>3, <1>4, <2>1
  <2>. QED BY <2>2
<1>6. ASSUME NEW m \in Nat, m \in T PROVE m + 1 \in T
  <2>. SUFFICES ASSUME m + 1 <= len
                PROVE  /\ Table(g[m + 1]) /\ Table(h[m + 1])
                       /\ g[m + 1][i] = h[m + 1][i]
    OBVIOUS
  <2>1. m + 1 \in 1..len /\ m + 1 \in 0..len /\ (m + 1) - 1 = m /\ m + 1 # 0
        /\ m <= len
    BY <1>0
  <2>2. g[m + 1] = Redo(ops, S, no, m + 1, g[m])
    BY <1>3, <2>1
  <2>3. h[m + 1] = Redo(ops, S, no, m + 1, h[m])
    BY <1>4, <2>1
  <2>4. Table(g[m]) /\ Table(h[m]) /\ g[m][i] = h[m][i]
    BY <1>6, <2>1
  <2>5. ops[m + 1].id \in Ids
    BY <1>0, <2>1 DEF Ops
  <2>6. CASE m + 1 \notin S
    BY <2>2, <2>3, <2>4, <2>6 DEF Redo
  <2>7. CASE m + 1 \in S
    <3>. DEFINE id == ops[m + 1].id
                verb == ops[m + 1].verb
    <3>1. g[m + 1] = [g[m] EXCEPT ![id] = Effect(verb, g[m][id], no)]
      BY <2>2, <2>7 DEF Redo
    <3>2. h[m + 1] = [h[m] EXCEPT ![id] = Effect(verb, h[m][id], no)]
      BY <2>3, <2>7 DEF Redo
    <3>3. DOMAIN g[m] = Ids /\ DOMAIN h[m] = Ids
      BY <2>4
    <3>. HIDE DEF id, verb
    <3>4. Table(g[m + 1]) /\ Table(h[m + 1])
      BY <3>1, <3>2, <3>3
    <3>5. CASE id = i
      <4>1. g[m][id] = h[m][id]
        BY <2>4, <3>5
      <4>. DEFINE new == Effect(verb, g[m][id], no)
      <4>2. g[m + 1] = [g[m] EXCEPT ![id] = new]
        BY <3>1
      <4>3. h[m + 1] = [h[m] EXCEPT ![id] = new]
        BY <3>2, <4>1
      <4>. HIDE DEF new
      <4>. QED BY <4>2, <4>3, <3>3, <3>4, <3>5
    <3>6. CASE id # i
      BY <3>1, <3>2, <3>3, <3>6, <2>4
    <3>. QED BY <3>4, <3>5, <3>6
  <2>. QED BY <2>6, <2>7
<1>. HIDE DEF T, len
<1>7. len \in T
  BY <1>0, <1>5, <1>6, NatSetInduction
<1>. QED BY <1>0, <1>1, <1>2, <1>7 DEF T

\* A row no operation touches stays as it was.
LEMMA ReplayUntouched ==
    ASSUME NEW ops \in Seq(Ops), NEW S, NEW no,
           NEW t, t = [j \in Ids |-> t[j]], NEW i \in Ids,
           \A k \in S : ops[k].id # i
    PROVE  Replay(ops, S, no, t)[i] = t[i]
<1>. DEFINE len == Len(ops)
            Table(f) == f = [j \in Ids |-> f[j]]
<1>0. len \in Nat /\ \A k \in 1..len : ops[k] \in Ops
  OBVIOUS
<1>1. PICK g : Replays(g, len, ops, S, no, t)
               /\ Replay(ops, S, no, t) = g[len]
  BY <1>0, ReplayEquation
<1>2. \A k \in 0..len : g[k] = IF k = 0 THEN t
                               ELSE Redo(ops, S, no, k, g[k - 1])
  BY <1>1 DEF Replays
<1>. DEFINE T == {m \in Nat : m <= len => Table(g[m]) /\ g[m][i] = t[i]}
<1>3. 0 \in T
  <2>1. 0 \in 0..len
    BY <1>0
  <2>2. g[0] = t
    BY <1>2, <2>1
  <2>. QED BY <2>2
<1>4. ASSUME NEW m \in Nat, m \in T PROVE m + 1 \in T
  <2>. SUFFICES ASSUME m + 1 <= len
                PROVE  Table(g[m + 1]) /\ g[m + 1][i] = t[i]
    OBVIOUS
  <2>1. m + 1 \in 1..len /\ m + 1 \in 0..len /\ (m + 1) - 1 = m /\ m + 1 # 0
        /\ m <= len
    BY <1>0
  <2>2. g[m + 1] = Redo(ops, S, no, m + 1, g[m])
    BY <1>2, <2>1
  <2>3. Table(g[m]) /\ g[m][i] = t[i]
    BY <1>4, <2>1
  <2>4. CASE m + 1 \notin S
    BY <2>2, <2>3, <2>4 DEF Redo
  <2>5. CASE m + 1 \in S
    <3>. DEFINE id == ops[m + 1].id
                new == Effect(ops[m + 1].verb, g[m][id], no)
    <3>1. g[m + 1] = [g[m] EXCEPT ![id] = new]
      BY <2>2, <2>5 DEF Redo
    <3>2. id \in Ids /\ id # i
      BY <1>0, <2>1, <2>5 DEF Ops
    <3>3. DOMAIN g[m] = Ids
      BY <2>3
    <3>. HIDE DEF id, new
    <3>. QED BY <2>3, <3>1, <3>2, <3>3
  <2>. QED BY <2>4, <2>5
<1>. HIDE DEF T, len
<1>5. len \in T
  BY <1>0, <1>3, <1>4, NatSetInduction
<1>. QED BY <1>0, <1>1, <1>5 DEF T

\* A replay of operations is a table.
LEMMA ReplayTable ==
    ASSUME NEW ops \in Seq(Ops), NEW S, NEW no,
           NEW t, t = [j \in Ids |-> t[j]]
    PROVE  Replay(ops, S, no, t) = [j \in Ids |-> Replay(ops, S, no, t)[j]]
<1>. DEFINE len == Len(ops)
            Table(f) == f = [j \in Ids |-> f[j]]
<1>0. len \in Nat
  OBVIOUS
<1>1. PICK g : Replays(g, len, ops, S, no, t)
               /\ Replay(ops, S, no, t) = g[len]
  BY <1>0, ReplayEquation
<1>2. \A k \in 0..len : g[k] = IF k = 0 THEN t
                               ELSE Redo(ops, S, no, k, g[k - 1])
  BY <1>1 DEF Replays
<1>. DEFINE T == {m \in Nat : m <= len => Table(g[m])}
<1>3. 0 \in T
  <2>1. 0 \in 0..len
    BY <1>0
  <2>2. g[0] = t
    BY <1>2, <2>1
  <2>. QED BY <2>2
<1>4. ASSUME NEW m \in Nat, m \in T PROVE m + 1 \in T
  <2>. SUFFICES ASSUME m + 1 <= len PROVE Table(g[m + 1])
    OBVIOUS
  <2>1. m + 1 \in 0..len /\ (m + 1) - 1 = m /\ m + 1 # 0 /\ m <= len
    BY <1>0
  <2>2. g[m + 1] = Redo(ops, S, no, m + 1, g[m])
    BY <1>2, <2>1
  <2>3. Table(g[m])
    BY <1>4, <2>1
  <2>. DEFINE id == ops[m + 1].id
              new == Effect(ops[m + 1].verb, g[m][id], no)
  <2>4. g[m + 1] = [g[m] EXCEPT ![id] = new] \/ g[m + 1] = g[m]
    BY <2>2 DEF Redo
  <2>. HIDE DEF id, new
  <2>. QED BY <2>3, <2>4
<1>. HIDE DEF T, len
<1>5. len \in T
  BY <1>0, <1>3, <1>4, NatSetInduction
<1>. QED BY <1>0, <1>1, <1>5 DEF T

------------------------------------------------------------------------------
(* The invariant.                                                          *)

PCs    == Holding \cup {"idle", "authorize", "begin", "finish"}
Values == Rows \cup {None}
Tables == UNION {[S -> Values] : S \in SUBSET Ids}

RequestType ==
    [pc : PCs, kind : {"each", "upsert", "tx"}, user : BOOLEAN,
     ops : Seq(Ops), at : Nat, no : 0..MaxRequests, saw : Values,
     writes : Tables, did : SUBSET Nat, hit : SUBSET Nat, size : Nat,
     done : SUBSET Nat, reported : SUBSET Nat]

\* Where a request is, what it has done and what it has reported.
FieldsOK(q) ==
    /\ q.hit \subseteq q.did /\ q.did \subseteq 1..q.at
    /\ q.reported \subseteq q.done
    /\ q.pc # "idle" => q.at \in 1..Len(q.ops)
    /\ q.pc \notin Holding => q.writes = <<>>

\* A transaction has done all operations up to where it is, and commits after
\* the last.
DoneWhole(q) == q.kind = "tx" => q.done \in {{}, 1..q.size}
TxOK(q) ==
    q.kind = "tx" =>
        /\ q.pc # "idle" => q.done = {} /\ q.size = Len(q.ops)
        /\ q.pc \notin {"authorize", "finish"}
        /\ q.pc = "begin" => q.at = 1 /\ q.did = {}
        /\ q.pc \in {"lookup", "statement", "blocked"} => q.did = 1..q.at - 1
        /\ q.pc \in {"readback", "columns", "commit"} => q.did = 1..q.at
        /\ q.pc = "commit" => q.at = Len(q.ops)

\* Any other request has one operation in a transaction at a time.
EachOK(q) ==
    q.kind # "tx" =>
        /\ q.pc # "lookup"
        /\ q.pc \in {"authorize", "begin", "statement", "blocked"} =>
               q.at \notin q.did /\ q.writes = <<>>
        /\ q.pc \in {"readback", "columns", "commit"} => q.at \in q.did
        /\ q.pc = "finish" => q.at \in q.done

Good(q) ==
    q \in RequestType /\ FieldsOK(q) /\ DoneWhole(q) /\ TxOK(q) /\ EachOK(q)

\* What the current transaction of q has written, and sees.
HitsOf(q) == (IF q.kind = "tx" THEN q.did ELSE q.did \cap {q.at}) \cap q.hit
SeesOf(q, table, i) == IF i \in DOMAIN q.writes THEN q.writes[i] ELSE table[i]

\* A transaction sees what its operations make of the committed table.
Faithful(q, table) ==
    q.pc \in Holding =>
        /\ \A k \in HitsOf(q) : q.ops[k].id \in DOMAIN q.writes
        /\ \A i \in Ids :
               Replay(q.ops, HitsOf(q), q.no, table)[i] = SeesOf(q, table, i)

\* No two transactions have written the same row.
Apart(q, p) == DOMAIN q.writes \cap DOMAIN p.writes = {}

Inv ==
    /\ rows \in [Ids -> Values]
    /\ sent \in 0..MaxRequests
    /\ req \in [Clients -> RequestType]
    /\ \A c \in Clients : Good(req[c])
    /\ \A c, d \in Clients : c # d => Apart(req[c], req[d])
    /\ \A c \in Clients : Faithful(req[c], rows)
    /\ RowsAddUp

LEMMA NoWrites == <<>> \in Tables /\ DOMAIN <<>> = {}
<1>1. <<>> = [i \in {} |-> i]
  OBVIOUS
<1>2. <<>> \in [{} -> Values] /\ DOMAIN <<>> = {}
  BY <1>1
<1>. QED BY <1>2 DEF Tables

LEMMA WritesAreTables ==
    ASSUME NEW w \in Tables
    PROVE  DOMAIN w \subseteq Ids /\ w = [i \in DOMAIN w |-> w[i]]
           /\ \A i \in DOMAIN w : w[i] \in Values
  BY DEF Tables

LEMMA IdleGood == Good(Idle)
<1>1. Idle \in RequestType
  BY NoWrites, BoundsAssumption DEF Idle, RequestType, PCs, Values
<1>. QED BY <1>1, NoWrites
       DEF Good, FieldsOK, DoneWhole, TxOK, EachOK, Idle, Holding

\* How a request that is not in a transaction any more looks.
Released(q) == Good(q) /\ q.pc \notin Holding /\ q.writes = <<>>

LEMMA EndedReleased ==
    ASSUME NEW q \in RequestType, q.reported \subseteq q.done, DoneWhole(q)
    PROVE  Released(Ended(q)) /\ Ended(q).pc = "idle"
<1>1. Idle \in RequestType
  BY IdleGood DEF Good
<1>2. Ended(q) = [Idle EXCEPT !.kind = q.kind, !.size = q.size,
                              !.done = q.done, !.reported = q.reported]
  BY DEF Ended
<1>3. Ended(q) \in RequestType
  BY <1>1, <1>2 DEF RequestType
<1>4. /\ Ended(q).pc = "idle" /\ Ended(q).writes = <<>>
      /\ Ended(q).did = {} /\ Ended(q).hit = {}
      /\ Ended(q).kind = q.kind /\ Ended(q).size = q.size
      /\ Ended(q).done = q.done /\ Ended(q).reported = q.reported
  BY <1>2 DEF Idle
<1>. HIDE DEF Ended
<1>. QED BY <1>3, <1>4
       DEF Released, Good, FieldsOK, DoneWhole, TxOK, EachOK, Holding

LEMMA AfterwardsReleased ==
    ASSUME NEW q \in RequestType, FieldsOK(q), DoneWhole(q), q.pc # "idle",
           NEW ok \in BOOLEAN
    PROVE  Released(Afterwards(q, ok))
<1>. DEFINE next == [q EXCEPT !.at = @ + 1, !.writes = <<>>, !.saw = None]
            again == [next EXCEPT !.pc = "authorize"]
            probe == [verb |-> IF ok THEN "update" ELSE "create",
                      id |-> q.ops[1].id]
            second == [next EXCEPT !.pc = "authorize", !.ops = Append(@, probe)]
<1>1. q.at \in 1..Len(q.ops) /\ q.ops \in Seq(Ops) /\ Len(q.ops) \in Nat
  BY DEF FieldsOK, RequestType
<1>2. next \in RequestType
  <2>1. q.at + 1 \in Nat
    BY DEF RequestType
  <2>2. None \in Values
    BY DEF Values
  <2>. QED BY <2>1, <2>2, NoWrites DEF RequestType
<1>3. /\ next.at = q.at + 1 /\ next.writes = <<>> /\ next.kind = q.kind
      /\ next.ops = q.ops /\ next.did = q.did /\ next.hit = q.hit
      /\ next.done = q.done /\ next.reported = q.reported
  BY DEF RequestType
<1>. HIDE DEF next
<1>4. CASE q.kind = "upsert" /\ q.at = 1
  <2>1. probe \in Ops
    <3>1. q.ops[1] \in Ops
      BY <1>1, <1>4
    <3>. QED BY <3>1 DEF Ops, Verbs
  <2>. HIDE DEF probe
  <2>2. /\ Append(q.ops, probe) \in Seq(Ops)
        /\ Len(Append(q.ops, probe)) = Len(q.ops) + 1
    BY <1>1, <2>1
  <2>3. second \in RequestType
    BY <1>2, <1>3, <2>2 DEF RequestType, PCs
  <2>4. /\ second.pc = "authorize" /\ second.at = q.at + 1
        /\ second.ops = Append(q.ops, probe)
        /\ second.writes = <<>> /\ second.kind = q.kind
        /\ second.did = q.did /\ second.hit = q.hit
        /\ second.done = q.done /\ second.reported = q.reported
    BY <1>2, <1>3 DEF RequestType
  <2>. HIDE DEF second
  <2>5. second.at \in 1..Len(second.ops) /\ second.at \notin second.did
        /\ second.did \subseteq 1..second.at
    BY <2>2, <2>4, <1>1 DEF FieldsOK
  <2>6. Released(second)
    BY <2>3, <2>4, <2>5, <1>4
       DEF Released, Good, FieldsOK, DoneWhole, TxOK, EachOK, Holding
  <2>7. Afterwards(q, ok) = second
    BY <1>4 DEF Afterwards, second, next, probe
  <2>. QED BY <2>6, <2>7
<1>5. CASE ~(q.kind = "upsert" /\ q.at = 1) /\ (q.kind = "tx" \/ q.at = Len(q.ops))
  <2>1. Afterwards(q, ok) = Ended(q)
    BY <1>5 DEF Afterwards
  <2>. QED BY <2>1, EndedReleased DEF FieldsOK
<1>6. CASE /\ ~(q.kind = "upsert" /\ q.at = 1)
           /\ ~(q.kind = "tx" \/ q.at = Len(q.ops))
  <2>1. Afterwards(q, ok) = again
    BY <1>6 DEF Afterwards, next
  <2>2. again \in RequestType
    BY <1>2 DEF RequestType, PCs
  <2>3. /\ again.pc = "authorize" /\ again.at = q.at + 1
        /\ again.ops = q.ops
        /\ again.writes = <<>> /\ again.kind = q.kind
        /\ again.did = q.did /\ again.hit = q.hit
        /\ again.done = q.done /\ again.reported = q.reported
    BY <1>2, <1>3 DEF RequestType
  <2>. HIDE DEF again
  <2>4. again.at \in 1..Len(again.ops) /\ again.at \notin again.did
        /\ again.did \subseteq 1..again.at
    BY <2>3, <1>1, <1>6 DEF FieldsOK
  <2>5. Released(again)
    BY <2>2, <2>3, <2>4, <1>6
       DEF Released, Good, FieldsOK, DoneWhole, TxOK, EachOK, Holding
  <2>. QED BY <2>1, <2>5
<1>. QED BY <1>4, <1>5, <1>6

------------------------------------------------------------------------------
(* One request moves, and the committed table stays.                       *)

LEMMA OneMoves ==
    ASSUME Inv, NEW c \in Clients, NEW q, req' = [req EXCEPT ![c] = q],
           Good(q), Faithful(q, rows),
           \A d \in Clients \ {c} : Apart(q, req[d]),
           UNCHANGED <<rows, expected>>, sent' \in 0..MaxRequests
    PROVE  Inv'
<1>1. req \in [Clients -> RequestType] /\ q \in RequestType
  BY DEF Inv, Good
<1>2. req' \in [Clients -> RequestType]
  BY <1>1
<1>3. \A d \in Clients : req'[d] = IF d = c THEN q ELSE req[d]
  BY <1>1
<1>4. \A d \in Clients : Good(req'[d])
  BY <1>3 DEF Inv
<1>5. \A d \in Clients : Faithful(req'[d], rows')
  <2>. SUFFICES ASSUME NEW d \in Clients PROVE Faithful(req'[d], rows')
    OBVIOUS
  <2>1. rows' = rows
    OBVIOUS
  <2>2. Faithful(req[d], rows)
    BY DEF Inv
  <2>. QED BY <2>1, <2>2, <1>3
<1>6. ASSUME NEW d \in Clients, NEW e \in Clients, d # e
      PROVE  Apart(req'[d], req'[e])
  <2>1. Apart(req[d], req[e])
    BY <1>6 DEF Inv
  <2>2. d # c => Apart(q, req[d])
    OBVIOUS
  <2>3. e # c => Apart(q, req[e])
    OBVIOUS
  <2>4. Apart(q, req[d]) => Apart(req[d], q)
    BY DEF Apart
  <2>. QED BY <1>3, <1>6, <2>1, <2>2, <2>3, <2>4
<1>7. RowsAddUp' /\ rows' \in [Ids -> Values]
  BY DEF Inv, RowsAddUp
<1>. QED BY <1>2, <1>4, <1>5, <1>6, <1>7 DEF Inv

LEMMA ReleasedFaithful ==
    ASSUME NEW q, Released(q), NEW table
    PROVE  Good(q) /\ Faithful(q, table) /\ \A p : Apart(q, p)
  BY NoWrites DEF Released, Faithful, Apart

\* A request that leaves its transaction without a commit.
LEMMA ReleaseInv ==
    ASSUME Inv, NEW c \in Clients, NEW q, req' = [req EXCEPT ![c] = q],
           Released(q), UNCHANGED <<rows, expected>>, sent' \in 0..MaxRequests
    PROVE  Inv'
  BY ReleasedFaithful, OneMoves

LEMMA FailedInv ==
    ASSUME Inv, NEW c \in Clients, req[c].pc # "idle", Failed(c)
    PROVE  Inv'
<1>1. Good(req[c])
  BY DEF Inv
<1>2. Released(Afterwards(req[c], FALSE))
  BY <1>1, AfterwardsReleased DEF Good
<1>3. /\ req' = [req EXCEPT ![c] = Afterwards(req[c], FALSE)]
      /\ UNCHANGED <<rows, expected>> /\ sent' \in 0..MaxRequests
  BY DEF Failed, Inv
<1>. QED BY <1>2, <1>3, ReleaseInv

\* A request that goes on in its transaction with nothing more written.
LEMMA StayInv ==
    ASSUME Inv, NEW c \in Clients, NEW q, req' = [req EXCEPT ![c] = q],
           Good(q), q.writes = req[c].writes, HitsOf(q) = HitsOf(req[c]),
           q.ops = req[c].ops, q.no = req[c].no, req[c].pc \in Holding,
           UNCHANGED <<rows, expected, sent>>
    PROVE  Inv'
<1>1. Faithful(req[c], rows) /\ \A d \in Clients \ {c} : Apart(req[c], req[d])
  BY DEF Inv
<1>2. Faithful(q, rows)
  BY <1>1 DEF Faithful, SeesOf
<1>3. \A d \in Clients \ {c} : Apart(q, req[d])
  BY <1>1 DEF Apart
<1>4. sent' \in 0..MaxRequests
  BY DEF Inv
<1>. QED BY <1>2, <1>3, <1>4, OneMoves
------------------------------------------------------------------------------
(* The steps before and after the statement.                               *)

\* The operation a request is at.
LEMMA OpTyped ==
    ASSUME Inv, NEW c \in Clients, req[c].pc # "idle"
    PROVE  /\ req[c] \in RequestType /\ req[c].at \in 1..Len(req[c].ops)
           /\ Op(c) = req[c].ops[req[c].at]
           /\ Op(c) \in Ops /\ Op(c).id \in Ids /\ Op(c).verb \in Verbs
<1>1. Good(req[c])
  BY DEF Inv
<1>2. req[c].ops \in Seq(Ops) /\ req[c].at \in 1..Len(req[c].ops)
  BY <1>1 DEF Good, RequestType, FieldsOK
<1>3. req[c].ops[req[c].at] \in Ops
  BY <1>2
<1>. QED BY <1>1, <1>2, <1>3 DEF Op, Good, Ops

LEMMA SendInv ==
    ASSUME Inv, NEW c \in Clients, NEW r \in Menu, Send(c, r)
    PROVE  Inv'
<1>. DEFINE q == [Idle EXCEPT !.pc = IF r.kind = "tx" THEN "begin"
                                     ELSE "authorize",
                              !.kind = r.kind, !.user = r.user,
                              !.ops = r.ops, !.no = sent + 1,
                              !.size = Len(r.ops)]
<1>1. r \in Requests /\ r.ops # <<>>
  BY MenuAssumption
<1>2. r.ops \in Seq(Ops) /\ Len(r.ops) \in Nat /\ 1 \in 1..Len(r.ops)
  BY <1>1 DEF Requests
<1>3. r.kind \in {"each", "upsert", "tx"} /\ r.user \in BOOLEAN
  BY <1>1 DEF Requests
<1>4. sent + 1 \in 0..MaxRequests
  BY BoundsAssumption DEF Inv, Send
<1>5. Idle \in RequestType
  BY IdleGood DEF Good
<1>6. q \in RequestType
  BY <1>2, <1>3, <1>4, <1>5 DEF RequestType, PCs
<1>7. /\ q.pc = IF r.kind = "tx" THEN "begin" ELSE "authorize"
      /\ q.kind = r.kind /\ q.ops = r.ops /\ q.size = Len(r.ops)
      /\ q.at = 1 /\ q.writes = <<>> /\ q.did = {} /\ q.hit = {}
      /\ q.done = {} /\ q.reported = {}
  BY DEF Idle
<1>8. req' = [req EXCEPT ![c] = q] /\ UNCHANGED <<rows, expected>>
      /\ sent' \in 0..MaxRequests
  BY <1>4 DEF Send
<1>. HIDE DEF q
<1>9. Released(q)
  BY <1>2, <1>6, <1>7
     DEF Released, Good, FieldsOK, DoneWhole, TxOK, EachOK, Holding
<1>. QED BY <1>8, <1>9, ReleaseInv

LEMMA AuthorizeInv ==
    ASSUME Inv, NEW c \in Clients, Authorize(c)
    PROVE  Inv'
<1>. DEFINE q == [req[c] EXCEPT !.pc = "begin"]
<1>1. req[c].pc = "authorize" /\ Good(req[c])
  BY DEF Authorize, Inv
<1>2. q \in RequestType
  BY <1>1 DEF Good, RequestType, PCs
<1>3. /\ q.pc = "begin" /\ q.kind = req[c].kind /\ q.ops = req[c].ops
      /\ q.size = req[c].size /\ q.at = req[c].at
      /\ q.writes = req[c].writes /\ q.did = req[c].did
      /\ q.hit = req[c].hit /\ q.done = req[c].done
      /\ q.reported = req[c].reported
  BY <1>1 DEF Good, RequestType
<1>4. req' = [req EXCEPT ![c] = q] /\ UNCHANGED <<rows, expected>>
      /\ sent' \in 0..MaxRequests
  BY DEF Authorize, Inv
<1>. HIDE DEF q
<1>5. Released(q)
  BY <1>1, <1>2, <1>3
     DEF Released, Good, FieldsOK, DoneWhole, TxOK, EachOK, Holding
<1>. QED BY <1>4, <1>5, ReleaseInv

LEMMA BeginInv ==
    ASSUME Inv, NEW c \in Clients, Begin(c)
    PROVE  Inv'
<1>. DEFINE q == [req[c] EXCEPT !.pc = IF req[c].kind = "tx" THEN "lookup"
                                       ELSE "statement"]
<1>1. req[c].pc = "begin" /\ Good(req[c])
  BY DEF Begin, Inv
<1>2. q \in RequestType
  BY <1>1 DEF Good, RequestType, PCs, Holding
<1>3. /\ q.pc = IF req[c].kind = "tx" THEN "lookup" ELSE "statement"
      /\ q.kind = req[c].kind /\ q.ops = req[c].ops
      /\ q.size = req[c].size /\ q.at = req[c].at
      /\ q.writes = req[c].writes /\ q.did = req[c].did
      /\ q.hit = req[c].hit /\ q.done = req[c].done
      /\ q.reported = req[c].reported
  BY <1>1 DEF Good, RequestType
<1>4. req' = [req EXCEPT ![c] = q] /\ UNCHANGED <<rows, expected>>
      /\ sent' \in 0..MaxRequests
  BY DEF Begin, Inv
<1>. HIDE DEF q
<1>5. q.writes = <<>>
  BY <1>1, <1>3 DEF Good, FieldsOK, Holding
<1>6. Good(q)
  <2>1. FieldsOK(q) /\ DoneWhole(q)
    BY <1>1, <1>2, <1>3, <1>5 DEF Good, FieldsOK, DoneWhole, Holding
  <2>2. TxOK(q)
    <3>1. 1..1 - 1 = {}
      OBVIOUS
    <3>. QED BY <1>1, <1>2, <1>3, <3>1 DEF Good, TxOK
  <2>3. EachOK(q)
    BY <1>1, <1>2, <1>3, <1>5 DEF Good, EachOK
  <2>. QED BY <1>2, <2>1, <2>2, <2>3 DEF Good
<1>7. HitsOf(q) = {}
  BY <1>1, <1>3 DEF HitsOf, Good, TxOK, EachOK
<1>8. Faithful(q, rows)
  <2>1. Len(q.ops) \in Nat
    BY <1>2 DEF RequestType
  <2>2. Replay(q.ops, HitsOf(q), q.no, rows) = rows
    BY <2>1, <1>7, ReplayNothing
  <2>. QED BY <2>2, <1>5, <1>7, NoWrites DEF Faithful, SeesOf
<1>9. \A d \in Clients \ {c} : Apart(q, req[d])
  BY <1>5, NoWrites DEF Apart
<1>. QED BY <1>4, <1>6, <1>8, <1>9, OneMoves

LEMMA LookupInv ==
    ASSUME Inv, NEW c \in Clients, Lookup(c)
    PROVE  Inv'
<1>. DEFINE q == [req[c] EXCEPT !.pc = "statement"]
<1>1. req[c].pc = "lookup" /\ Good(req[c])
  BY DEF Lookup, Inv
<1>2. q \in RequestType
  BY <1>1 DEF Good, RequestType, PCs, Holding
<1>3. /\ q.pc = "statement"
      /\ q.kind = req[c].kind /\ q.ops = req[c].ops /\ q.no = req[c].no
      /\ q.size = req[c].size /\ q.at = req[c].at
      /\ q.writes = req[c].writes /\ q.did = req[c].did
      /\ q.hit = req[c].hit /\ q.done = req[c].done
      /\ q.reported = req[c].reported
  BY <1>1 DEF Good, RequestType
<1>4. req' = [req EXCEPT ![c] = q] /\ UNCHANGED <<rows, expected, sent>>
  BY DEF Lookup
<1>. HIDE DEF q
<1>5. Good(q)
  BY <1>1, <1>2, <1>3 DEF Good, FieldsOK, DoneWhole, TxOK, EachOK, Holding
<1>6. HitsOf(q) = HitsOf(req[c]) /\ req[c].pc \in Holding
  BY <1>1, <1>3 DEF HitsOf, Holding
<1>. QED BY <1>3, <1>4, <1>5, <1>6, StayInv

LEMMA BlockInv ==
    ASSUME Inv, NEW c \in Clients, Block(c)
    PROVE  Inv'
<1>. DEFINE q == [req[c] EXCEPT !.pc = "blocked", !.saw = rows[Op(c).id]]
<1>1. req[c].pc = "statement" /\ Good(req[c])
  BY DEF Block, Inv
<1>2. rows[Op(c).id] \in Values
  BY <1>1, OpTyped DEF Inv
<1>3. q \in RequestType
  BY <1>1, <1>2 DEF Good, RequestType, PCs, Holding
<1>4. /\ q.pc = "blocked"
      /\ q.kind = req[c].kind /\ q.ops = req[c].ops /\ q.no = req[c].no
      /\ q.size = req[c].size /\ q.at = req[c].at
      /\ q.writes = req[c].writes /\ q.did = req[c].did
      /\ q.hit = req[c].hit /\ q.done = req[c].done
      /\ q.reported = req[c].reported
  BY <1>1 DEF Good, RequestType
<1>5. req' = [req EXCEPT ![c] = q] /\ UNCHANGED <<rows, expected, sent>>
  <2>1. req \in [Clients -> RequestType]
    BY DEF Inv
  <2>. QED BY <2>1 DEF Block
<1>. HIDE DEF q
<1>6. Good(q)
  BY <1>1, <1>3, <1>4 DEF Good, FieldsOK, DoneWhole, TxOK, EachOK, Holding
<1>7. HitsOf(q) = HitsOf(req[c]) /\ req[c].pc \in Holding
  BY <1>1, <1>4 DEF HitsOf, Holding
<1>. QED BY <1>4, <1>5, <1>6, <1>7, StayInv

LEMMA LeaveInv ==
    ASSUME Inv, NEW c \in Clients, Leave(c)
    PROVE  Inv'
<1>1. Good(req[c])
  BY DEF Inv
<1>2. Released(Ended(req[c]))
  BY <1>1, EndedReleased DEF Good, FieldsOK
<1>3. req' = [req EXCEPT ![c] = Ended(req[c])] /\ UNCHANGED <<rows, expected>>
      /\ sent' \in 0..MaxRequests
  BY DEF Leave, Inv
<1>. QED BY <1>2, <1>3, ReleaseInv

LEMMA CrashInv ==
    ASSUME Inv, Crash
    PROVE  Inv'
<1>1. \A c \in Clients : Released(Ended(req[c]))
  <2>. SUFFICES ASSUME NEW c \in Clients PROVE Released(Ended(req[c]))
    OBVIOUS
  <2>1. Good(req[c])
    BY DEF Inv
  <2>. QED BY <2>1, EndedReleased DEF Good, FieldsOK
<1>2. \A c \in Clients : req'[c] = Ended(req[c])
  BY DEF Crash
<1>3. \A c \in Clients : Good(req'[c]) /\ Faithful(req'[c], rows')
                         /\ \A p : Apart(req'[c], p)
  BY <1>1, <1>2, ReleasedFaithful
<1>4. req' \in [Clients -> RequestType]
  BY <1>3 DEF Crash, Good
<1>5. rows' \in [Ids -> Values] /\ sent' \in 0..MaxRequests /\ RowsAddUp'
  BY DEF Crash, Inv, RowsAddUp
<1>. QED BY <1>3, <1>4, <1>5 DEF Inv

\* What is written so far stays as it is when a transaction goes on.
LEMMA OnwardGood ==
    ASSUME NEW q \in RequestType, FieldsOK(q), DoneWhole(q),
           q.pc \in Holding,
           q.kind = "tx" => /\ q.done = {} /\ q.size = Len(q.ops)
                            /\ q.did = 1..q.at,
           q.kind # "tx" => q.at \in q.did
    PROVE  /\ Good(Onward(q)) /\ HitsOf(Onward(q)) = HitsOf(q)
           /\ Onward(q).writes = q.writes /\ Onward(q).ops = q.ops
           /\ Onward(q).no = q.no
<1>0. q.at \in 1..Len(q.ops) /\ Len(q.ops) \in Nat /\ None \in Values
  BY DEF FieldsOK, RequestType, Holding, Values
<1>1. CASE q.kind = "tx" /\ q.at < Len(q.ops)
  <2>. DEFINE p == [q EXCEPT !.at = @ + 1, !.pc = "lookup", !.saw = None]
  <2>1. p \in RequestType
    <3>1. q.at + 1 \in Nat /\ "lookup" \in PCs
      BY <1>0 DEF PCs, Holding
    <3>. QED BY <1>0, <3>1 DEF RequestType
  <2>2. /\ p.pc = "lookup" /\ p.at = q.at + 1
        /\ p.kind = q.kind /\ p.ops = q.ops /\ p.no = q.no
        /\ p.size = q.size /\ p.writes = q.writes /\ p.did = q.did
        /\ p.hit = q.hit /\ p.done = q.done /\ p.reported = q.reported
    BY DEF RequestType
  <2>3. Onward(q) = p
    BY <1>1 DEF Onward
  <2>. HIDE DEF p
  <2>4. FieldsOK(p) /\ DoneWhole(p)
    BY <1>0, <1>1, <2>2 DEF FieldsOK, DoneWhole, Holding
  <2>5. TxOK(p)
    BY <1>0, <1>1, <2>2 DEF TxOK
  <2>6. Good(p)
    BY <1>1, <2>1, <2>2, <2>4, <2>5 DEF Good, EachOK
  <2>7. HitsOf(p) = HitsOf(q)
    BY <1>1, <2>2 DEF HitsOf
  <2>. QED BY <2>2, <2>3, <2>6, <2>7
<1>2. CASE ~(q.kind = "tx" /\ q.at < Len(q.ops))
  <2>. DEFINE p == [q EXCEPT !.pc = "commit", !.saw = None]
  <2>1. p \in RequestType
    BY <1>0 DEF RequestType, PCs, Holding
  <2>2. /\ p.pc = "commit" /\ p.at = q.at
        /\ p.kind = q.kind /\ p.ops = q.ops /\ p.no = q.no
        /\ p.size = q.size /\ p.writes = q.writes /\ p.did = q.did
        /\ p.hit = q.hit /\ p.done = q.done /\ p.reported = q.reported
    BY DEF RequestType
  <2>3. Onward(q) = p
    BY <1>2 DEF Onward
  <2>. HIDE DEF p
  <2>4. FieldsOK(p) /\ DoneWhole(p)
    BY <1>0, <2>2 DEF FieldsOK, DoneWhole, Holding
  <2>5. TxOK(p)
    BY <1>0, <1>2, <2>2 DEF TxOK
  <2>6. EachOK(p)
    BY <2>2 DEF EachOK
  <2>7. Good(p)
    BY <2>1, <2>4, <2>5, <2>6 DEF Good
  <2>8. HitsOf(p) = HitsOf(q)
    BY <2>2 DEF HitsOf
  <2>. QED BY <2>2, <2>3, <2>7, <2>8
<1>. QED BY <1>1, <1>2

\* The same of an update that has yet to read its row back.
LEMMA PauseGood ==
    ASSUME NEW q \in RequestType, FieldsOK(q), DoneWhole(q),
           q.pc \in Holding,
           q.kind = "tx" => /\ q.done = {} /\ q.size = Len(q.ops)
                            /\ q.did = 1..q.at,
           q.kind # "tx" => q.at \in q.did,
           NEW p, p = [q EXCEPT !.pc = "readback"]
    PROVE  /\ Good(p) /\ HitsOf(p) = HitsOf(q)
           /\ p.writes = q.writes /\ p.ops = q.ops /\ p.no = q.no
<1>1. p \in RequestType
  BY DEF RequestType, PCs, Holding
<1>2. /\ p.pc = "readback" /\ p.at = q.at
      /\ p.kind = q.kind /\ p.ops = q.ops /\ p.no = q.no
      /\ p.size = q.size /\ p.writes = q.writes /\ p.did = q.did
      /\ p.hit = q.hit /\ p.done = q.done /\ p.reported = q.reported
  BY DEF RequestType
<1>3. FieldsOK(p) /\ DoneWhole(p)
  BY <1>2 DEF FieldsOK, DoneWhole, Holding
<1>4. TxOK(p) /\ EachOK(p)
  BY <1>2 DEF TxOK, EachOK
<1>5. HitsOf(p) = HitsOf(q)
  BY <1>2 DEF HitsOf
<1>. QED BY <1>1, <1>2, <1>3, <1>4, <1>5 DEF Good

LEMMA ReadBackInv ==
    ASSUME Inv, NEW c \in Clients, ReadBack(c)
    PROVE  Inv'
<1>1. req[c].pc = "readback" /\ Good(req[c])
  BY DEF ReadBack, Inv
<1>2. req' = [req EXCEPT ![c] = Onward(req[c])]
      /\ UNCHANGED <<rows, expected, sent>>
  BY DEF ReadBack
<1>3. req[c].pc \in Holding
  BY <1>1 DEF Holding
<1>4. /\ req[c].kind = "tx" =>
            req[c].done = {} /\ req[c].size = Len(req[c].ops)
            /\ req[c].did = 1..req[c].at
      /\ req[c].kind # "tx" => req[c].at \in req[c].did
  BY <1>1 DEF Good, TxOK, EachOK
<1>5. /\ Good(Onward(req[c])) /\ HitsOf(Onward(req[c])) = HitsOf(req[c])
      /\ Onward(req[c]).writes = req[c].writes
      /\ Onward(req[c]).ops = req[c].ops /\ Onward(req[c]).no = req[c].no
  BY <1>1, <1>3, <1>4, OnwardGood DEF Good
<1>. QED BY <1>2, <1>3, <1>5, StayInv

LEMMA ColumnsInv ==
    ASSUME Inv, NEW c \in Clients, Columns(c)
    PROVE  Inv'
<1>1. req[c].pc = "columns" /\ Good(req[c])
  BY DEF Columns, Inv
<1>2. CASE req[c].kind = "tx"
  <2>1. req' = [req EXCEPT ![c] = Onward(req[c])]
        /\ UNCHANGED <<rows, expected, sent>>
    BY <1>2 DEF Columns
  <2>2. req[c].pc \in Holding
    BY <1>1 DEF Holding
  <2>3. /\ req[c].kind = "tx" =>
              req[c].done = {} /\ req[c].size = Len(req[c].ops)
              /\ req[c].did = 1..req[c].at
        /\ req[c].kind # "tx" => req[c].at \in req[c].did
    BY <1>1 DEF Good, TxOK, EachOK
  <2>4. /\ Good(Onward(req[c])) /\ HitsOf(Onward(req[c])) = HitsOf(req[c])
        /\ Onward(req[c]).writes = req[c].writes
        /\ Onward(req[c]).ops = req[c].ops /\ Onward(req[c]).no = req[c].no
    BY <1>1, <2>2, <2>3, OnwardGood DEF Good
  <2>. QED BY <2>1, <2>2, <2>4, StayInv
<1>3. CASE req[c].kind # "tx"
  <2>1. req' = [req EXCEPT ![c] = Afterwards(req[c], TRUE)]
        /\ UNCHANGED <<rows, expected>> /\ sent' \in 0..MaxRequests
    BY <1>3 DEF Columns, Inv
  <2>2. Released(Afterwards(req[c], TRUE))
    BY <1>1, AfterwardsReleased DEF Good
  <2>. QED BY <2>1, <2>2, ReleaseInv
<1>. QED BY <1>2, <1>3

LEMMA FinishInv ==
    ASSUME Inv, NEW c \in Clients, Finish(c)
    PROVE  Inv'
<1>. DEFINE q == Reported(req[c], {req[c].at})
<1>1. req[c].pc = "finish" /\ Good(req[c])
  BY DEF Finish, Inv
<1>2. req[c].kind # "tx" /\ req[c].at \in req[c].done
  BY <1>1 DEF Good, TxOK, EachOK
<1>3. q \in RequestType
  BY <1>1 DEF Reported, Good, RequestType
<1>4. /\ q.pc = req[c].pc
      /\ q.kind = req[c].kind /\ q.ops = req[c].ops
      /\ q.size = req[c].size /\ q.at = req[c].at
      /\ q.writes = req[c].writes /\ q.did = req[c].did
      /\ q.hit = req[c].hit /\ q.done = req[c].done
      /\ q.reported = req[c].reported \cup {req[c].at}
  BY <1>1 DEF Reported, Good, RequestType
<1>5. req' = [req EXCEPT ![c] = Afterwards(q, TRUE)]
      /\ UNCHANGED <<rows, expected>> /\ sent' \in 0..MaxRequests
  BY DEF Finish, Inv
<1>. HIDE DEF q
<1>6. FieldsOK(q) /\ DoneWhole(q)
  BY <1>1, <1>2, <1>3, <1>4 DEF Good, FieldsOK, DoneWhole, Holding
<1>7. Released(Afterwards(q, TRUE))
  BY <1>1, <1>3, <1>4, <1>6, AfterwardsReleased
<1>. QED BY <1>5, <1>7, ReleaseInv
------------------------------------------------------------------------------
(* The statement.                                                          *)

\* The request with one more operation done, that hit a row or did not.
LEMMA HitsGrow ==
    ASSUME NEW q \in RequestType, Good(q), q.pc \in {"statement", "blocked"}
    PROVE  /\ q.at \in 1..Len(q.ops) /\ Len(q.ops) \in Nat
           /\ q.at \notin q.did /\ q.at \notin q.hit
           /\ HitsOf(q) \subseteq 1..q.at - 1
           /\ q.kind = "tx" => /\ q.done = {} /\ q.size = Len(q.ops)
                               /\ q.did \cup {q.at} = 1..q.at
<1>1. q.at \in 1..Len(q.ops) /\ Len(q.ops) \in Nat
  BY DEF Good, FieldsOK, RequestType
<1>2. CASE q.kind = "tx"
  <2>1. q.did = 1..q.at - 1
    BY <1>2 DEF Good, TxOK
  <2>2. q.at \notin 1..q.at - 1 /\ (1..q.at - 1) \cup {q.at} = 1..q.at
    BY <1>1
  <2>3. q.done = {} /\ q.size = Len(q.ops)
    BY <1>2 DEF Good, TxOK
  <2>. QED BY <1>1, <1>2, <2>1, <2>2, <2>3 DEF HitsOf, Good, FieldsOK
<1>3. CASE q.kind # "tx"
  <2>1. q.at \notin q.did
    BY <1>3 DEF Good, EachOK
  <2>2. HitsOf(q) = {}
    BY <1>3, <2>1 DEF HitsOf
  <2>. QED BY <1>1, <1>3, <2>1, <2>2 DEF Good, FieldsOK
<1>. QED BY <1>2, <1>3

\* A row a statement hits is the row the transaction sees.
LEMMA TargetSeen ==
    ASSUME Inv, NEW c \in Clients, req[c].pc \in {"statement", "blocked"},
           Succeeds(c), Op(c).verb \notin Reads, Affects(c)
    PROVE  /\ Target(c) = Sees(c, Op(c).id)
           /\ Op(c).verb # "create" => Target(c) # None
<1>. DEFINE row == Sees(c, Op(c).id)
            gone == /\ req[c].pc = "blocked"
                    /\ Op(c).verb # "create"
                    /\ row # None
                    /\ row.born # req[c].saw.born
<1>1. Target(c) = IF gone THEN None ELSE row
  BY DEF Target
<1>2. Op(c).verb # "create" => Target(c) # None
  BY DEF Affects
<1>3. Op(c).verb = "create" => ~gone
  OBVIOUS
<1>. HIDE DEF row, gone
<1>4. Target(c) = row
  BY <1>1, <1>2, <1>3
<1>. QED BY <1>2, <1>4 DEF row

LEMMA WrittenTyped ==
    ASSUME Inv, NEW c \in Clients, req[c].pc \in {"statement", "blocked"},
           Succeeds(c), Op(c).verb \notin Reads, Affects(c)
    PROVE  Written(c) \in Values
<1>1. /\ Target(c) = Sees(c, Op(c).id)
      /\ Op(c).verb # "create" => Target(c) # None
  BY TargetSeen
<1>2. Op(c).id \in Ids /\ Op(c).verb \in Verbs /\ req[c] \in RequestType
  BY OpTyped
<1>3. Sees(c, Op(c).id) \in Values
  <2>1. rows[Op(c).id] \in Values
    BY <1>2 DEF Inv
  <2>2. req[c].writes \in Tables
    BY <1>2 DEF RequestType
  <2>3. \A i \in DOMAIN req[c].writes : req[c].writes[i] \in Values
    BY <2>2, WritesAreTables
  <2>. QED BY <2>1, <2>3 DEF Sees
<1>. DEFINE t == Target(c)
            v == Op(c).verb
            no == req[c].no
<1>4. no \in 0..MaxRequests /\ MaxRequests \in Nat /\ Ceiling \in Nat
  BY <1>2, BoundsAssumption DEF RequestType
<1>5. v \in Verbs \ Reads /\ (v # "create" => t \in Rows)
  BY <1>1, <1>2, <1>3 DEF Values
<1>6. Written(c) = Effect(v, t, no)
  BY DEF Written
<1>. HIDE DEF t, v, no
<1>7. Effect(v, t, no) \in Values
  <2>1. CASE v = "create"
    BY <2>1, <1>4 DEF Effect, Values, Rows
  <2>2. CASE v = "update"
    BY <2>2, <1>4, <1>5 DEF Effect, Values, Rows
  <2>3. CASE v = "increment"
    BY <2>3, <1>4, <1>5 DEF Effect, Values, Rows
  <2>4. CASE v = "append"
    BY <2>4, <1>4, <1>5 DEF Effect, Values, Rows
  <2>5. CASE v = "delete"
    BY <2>5 DEF Effect, Values
  <2>. QED BY <1>5, <2>1, <2>2, <2>3, <2>4, <2>5 DEF Verbs, Reads
<1>. QED BY <1>6, <1>7

\* A statement that does not wait, and hits a row, hits one that no other
\* transaction has written.
LEMMA HitsFreeRow ==
    ASSUME Inv, NEW c \in Clients, req[c].pc \in {"statement", "blocked"},
           Succeeds(c), Op(c).verb \notin Reads, ~MustWait(c),
           Affects(c), NEW d \in Clients, d # c
    PROVE  Op(c).id \notin DOMAIN req[d].writes
<1>. SUFFICES ASSUME Op(c).id \in DOMAIN req[d].writes PROVE FALSE
  OBVIOUS
<1>1. Locked(c, Op(c).id)
  BY DEF Locked
<1>2. Op(c).verb # "create" /\ rows[Op(c).id] = None
  BY <1>1 DEF MustWait
<1>3. Apart(req[c], req[d])
  BY DEF Inv
<1>4. Op(c).id \notin DOMAIN req[c].writes
  BY <1>3 DEF Apart
<1>5. Sees(c, Op(c).id) = None
  BY <1>2, <1>4 DEF Sees
<1>. QED BY <1>2, <1>5, TargetSeen

LEMMA ExecuteInv ==
    ASSUME Inv, NEW c \in Clients, Execute(c)
    PROVE  Inv'
<1>. DEFINE r == req[c]
            at == req[c].at
            id == Op(c).id
<1>1. /\ r.pc \in {"statement", "blocked"} /\ r.pc \in Holding
      /\ ~MustWait(c) /\ Succeeds(c)
      /\ UNCHANGED <<rows, expected, sent>>
  BY DEF Execute, Holding
<1>2. Good(r) /\ Faithful(r, rows) /\ r \in RequestType
  BY DEF Inv, Good
<1>3. /\ at \in 1..Len(r.ops) /\ Len(r.ops) \in Nat
      /\ at \notin r.did /\ at \notin r.hit
      /\ HitsOf(r) \subseteq 1..at - 1
      /\ r.kind = "tx" => /\ r.done = {} /\ r.size = Len(r.ops)
                          /\ r.did \cup {at} = 1..at
  BY <1>1, <1>2, HitsGrow
<1>4. id \in Ids /\ Op(c).verb \in Verbs /\ Op(c) = r.ops[at]
      /\ r.ops \in Seq(Ops)
  BY <1>1, OpTyped DEF RequestType
<1>5. FieldsOK(r) /\ DoneWhole(r)
  BY <1>2 DEF Good
<1>6. CASE Op(c).verb \in Reads
  <2>. DEFINE q == [r EXCEPT !.pc = "columns", !.did = @ \cup {at}]
  <2>1. req' = [req EXCEPT ![c] = q]
    <3>1. req' = [req EXCEPT ![c] = [Did(c) EXCEPT !.pc = "columns"]]
      BY <1>6 DEF Execute, Executed
    <3>2. [Did(c) EXCEPT !.pc = "columns"] = q
      BY <1>2 DEF RequestType, Did
    <3>. QED BY <3>1, <3>2
  <2>2. q \in RequestType
    BY <1>2, <1>3 DEF RequestType, PCs, Holding
  <2>3. /\ q.pc = "columns" /\ q.did = r.did \cup {at}
        /\ q.kind = r.kind /\ q.ops = r.ops /\ q.no = r.no
        /\ q.size = r.size /\ q.at = at /\ q.writes = r.writes
        /\ q.hit = r.hit /\ q.done = r.done /\ q.reported = r.reported
    BY <1>2 DEF RequestType
  <2>. HIDE DEF q
  <2>4. FieldsOK(q) /\ DoneWhole(q)
    BY <1>3, <1>5, <2>3 DEF FieldsOK, DoneWhole, Holding
  <2>5. TxOK(q) /\ EachOK(q)
    BY <1>2, <1>3, <2>3 DEF Good, TxOK, EachOK
  <2>6. HitsOf(q) = HitsOf(r)
    BY <1>3, <2>3 DEF HitsOf
  <2>7. Good(q)
    BY <2>2, <2>4, <2>5 DEF Good
  <2>. HIDE DEF r
  <2>. QED BY <1>1, <2>1, <2>3, <2>6, <2>7, StayInv DEF r
<1>7. CASE Op(c).verb \notin Reads /\ ~Affects(c)
  <2>. DEFINE p == [r EXCEPT !.did = @ \cup {at}]
              paused == [p EXCEPT !.pc = "readback"]
  <2>1. \/ req' = [req EXCEPT ![c] = Onward(p)]
        \/ req' = [req EXCEPT ![c] = paused]
    BY <1>7 DEF Execute, Executed, Changed, Did
  <2>2. p \in RequestType
    BY <1>2, <1>3 DEF RequestType
  <2>3. /\ p.pc = r.pc /\ p.did = r.did \cup {at}
        /\ p.kind = r.kind /\ p.ops = r.ops /\ p.no = r.no
        /\ p.size = r.size /\ p.at = at /\ p.writes = r.writes
        /\ p.hit = r.hit /\ p.done = r.done /\ p.reported = r.reported
    BY <1>2 DEF RequestType
  <2>. HIDE DEF p
  <2>4. FieldsOK(p) /\ DoneWhole(p)
    BY <1>1, <1>3, <1>5, <2>3 DEF FieldsOK, DoneWhole
  <2>5. HitsOf(p) = HitsOf(r)
    BY <1>3, <2>3 DEF HitsOf
  <2>6. /\ Good(Onward(p)) /\ HitsOf(Onward(p)) = HitsOf(p)
        /\ Onward(p).writes = p.writes /\ Onward(p).ops = p.ops
        /\ Onward(p).no = p.no
    BY <1>1, <1>3, <2>2, <2>3, <2>4, OnwardGood
  <2>7. /\ Good(paused) /\ HitsOf(paused) = HitsOf(p)
        /\ paused.writes = p.writes /\ paused.ops = p.ops
        /\ paused.no = p.no
    BY <1>1, <1>3, <2>2, <2>3, <2>4, PauseGood
  <2>. HIDE DEF r, paused
  <2>. QED BY <1>1, <2>1, <2>3, <2>5, <2>6, <2>7, StayInv DEF r
<1>8. CASE Op(c).verb \notin Reads /\ Affects(c)
  <2>. DEFINE w == [i \in DOMAIN r.writes \cup {id} |->
                        IF i = id THEN Written(c) ELSE r.writes[i]]
              p == [r EXCEPT !.did = @ \cup {at}, !.hit = @ \cup {at},
                             !.writes = w]
              paused == [p EXCEPT !.pc = "readback"]
              next == IF Op(c).verb = "update" THEN paused ELSE Onward(p)
  <2>1. req' = [req EXCEPT ![c] = next]
    <3>1. req' = [req EXCEPT ![c] = IF Op(c).verb = "update"
                                    THEN [Changed(c) EXCEPT !.pc = "readback"]
                                    ELSE Onward(Changed(c))]
      BY <1>8 DEF Execute, Executed
    <3>2. Changed(c) = p
      BY <1>2, <1>8 DEF RequestType, Changed, Did
    <3>. QED BY <3>1, <3>2
  <2>2. w \in Tables
    <3>1. Written(c) \in Values
      BY <1>1, <1>8, WrittenTyped
    <3>2. /\ DOMAIN r.writes \subseteq Ids
          /\ \A i \in DOMAIN r.writes : r.writes[i] \in Values
      BY <1>2, WritesAreTables DEF RequestType
    <3>3. DOMAIN r.writes \cup {id} \in SUBSET Ids
      BY <1>4, <3>2
    <3>4. w \in [DOMAIN r.writes \cup {id} -> Values]
      BY <3>1, <3>2
    <3>. QED BY <3>3, <3>4 DEF Tables
  <2>3. p \in RequestType
    BY <1>2, <1>3, <2>2 DEF RequestType
  <2>4. /\ p.pc = r.pc /\ p.did = r.did \cup {at} /\ p.hit = r.hit \cup {at}
        /\ p.kind = r.kind /\ p.ops = r.ops /\ p.no = r.no
        /\ p.size = r.size /\ p.at = at /\ p.writes = w
        /\ p.done = r.done /\ p.reported = r.reported
    BY <1>2 DEF RequestType
  <2>5. DOMAIN w = DOMAIN r.writes \cup {id} /\ w[id] = Written(c)
        /\ \A i \in DOMAIN r.writes : i # id => w[i] = r.writes[i]
    OBVIOUS
  <2>. HIDE DEF p, w
  <2>6. FieldsOK(p) /\ DoneWhole(p)
    BY <1>1, <1>3, <1>5, <2>4 DEF FieldsOK, DoneWhole
  <2>7. HitsOf(p) = HitsOf(r) \cup {at}
    BY <1>2, <1>3, <2>4 DEF HitsOf, Good, EachOK
  <2>. DEFINE before == Replay(r.ops, HitsOf(r), r.no, rows)
              after == Replay(r.ops, HitsOf(p), r.no, rows)
              new == Effect(Op(c).verb, before[id], r.no)
  <2>8. rows = [j \in Ids |-> rows[j]]
    BY DEF Inv
  <2>9. before = [j \in Ids |-> before[j]]
    BY <1>4, <2>8, ReplayTable
  <2>10. after = [before EXCEPT ![id] = new]
    <3>1. Replay(r.ops, HitsOf(r) \cup {at}, r.no, rows)
            = Redo(r.ops, {at}, r.no, at, before)
      BY <1>3, ReplayOneMore
    <3>. QED BY <1>4, <2>7, <3>1 DEF Redo
  <2>11. \A i \in Ids : before[i] = SeesOf(r, rows, i)
    BY <1>1, <1>2 DEF Faithful
  <2>12. new = Written(c)
    <3>1. Target(c) = Sees(c, id)
      BY <1>1, <1>8, TargetSeen
    <3>2. Sees(c, id) = SeesOf(r, rows, id)
      BY DEF Sees, SeesOf
    <3>3. before[id] = Target(c)
      BY <1>4, <2>11, <3>1, <3>2
    <3>. QED BY <3>3 DEF Written
  <2>. HIDE DEF before, after, new
  <2>13. ASSUME NEW i \in Ids
         PROVE  after[i] = SeesOf(p, rows, i)
    <3>1. CASE i = id
      <4>1. after[i] = new
        BY <1>4, <2>9, <2>10, <3>1
      <4>. QED BY <2>4, <2>5, <2>12, <3>1, <4>1 DEF SeesOf
    <3>2. CASE i # id
      <4>1. after[i] = before[i]
        BY <2>9, <2>10, <3>2
      <4>. QED BY <2>4, <2>5, <2>11, <3>2, <4>1 DEF SeesOf
    <3>. QED BY <3>1, <3>2
  <2>14. \A k \in HitsOf(p) : p.ops[k].id \in DOMAIN p.writes
    BY <1>1, <1>2, <1>4, <2>4, <2>5, <2>7 DEF Faithful
  <2>15. \A d \in Clients \ {c} : Apart(p, req[d])
    <3>. SUFFICES ASSUME NEW d \in Clients \ {c} PROVE Apart(p, req[d])
      OBVIOUS
    <3>1. id \notin DOMAIN req[d].writes
      BY <1>1, <1>8, HitsFreeRow
    <3>2. Apart(req[c], req[d])
      BY DEF Inv
    <3>. QED BY <2>4, <2>5, <3>1, <3>2 DEF Apart
  <2>16. /\ Good(next) /\ HitsOf(next) = HitsOf(p)
         /\ next.writes = p.writes /\ next.ops = p.ops /\ next.no = p.no
    BY <1>1, <1>3, <2>3, <2>4, <2>6, OnwardGood, PauseGood
  <2>. HIDE DEF next, paused
  <2>17. \A i \in Ids : Replay(p.ops, HitsOf(p), p.no, rows)[i]
                          = SeesOf(p, rows, i)
    BY <2>4, <2>13 DEF after
  <2>18. Faithful(next, rows)
    BY <2>14, <2>16, <2>17 DEF Faithful, SeesOf
  <2>19. \A d \in Clients \ {c} : Apart(next, req[d])
    BY <2>15, <2>16 DEF Apart
  <2>20. sent' \in 0..MaxRequests /\ UNCHANGED <<rows, expected>>
    BY <1>1 DEF Inv
  <2>. QED BY <2>1, <2>16, <2>18, <2>19, <2>20, OneMoves
<1>. QED BY <1>6, <1>7, <1>8

------------------------------------------------------------------------------
(* The commit.                                                             *)

\* The commit of one transaction leaves the others what they see and have
\* written, and makes of the table what the ghost makes of it.
LEMMA CommittedInv ==
    ASSUME Inv, NEW c \in Clients, NEW q, req' = [req EXCEPT ![c] = q],
           Released(q), Committed(c)
    PROVE  Inv'
<1>1. /\ req[c].pc = "commit" /\ req[c].pc \in Holding
      /\ Good(req[c]) /\ Faithful(req[c], rows)
      /\ req[c] \in RequestType /\ req[c].ops \in Seq(Ops)
      /\ req[c].writes \in Tables
  BY DEF Committed, Inv, Good, RequestType, Holding
<1>2. \A i \in Ids : rows'[i] = SeesOf(req[c], rows, i)
  BY DEF Committed, SeesOf
<1>3. rows' = [i \in Ids |-> rows'[i]]
  BY DEF Committed
<1>4. rows = expected /\ rows = [j \in Ids |-> rows[j]]
  BY DEF Inv, RowsAddUp
<1>5. expected' = Replay(req[c].ops, HitsOf(req[c]), req[c].no, rows)
  BY <1>4 DEF Committed, Replayed, Mine, HitsOf
<1>6. expected' = rows'
  <2>1. expected' = [j \in Ids |-> expected'[j]]
    BY <1>1, <1>4, <1>5, ReplayTable
  <2>2. \A i \in Ids : expected'[i] = rows'[i]
    BY <1>1, <1>2, <1>5 DEF Faithful
  <2>. QED BY <1>3, <2>1, <2>2
<1>7. rows' \in [Ids -> Values]
  <2>1. \A i \in DOMAIN req[c].writes : req[c].writes[i] \in Values
    BY <1>1, WritesAreTables
  <2>2. \A i \in Ids : rows[i] \in Values
    BY DEF Inv
  <2>3. \A i \in Ids : rows'[i] \in Values
    BY <1>2, <2>1, <2>2 DEF SeesOf
  <2>. QED BY <1>3, <2>3
<1>8. \A d \in Clients : req'[d] = IF d = c THEN q ELSE req[d]
  BY DEF Inv
<1>9. ASSUME NEW d \in Clients
      PROVE  Faithful(req'[d], rows')
  <2>1. CASE d = c
    BY <1>8, <2>1, ReleasedFaithful
  <2>2. CASE d # c
    <3>. DEFINE p == req[d]
    <3>1. Good(p) /\ Faithful(p, rows) /\ Apart(req[c], p) /\ p.ops \in Seq(Ops)
      BY <2>2 DEF Inv, Good, RequestType
    <3>2. req'[d] = p
      BY <1>8, <2>2
    <3>. HIDE DEF p
    <3>3. ASSUME p.pc \in Holding, NEW i \in Ids
          PROVE  Replay(p.ops, HitsOf(p), p.no, rows')[i] = SeesOf(p, rows', i)
      <4>1. CASE i \in DOMAIN p.writes
        <5>1. rows'[i] = rows[i]
          BY <1>2, <3>1, <4>1 DEF Apart, SeesOf
        <5>2. Replay(p.ops, HitsOf(p), p.no, rows')[i]
                = Replay(p.ops, HitsOf(p), p.no, rows)[i]
          BY <1>3, <1>4, <3>1, <5>1, ReplayRow
        <5>. QED BY <3>1, <3>3, <4>1, <5>2 DEF Faithful, SeesOf
      <4>2. CASE i \notin DOMAIN p.writes
        <5>1. \A k \in HitsOf(p) : p.ops[k].id # i
          BY <3>1, <3>3, <4>2 DEF Faithful
        <5>2. Replay(p.ops, HitsOf(p), p.no, rows')[i] = rows'[i]
          BY <1>3, <3>1, <5>1, ReplayUntouched
        <5>. QED BY <4>2, <5>2 DEF SeesOf
      <4>. QED BY <4>1, <4>2
    <3>4. Faithful(p, rows')
      BY <3>1, <3>3 DEF Faithful
    <3>. QED BY <3>2, <3>4
  <2>. QED BY <2>1, <2>2
<1>10. Good(q) /\ \A p : Apart(q, p)
  BY ReleasedFaithful
<1>11. \A d \in Clients : Good(req'[d])
  BY <1>8, <1>10 DEF Inv
<1>12. ASSUME NEW d \in Clients, NEW e \in Clients, d # e
       PROVE  Apart(req'[d], req'[e])
  <2>1. Apart(req[d], req[e])
    BY <1>12 DEF Inv
  <2>2. Apart(q, req[d]) => Apart(req[d], q)
    BY DEF Apart
  <2>. QED BY <1>8, <1>10, <1>12, <2>1, <2>2
<1>13. req' \in [Clients -> RequestType]
  BY <1>10 DEF Inv, Good
<1>14. sent' \in 0..MaxRequests /\ RowsAddUp'
  BY <1>6 DEF Committed, Inv, RowsAddUp
<1>. QED BY <1>7, <1>9, <1>11, <1>12, <1>13, <1>14 DEF Inv

\* What a commit has done it has done as a whole.
LEMMA DoneGood ==
    ASSUME Inv, NEW c \in Clients, req[c].pc = "commit"
    PROVE  /\ Done(c) \in RequestType /\ FieldsOK(Done(c)) /\ DoneWhole(Done(c))
           /\ Done(c).done = req[c].done \cup Mine(c) /\ Mine(c) \subseteq Nat
           /\ Done(c).pc = "commit" /\ Done(c).kind = req[c].kind
           /\ Done(c).at = req[c].at /\ Done(c).ops = req[c].ops
           /\ Done(c).size = req[c].size /\ Done(c).did = req[c].did
           /\ Done(c).hit = req[c].hit /\ Done(c).writes = req[c].writes
           /\ Done(c).reported = req[c].reported
           /\ req[c].kind # "tx" => req[c].at \in Mine(c)
<1>. DEFINE r == req[c]
            p == Done(c)
<1>1. Good(r) /\ r \in RequestType
  BY DEF Inv, Good
<1>2. Mine(c) \subseteq Nat
  BY <1>1 DEF Mine, RequestType
<1>3. p = [r EXCEPT !.done = @ \cup Mine(c)]
  BY DEF Done
<1>4. p \in RequestType
  BY <1>1, <1>2, <1>3 DEF RequestType
<1>5. /\ p.done = r.done \cup Mine(c) /\ p.pc = "commit"
      /\ p.kind = r.kind /\ p.at = r.at /\ p.ops = r.ops /\ p.size = r.size
      /\ p.did = r.did /\ p.hit = r.hit /\ p.writes = r.writes
      /\ p.reported = r.reported
  BY <1>1, <1>3 DEF RequestType
<1>6. r.kind # "tx" => r.at \in Mine(c)
  BY <1>1 DEF Mine, Good, EachOK
<1>7. r.kind = "tx" => r.done = {} /\ Mine(c) = 1..r.size
  BY <1>1 DEF Mine, Good, TxOK
<1>. HIDE DEF p
<1>8. FieldsOK(p)
  BY <1>1, <1>5 DEF Good, FieldsOK, Holding
<1>9. DoneWhole(p)
  BY <1>5, <1>7 DEF DoneWhole
<1>. QED BY <1>2, <1>4, <1>5, <1>6, <1>8, <1>9 DEF p

LEMMA CommitUnheardInv ==
    ASSUME Inv, NEW c \in Clients, CommitUnheard(c)
    PROVE  Inv'
<1>1. Committed(c) /\ req[c].pc = "commit"
      /\ req' = [req EXCEPT ![c] = Afterwards(Done(c), FALSE)]
  BY DEF CommitUnheard, Committed
<1>2. Released(Afterwards(Done(c), FALSE))
  BY <1>1, DoneGood, AfterwardsReleased
<1>. QED BY <1>1, <1>2, CommittedInv

LEMMA CommitInv ==
    ASSUME Inv, NEW c \in Clients, Commit(c)
    PROVE  Inv'
<1>1. Committed(c) /\ req[c].pc = "commit"
  BY DEF Commit, Committed
<1>. DEFINE p == Done(c)
            q == Reported(p, Mine(c))
            f == [p EXCEPT !.pc = "finish", !.writes = <<>>]
<1>2. /\ p \in RequestType /\ FieldsOK(p) /\ DoneWhole(p)
      /\ p.done = req[c].done \cup Mine(c) /\ Mine(c) \subseteq Nat
      /\ p.pc = "commit" /\ p.kind = req[c].kind /\ p.at = req[c].at
      /\ req[c].kind # "tx" => req[c].at \in Mine(c)
  BY <1>1, DoneGood
<1>3. CASE req[c].kind = "tx" \/ Op(c).verb = "delete"
  <2>1. req' = [req EXCEPT ![c] = Afterwards(q, TRUE)]
    BY <1>3 DEF Commit
  <2>. HIDE DEF p
  <2>2. q \in RequestType
    BY <1>2 DEF Reported, RequestType
  <2>3. /\ q.pc = p.pc /\ q.kind = p.kind /\ q.at = p.at /\ q.ops = p.ops
        /\ q.size = p.size /\ q.did = p.did /\ q.hit = p.hit
        /\ q.writes = p.writes /\ q.done = p.done
        /\ q.reported = p.reported \cup Mine(c)
    BY <1>2 DEF Reported, RequestType
  <2>. HIDE DEF q
  <2>4. FieldsOK(q) /\ DoneWhole(q) /\ q.pc # "idle"
    BY <1>2, <2>3 DEF FieldsOK, DoneWhole
  <2>5. Released(Afterwards(q, TRUE))
    BY <2>2, <2>4, AfterwardsReleased
  <2>. QED BY <1>1, <2>1, <2>5, CommittedInv
<1>4. CASE req[c].kind # "tx" /\ Op(c).verb # "delete"
  <2>1. req' = [req EXCEPT ![c] = f]
    BY <1>4 DEF Commit
  <2>. HIDE DEF p
  <2>2. f \in RequestType
    BY <1>2, NoWrites DEF RequestType, PCs
  <2>3. /\ f.pc = "finish" /\ f.writes = <<>>
        /\ f.kind = p.kind /\ f.at = p.at /\ f.ops = p.ops
        /\ f.size = p.size /\ f.did = p.did /\ f.hit = p.hit
        /\ f.done = p.done /\ f.reported = p.reported
    BY <1>2 DEF RequestType
  <2>. HIDE DEF f
  <2>4. FieldsOK(f) /\ DoneWhole(f)
    BY <1>2, <2>3 DEF FieldsOK, DoneWhole, Holding
  <2>5. TxOK(f) /\ EachOK(f)
    BY <1>2, <1>4, <2>3 DEF TxOK, EachOK
  <2>6. Released(f)
    BY <2>2, <2>3, <2>4, <2>5 DEF Released, Good, Holding
  <2>. QED BY <1>1, <2>1, <2>6, CommittedInv
<1>. QED BY <1>3, <1>4

------------------------------------------------------------------------------
(* The connections.                                                        *)

\* Every connection that is taken is held by one transaction that runs.
PoolOK == inUse = Cardinality(Holders) /\ inUse \in 0..PoolSize

LEMMA HoldersFinite == IsFiniteSet(Holders) /\ Cardinality(Holders) \in Nat
<1>1. IsFiniteSet(Holders)
  BY ClientsAssumption, FS_Subset DEF Holders
<1>. QED BY <1>1, FS_CardinalityType

\* A request takes a connection, gives it back, or keeps what it has.
LEMMA PoolMoves ==
    ASSUME Inv, PoolOK, NEW c \in Clients, NEW q,
           req' = [req EXCEPT ![c] = q],
           CASE q.pc \in Holding /\ req[c].pc \notin Holding ->
                    FreeConnection /\ inUse' = inUse + 1
             [] q.pc \notin Holding /\ req[c].pc \in Holding ->
                    inUse' = inUse - 1
             [] OTHER -> inUse' = inUse
    PROVE  PoolOK'
<1>1. /\ inUse = Cardinality(Holders) /\ inUse \in 0..PoolSize
      /\ PoolSize \in Nat /\ IsFiniteSet(Holders)
  BY HoldersFinite, BoundsAssumption DEF PoolOK
<1>2. \A d \in Clients : req'[d] = IF d = c THEN q ELSE req[d]
  BY DEF Inv
<1>3. CASE q.pc \in Holding /\ req[c].pc \notin Holding
  <2>1. Holders' = Holders \cup {c} /\ c \notin Holders
    BY <1>2, <1>3 DEF Holders
  <2>2. inUse' = inUse + 1 /\ inUse < PoolSize
    BY <1>3 DEF FreeConnection
  <2>3. Cardinality(Holders') = Cardinality(Holders) + 1
    BY <1>1, <2>1, FS_AddElement
  <2>. QED BY <1>1, <2>2, <2>3 DEF PoolOK
<1>4. CASE q.pc \notin Holding /\ req[c].pc \in Holding
  <2>1. Holders' = Holders \ {c} /\ c \in Holders
    BY <1>2, <1>4 DEF Holders
  <2>2. inUse' = inUse - 1
    BY <1>4
  <2>3. Cardinality(Holders') = Cardinality(Holders) - 1
        /\ IsFiniteSet(Holders')
    BY <1>1, <2>1, FS_RemoveElement
  <2>4. Cardinality(Holders') \in Nat
    BY <2>3, FS_CardinalityType
  <2>. QED BY <1>1, <2>2, <2>3, <2>4 DEF PoolOK
<1>5. CASE (q.pc \in Holding) <=> (req[c].pc \in Holding)
  <2>1. Holders' = Holders
    BY <1>2, <1>5 DEF Holders
  <2>2. inUse' = inUse
    BY <1>5
  <2>. QED BY <1>1, <2>1, <2>2 DEF PoolOK
<1>. QED BY <1>3, <1>4, <1>5

\* The deferred Rollback.
LEMMA RollbackPool ==
    ASSUME Inv, PoolOK, NEW c \in Clients, NEW q,
           req' = [req EXCEPT ![c] = q], q.pc \notin Holding, Rollback(c)
    PROVE  PoolOK'
  BY PoolMoves DEF Rollback

LEMMA FailedPool ==
    ASSUME Inv, PoolOK, NEW c \in Clients, req[c].pc # "idle", Failed(c)
    PROVE  PoolOK'
<1>1. Good(req[c])
  BY DEF Inv
<1>2. Released(Afterwards(req[c], FALSE))
  BY <1>1, AfterwardsReleased DEF Good
<1>. QED BY <1>2, RollbackPool DEF Failed, Released

LEMMA OnwardHolds == \A q \in RequestType : Onward(q).pc \in Holding
  BY DEF Onward, RequestType, Holding

\* What a request is after its statement: it looks up columns, reads its row
\* back, or goes on.
LEMMA ExecuteShape ==
    ASSUME Inv, NEW c \in Clients, Execute(c)
    PROVE  /\ Executed(c).pc \in Holding
           /\ Executed(c).pc = "columns" =>
                Executed(c).ops[Executed(c).at].verb \in Reads
<1>1. req[c] \in RequestType
  BY DEF Inv
<1>2. /\ DOMAIN Did(c) = DOMAIN req[c] /\ Did(c).ops = req[c].ops
      /\ Did(c).at = req[c].at /\ Did(c).pc = req[c].pc
  BY <1>1 DEF Did, RequestType
<1>3. "pc" \in DOMAIN req[c]
  BY <1>1 DEF RequestType
<1>4. DOMAIN Changed(c) = DOMAIN req[c]
  BY <1>2 DEF Changed
<1>5. CASE Op(c).verb \in Reads
  <2>. DEFINE q == [Did(c) EXCEPT !.pc = "columns"]
  <2>1. q.pc = "columns" /\ q.ops = req[c].ops /\ q.at = req[c].at
    BY <1>2, <1>3
  <2>2. Executed(c) = q
    BY <1>5 DEF Executed
  <2>. HIDE DEF q
  <2>. QED BY <1>5, <2>1, <2>2 DEF Op, Holding
<1>6. CASE Op(c).verb \notin Reads /\ Op(c).verb = "update"
  <2>. DEFINE q == [Changed(c) EXCEPT !.pc = "readback"]
  <2>1. q.pc = "readback"
    BY <1>3, <1>4
  <2>2. Executed(c) = q
    BY <1>6 DEF Executed
  <2>. HIDE DEF q
  <2>. QED BY <2>1, <2>2 DEF Holding
<1>7. CASE Op(c).verb \notin Reads /\ Op(c).verb # "update"
  <2>1. Onward(Changed(c)).pc \in {"lookup", "commit"}
    BY <1>3, <1>4 DEF Onward
  <2>2. Executed(c) = Onward(Changed(c))
    BY <1>7 DEF Executed
  <2>. QED BY <2>1, <2>2 DEF Holding
<1>. QED BY <1>5, <1>6, <1>7

LEMMA ServePool ==
    ASSUME Inv, PoolOK, NEW c \in Clients, Serve(c)
    PROVE  PoolOK'
<1>0. Good(req[c]) /\ req[c] \in RequestType
  BY DEF Inv, Good
<1>1. CASE Authorize(c)
  <2>. DEFINE q == [req[c] EXCEPT !.pc = "begin"]
  <2>1. q.pc = "begin" /\ req[c].pc = "authorize" /\ inUse' = inUse
        /\ req' = [req EXCEPT ![c] = q]
    BY <1>0, <1>1 DEF Authorize, RequestType
  <2>. HIDE DEF q
  <2>. QED BY <2>1, PoolMoves DEF Holding
<1>2. CASE Lookup(c)
  <2>. DEFINE q == [req[c] EXCEPT !.pc = "statement"]
  <2>1. q.pc = "statement" /\ req[c].pc = "lookup" /\ inUse' = inUse
        /\ req' = [req EXCEPT ![c] = q]
    BY <1>0, <1>2 DEF Lookup, RequestType
  <2>. HIDE DEF q
  <2>. QED BY <2>1, PoolMoves DEF Holding
<1>3. CASE Refuse(c)
  BY <1>3, FailedPool DEF Refuse
<1>4. CASE Begin(c)
  <2>. DEFINE q == [req[c] EXCEPT !.pc = IF req[c].kind = "tx" THEN "lookup"
                                         ELSE "statement"]
  <2>1. q.pc \in {"lookup", "statement"} /\ req[c].pc = "begin"
        /\ inUse' = inUse + 1 /\ FreeConnection
        /\ req' = [req EXCEPT ![c] = q]
    BY <1>0, <1>4 DEF Begin, RequestType
  <2>. HIDE DEF q
  <2>. QED BY <2>1, PoolMoves DEF Holding
<1>5. CASE Block(c)
  <2>. DEFINE q == [req[c] EXCEPT !.pc = "blocked", !.saw = rows[Op(c).id]]
  <2>1. req[c].pc = "statement" /\ inUse' = inUse
        /\ req' = [req EXCEPT ![c] = q]
    BY <1>5 DEF Block, Inv
  <2>2. q.pc = "blocked"
    BY <1>0 DEF RequestType
  <2>. HIDE DEF q
  <2>. QED BY <2>1, <2>2, PoolMoves DEF Holding
<1>6. CASE Execute(c)
  <2>1. Executed(c).pc \in Holding
    BY <1>6, ExecuteShape
  <2>2. /\ req[c].pc \in Holding /\ inUse' = inUse
        /\ req' = [req EXCEPT ![c] = Executed(c)]
    BY <1>6 DEF Execute, Holding
  <2>. QED BY <2>1, <2>2, PoolMoves
<1>7. CASE Miss(c)
  BY <1>7, FailedPool DEF Miss
<1>11. CASE ReadBack(c)
  BY <1>0, <1>11, OnwardHolds, PoolMoves DEF ReadBack, Holding
<1>8. CASE Columns(c)
  <2>1. CASE req[c].kind = "tx"
    BY <1>0, <1>8, <2>1, OnwardHolds, PoolMoves DEF Columns, Holding
  <2>2. CASE req[c].kind # "tx"
    <3>1. Released(Afterwards(req[c], TRUE))
      BY <1>0, <1>8, AfterwardsReleased DEF Good, Columns
    <3>. QED BY <1>8, <2>2, <3>1, RollbackPool DEF Columns, Released
  <2>. QED BY <2>1, <2>2
<1>9. CASE Commit(c)
  <2>1. \E q : req' = [req EXCEPT ![c] = q] /\ q.pc \notin Holding
    <3>. DEFINE q == Reported(Done(c), Mine(c))
                f == [Done(c) EXCEPT !.pc = "finish", !.writes = <<>>]
    <3>1. /\ Done(c) \in RequestType /\ FieldsOK(Done(c))
          /\ DoneWhole(Done(c)) /\ Done(c).pc = "commit"
          /\ Mine(c) \subseteq Nat
          /\ Mine(c) \subseteq Done(c).done
      BY <1>9, DoneGood DEF Commit, Committed
    <3>2. f.pc = "finish"
      BY <3>1 DEF RequestType
    <3>3. q \in RequestType /\ FieldsOK(q) /\ DoneWhole(q) /\ q.pc = "commit"
      BY <3>1 DEF Reported, RequestType, FieldsOK, DoneWhole
    <3>4. Released(Afterwards(q, TRUE))
      BY <3>3, AfterwardsReleased
    <3>5. req' = [req EXCEPT ![c] = Afterwards(q, TRUE)]
          \/ req' = [req EXCEPT ![c] = f]
      BY <1>9 DEF Commit
    <3>. HIDE DEF q, f
    <3>. QED BY <3>2, <3>4, <3>5 DEF Released, Holding
  <2>2. req[c].pc \in Holding /\ inUse' = inUse - 1
    BY <1>9 DEF Commit, Committed, Holding
  <2>. QED BY <2>1, <2>2, PoolMoves
<1>10. CASE Finish(c)
  <2>. DEFINE q == Reported(req[c], {req[c].at})
  <2>1. req[c].pc = "finish" /\ inUse' = inUse
        /\ req' = [req EXCEPT ![c] = Afterwards(q, TRUE)]
    BY <1>10 DEF Finish
  <2>2. q \in RequestType /\ FieldsOK(q) /\ DoneWhole(q) /\ q.pc = "finish"
    <3>1. req[c].at \in req[c].done
      BY <1>0, <2>1 DEF Good, TxOK, EachOK
    <3>. QED BY <1>0, <2>1, <3>1
           DEF Reported, Good, RequestType, FieldsOK, DoneWhole
  <2>3. Released(Afterwards(q, TRUE))
    BY <2>2, AfterwardsReleased
  <2>. HIDE DEF q
  <2>. QED BY <2>1, <2>3, PoolMoves DEF Released, Holding
<1>. QED BY <1>1, <1>2, <1>3, <1>4, <1>5, <1>6, <1>7, <1>8, <1>9, <1>10,
            <1>11 DEF Serve

LEMMA NextPool == Inv /\ PoolOK /\ [Next]_vars => PoolOK'
<1>. SUFFICES ASSUME Inv, PoolOK, [Next]_vars PROVE PoolOK'
  OBVIOUS
<1>1. ASSUME NEW c \in Clients, NEW r \in Menu, Send(c, r) PROVE PoolOK'
  <2>. DEFINE q == [Idle EXCEPT !.pc = IF r.kind = "tx" THEN "begin"
                                       ELSE "authorize",
                                !.kind = r.kind, !.user = r.user,
                                !.ops = r.ops, !.no = sent + 1,
                                !.size = Len(r.ops)]
  <2>1. req[c].pc = "idle" /\ inUse' = inUse /\ req' = [req EXCEPT ![c] = q]
    BY <1>1 DEF Send
  <2>2. q.pc \in {"begin", "authorize"}
    BY DEF Idle
  <2>. HIDE DEF q
  <2>. QED BY <2>1, <2>2, PoolMoves DEF Holding
<1>2. ASSUME NEW c \in Clients, Serve(c) PROVE PoolOK'
  BY <1>2, ServePool
<1>3. ASSUME NEW c \in Clients, CommitUnheard(c) PROVE PoolOK'
  <2>1. Released(Afterwards(Done(c), FALSE))
    BY <1>3, DoneGood, AfterwardsReleased DEF CommitUnheard, Committed
  <2>2. /\ req[c].pc \in Holding /\ inUse' = inUse - 1
        /\ req' = [req EXCEPT ![c] = Afterwards(Done(c), FALSE)]
    BY <1>3 DEF CommitUnheard, Committed, Holding
  <2>. QED BY <2>1, <2>2, PoolMoves DEF Released
<1>4. ASSUME NEW c \in Clients, OperationFails(c) PROVE PoolOK'
  BY <1>4, FailedPool DEF OperationFails
<1>5. ASSUME NEW c \in Clients, Abort(c) PROVE PoolOK'
  BY <1>5, FailedPool DEF Abort
<1>6. ASSUME NEW c \in Clients, Leave(c) PROVE PoolOK'
  <2>1. Good(req[c])
    BY DEF Inv
  <2>2. Ended(req[c]).pc = "idle"
    BY <2>1, EndedReleased DEF Good, FieldsOK
  <2>. QED BY <1>6, <2>2, RollbackPool DEF Leave, Holding
<1>7. CASE Crash
  <2>1. \A c \in Clients : Ended(req[c]).pc = "idle"
    <3>. SUFFICES ASSUME NEW c \in Clients PROVE Ended(req[c]).pc = "idle"
      OBVIOUS
    <3>1. Good(req[c])
      BY DEF Inv
    <3>. QED BY <3>1, EndedReleased DEF Good, FieldsOK
  <2>2. Holders' = {}
    BY <1>7, <2>1 DEF Crash, Holders, Holding
  <2>. QED BY <1>7, <2>2, FS_EmptySet, BoundsAssumption DEF Crash, PoolOK
<1>8. CASE UNCHANGED vars
  BY <1>8 DEF vars, PoolOK, Holders
<1>. QED BY <1>1, <1>2, <1>3, <1>4, <1>5, <1>6, <1>7, <1>8 DEF Next

LEMMA InitPool == Init => PoolOK
<1>. SUFFICES ASSUME Init PROVE PoolOK
  OBVIOUS
<1>1. Holders = {}
  BY DEF Init, Holders, Idle, Holding
<1>. QED BY <1>1, FS_EmptySet, BoundsAssumption DEF Init, PoolOK

------------------------------------------------------------------------------
(* Who asks for a second connection.                                       *)

\* Only a read looks up columns, so any other request that holds a connection
\* outside the transaction endpoint asks for no second one.
ReadsOnly == \A c \in Clients : req[c].pc = "columns" => Op(c).verb \in Reads

LEMMA ReadsMove ==
    ASSUME Inv, ReadsOnly, NEW c \in Clients, NEW q,
           req' = [req EXCEPT ![c] = q],
           q.pc = "columns" => q.ops[q.at].verb \in Reads
    PROVE  ReadsOnly'
  BY DEF Inv, ReadsOnly, Op

LEMMA ReadsElsewhere ==
    ASSUME Inv, ReadsOnly, NEW c \in Clients, NEW q,
           req' = [req EXCEPT ![c] = q], q.pc # "columns"
    PROVE  ReadsOnly'
  BY ReadsMove

LEMMA ReadsReleased ==
    ASSUME Inv, ReadsOnly, NEW c \in Clients, NEW q,
           req' = [req EXCEPT ![c] = q], Released(q)
    PROVE  ReadsOnly'
<1>1. q.pc # "columns"
  BY DEF Released, Holding
<1>. QED BY <1>1, ReadsElsewhere

LEMMA ReadsFailed ==
    ASSUME Inv, ReadsOnly, NEW c \in Clients, req[c].pc # "idle", Failed(c)
    PROVE  ReadsOnly'
<1>1. Good(req[c])
  BY DEF Inv
<1>2. Released(Afterwards(req[c], FALSE))
  BY <1>1, AfterwardsReleased DEF Good
<1>. QED BY <1>2, ReadsReleased DEF Failed

LEMMA OnwardElsewhere == \A q \in RequestType : Onward(q).pc # "columns"
  BY DEF Onward, RequestType

LEMMA ServeReads ==
    ASSUME Inv, ReadsOnly, NEW c \in Clients, Serve(c)
    PROVE  ReadsOnly'
<1>0. Good(req[c]) /\ req[c] \in RequestType
  BY DEF Inv, Good
<1>1. CASE Authorize(c) \/ Lookup(c) \/ Begin(c) \/ Block(c)
  <2>1. \E q : req' = [req EXCEPT ![c] = q] /\ q.pc # "columns"
    <3>. DEFINE begin == [req[c] EXCEPT !.pc = "begin"]
                statement == [req[c] EXCEPT !.pc = "statement"]
                first == [req[c] EXCEPT !.pc = IF req[c].kind = "tx" THEN "lookup"
                                               ELSE "statement"]
                blocked == [req[c] EXCEPT !.pc = "blocked", !.saw = rows[Op(c).id]]
    <3>1. \/ req' = [req EXCEPT ![c] = begin]
          \/ req' = [req EXCEPT ![c] = statement]
          \/ req' = [req EXCEPT ![c] = first]
          \/ req' = [req EXCEPT ![c] = blocked]
      BY <1>1 DEF Authorize, Lookup, Begin, Block, Inv
    <3>2. /\ begin.pc # "columns" /\ statement.pc # "columns"
          /\ first.pc # "columns" /\ blocked.pc # "columns"
      BY <1>0 DEF RequestType
    <3>. HIDE DEF begin, statement, first, blocked
    <3>. QED BY <3>1, <3>2
  <2>. QED BY <2>1, ReadsElsewhere
<1>2. CASE Refuse(c)
  BY <1>2, ReadsFailed DEF Refuse
<1>3. CASE Execute(c)
  <2>1. Executed(c).pc = "columns" =>
            Executed(c).ops[Executed(c).at].verb \in Reads
    BY <1>3, ExecuteShape
  <2>2. req' = [req EXCEPT ![c] = Executed(c)]
    BY <1>3 DEF Execute
  <2>. QED BY <2>1, <2>2, ReadsMove
<1>4. CASE Miss(c)
  BY <1>4, ReadsFailed DEF Miss
<1>8. CASE ReadBack(c)
  BY <1>0, <1>8, OnwardElsewhere, ReadsElsewhere DEF ReadBack
<1>5. CASE Columns(c)
  <2>1. CASE req[c].kind = "tx"
    BY <1>0, <1>5, <2>1, OnwardElsewhere, ReadsElsewhere DEF Columns
  <2>2. CASE req[c].kind # "tx"
    <3>1. Released(Afterwards(req[c], TRUE))
      BY <1>0, <1>5, AfterwardsReleased DEF Good, Columns
    <3>. QED BY <1>5, <2>2, <3>1, ReadsReleased DEF Columns
  <2>. QED BY <2>1, <2>2
<1>6. CASE Commit(c)
  <2>. DEFINE q == Reported(Done(c), Mine(c))
              f == [Done(c) EXCEPT !.pc = "finish", !.writes = <<>>]
  <2>1. /\ Done(c) \in RequestType /\ FieldsOK(Done(c))
        /\ DoneWhole(Done(c)) /\ Done(c).pc = "commit"
        /\ Mine(c) \subseteq Nat
        /\ Mine(c) \subseteq Done(c).done
    BY <1>6, DoneGood DEF Commit, Committed
  <2>2. f.pc # "columns"
    BY <2>1 DEF RequestType
  <2>3. q \in RequestType /\ FieldsOK(q) /\ DoneWhole(q) /\ q.pc = "commit"
    BY <2>1 DEF Reported, RequestType, FieldsOK, DoneWhole
  <2>4. Released(Afterwards(q, TRUE))
    BY <2>3, AfterwardsReleased
  <2>5. req' = [req EXCEPT ![c] = Afterwards(q, TRUE)] \/ req' = [req EXCEPT ![c] = f]
    BY <1>6 DEF Commit
  <2>. HIDE DEF q, f
  <2>. QED BY <2>2, <2>4, <2>5, ReadsReleased, ReadsElsewhere
<1>7. CASE Finish(c)
  <2>. DEFINE q == Reported(req[c], {req[c].at})
  <2>1. req[c].pc = "finish" /\ req' = [req EXCEPT ![c] = Afterwards(q, TRUE)]
    BY <1>7 DEF Finish
  <2>2. q \in RequestType /\ FieldsOK(q) /\ DoneWhole(q) /\ q.pc = "finish"
    <3>1. req[c].at \in req[c].done
      BY <1>0, <2>1 DEF Good, TxOK, EachOK
    <3>. QED BY <1>0, <2>1, <3>1
           DEF Reported, Good, RequestType, FieldsOK, DoneWhole
  <2>3. Released(Afterwards(q, TRUE))
    BY <2>2, AfterwardsReleased
  <2>. HIDE DEF q
  <2>. QED BY <2>1, <2>3, ReadsReleased
<1>. QED BY <1>1, <1>2, <1>3, <1>4, <1>5, <1>6, <1>7, <1>8 DEF Serve

LEMMA NextReads == Inv /\ ReadsOnly /\ [Next]_vars => ReadsOnly'
<1>. SUFFICES ASSUME Inv, ReadsOnly, [Next]_vars PROVE ReadsOnly'
  OBVIOUS
<1>0. \A c \in Clients : Ended(req[c]).pc # "columns"
  BY DEF Ended, Idle
<1>1. ASSUME NEW c \in Clients, NEW r \in Menu, Send(c, r) PROVE ReadsOnly'
  <2>. DEFINE q == [Idle EXCEPT !.pc = IF r.kind = "tx" THEN "begin"
                                       ELSE "authorize",
                                !.kind = r.kind, !.user = r.user,
                                !.ops = r.ops, !.no = sent + 1,
                                !.size = Len(r.ops)]
  <2>1. req' = [req EXCEPT ![c] = q]
    BY <1>1 DEF Send
  <2>2. q.pc # "columns"
    BY DEF Idle
  <2>. HIDE DEF q
  <2>. QED BY <2>1, <2>2, ReadsElsewhere
<1>2. ASSUME NEW c \in Clients, Serve(c) PROVE ReadsOnly'
  BY <1>2, ServeReads
<1>3. ASSUME NEW c \in Clients, CommitUnheard(c) PROVE ReadsOnly'
  <2>1. Released(Afterwards(Done(c), FALSE))
    BY <1>3, DoneGood, AfterwardsReleased DEF CommitUnheard, Committed
  <2>. QED BY <1>3, <2>1, ReadsReleased DEF CommitUnheard
<1>4. ASSUME NEW c \in Clients, OperationFails(c) \/ Abort(c) PROVE ReadsOnly'
  BY <1>4, ReadsFailed DEF OperationFails, Abort
<1>5. ASSUME NEW c \in Clients, Leave(c) PROVE ReadsOnly'
  BY <1>0, <1>5, ReadsElsewhere DEF Leave
<1>6. CASE Crash
  BY <1>0, <1>6 DEF Crash, ReadsOnly
<1>7. CASE UNCHANGED vars
  BY <1>7 DEF vars, ReadsOnly, Op
<1>. QED BY <1>1, <1>2, <1>3, <1>4, <1>5, <1>6, <1>7 DEF Next

------------------------------------------------------------------------------
(* The theorems.                                                           *)

LEMMA InitInv == Init => Inv
<1>. SUFFICES ASSUME Init PROVE Inv
  OBVIOUS
<1>1. [born |-> 0, n |-> 0, items |-> 0] \in Rows
  BY BoundsAssumption DEF Rows
<1>2. rows \in [Ids -> Values]
  BY <1>1 DEF Init, Values
<1>3. \A c \in Clients : req[c] = Idle
  BY DEF Init
<1>4. req \in [Clients -> RequestType] /\ Good(Idle)
  BY IdleGood DEF Init, Good
<1>5. Idle.pc = "idle" /\ Idle.writes = <<>>
  BY DEF Idle
<1>6. Faithful(Idle, rows) /\ Apart(Idle, Idle)
  BY <1>5, NoWrites DEF Faithful, Apart, Holding
<1>7. sent \in 0..MaxRequests /\ RowsAddUp
  BY BoundsAssumption DEF Init, RowsAddUp
<1>. QED BY <1>2, <1>3, <1>4, <1>6, <1>7 DEF Inv

LEMMA NextInv == Inv /\ [Next]_vars => Inv'
<1>. SUFFICES ASSUME Inv, [Next]_vars PROVE Inv'
  OBVIOUS
<1>1. ASSUME NEW c \in Clients, NEW r \in Menu, Send(c, r) PROVE Inv'
  BY <1>1, SendInv
<1>2. ASSUME NEW c \in Clients, Serve(c) PROVE Inv'
  <2>1. CASE Authorize(c)
    BY <2>1, AuthorizeInv
  <2>2. CASE Lookup(c)
    BY <2>2, LookupInv
  <2>3. CASE Refuse(c)
    BY <2>3, FailedInv DEF Refuse
  <2>4. CASE Begin(c)
    BY <2>4, BeginInv
  <2>5. CASE Block(c)
    BY <2>5, BlockInv
  <2>6. CASE Execute(c)
    BY <2>6, ExecuteInv
  <2>7. CASE Miss(c)
    BY <2>7, FailedInv DEF Miss
  <2>8. CASE Columns(c)
    BY <2>8, ColumnsInv
  <2>9. CASE Commit(c)
    BY <2>9, CommitInv
  <2>10. CASE Finish(c)
    BY <2>10, FinishInv
  <2>11. CASE ReadBack(c)
    BY <2>11, ReadBackInv
  <2>. QED BY <1>2, <2>1, <2>2, <2>3, <2>4, <2>5, <2>6, <2>7, <2>8, <2>9,
              <2>10, <2>11 DEF Serve
<1>3. ASSUME NEW c \in Clients, CommitUnheard(c) PROVE Inv'
  BY <1>3, CommitUnheardInv
<1>4. ASSUME NEW c \in Clients, OperationFails(c) PROVE Inv'
  BY <1>4, FailedInv DEF OperationFails
<1>5. ASSUME NEW c \in Clients, Abort(c) PROVE Inv'
  BY <1>5, FailedInv DEF Abort
<1>6. ASSUME NEW c \in Clients, Leave(c) PROVE Inv'
  BY <1>6, LeaveInv
<1>7. CASE Crash
  BY <1>7, CrashInv
<1>8. CASE UNCHANGED vars
  BY <1>8 DEF vars, Inv, RowsAddUp
<1>. QED BY <1>1, <1>2, <1>3, <1>4, <1>5, <1>6, <1>7, <1>8 DEF Next

LEMMA InvAlways == Spec => []Inv
  BY InitInv, NextInv, PTL DEF Spec

\* The table is what the committed operations that found their rows make of it
\* one after another in the order of their commits, for any number of clients,
\* rows and requests (databases/service.go:2467-2485, 2641-2696, 2907-2919).
THEOREM RowsAddUpTheorem == Spec => []RowsAddUp
<1>1. Inv => RowsAddUp
  BY DEF Inv
<1>. QED BY <1>1, InvAlways, PTL

\* A transaction request is committed with all its operations or with none, and
\* no request reports an operation that was not committed
\* (databases/service.go:2782-2951; databases/handler.go:997-1046).
THEOREM AllOrNothingTheorem == Spec => []AllOrNothing
<1>1. Inv => AllOrNothing
  BY DEF Inv, AllOrNothing, Good, FieldsOK, DoneWhole
<1>. QED BY <1>1, InvAlways, PTL

\* The state has its type (databases/service.go: the rows, db/db.go:27-30: the
\* pool's limit).
THEOREM TypeTheorem == Spec => []TypeOK
<1>1. Inv /\ PoolOK => TypeOK
  <2>. SUFFICES ASSUME Inv, PoolOK PROVE TypeOK
    OBVIOUS
  <2>1. rows \in [Ids -> Rows \cup {None}] /\ expected = rows
    BY DEF Inv, RowsAddUp, Values
  <2>2. ASSUME NEW c \in Clients
        PROVE  /\ req[c].pc \in Holding \cup {"idle", "authorize", "begin",
                                               "finish"}
               /\ DOMAIN req[c].writes \subseteq Ids
               /\ req[c].pc \notin Holding => req[c].writes = <<>>
    <3>1. Good(req[c])
      BY DEF Inv
    <3>2. req[c].pc \in PCs /\ req[c].writes \in Tables
      BY <3>1 DEF Good, RequestType
    <3>. QED BY <3>1, <3>2, WritesAreTables DEF PCs, Good, FieldsOK
  <2>3. inUse \in 0..PoolSize /\ sent \in 0..MaxRequests
    BY DEF Inv, PoolOK
  <2>. QED BY <2>1, <2>2, <2>3 DEF TypeOK
<1>. QED BY <1>1, InvAlways, InitInv, NextInv, InitPool, NextPool, PTL DEF Spec

\* The connections that are taken are those that running transactions hold: no
\* error path, no client that leaves and no crash loses a connection of the
\* pool or gives one back twice (databases/service.go:1654-1673: every path
\* after Begin is under a deferred Rollback).
THEOREM ConnectionsAccountedTheorem == Spec => []ConnectionsAccounted
<1>1. PoolOK => ConnectionsAccounted
  BY DEF PoolOK, ConnectionsAccounted
<1>. QED BY <1>1, InvAlways, InitInv, NextInv, InitPool, NextPool, PTL DEF Spec

\* For any number of clients and connections and any requests: while fewer
\* transaction requests and reads run at a time than the pool has connections,
\* the requests cannot all wait for one another's connections (db/db.go:27-30;
\* databases/service.go: ExecuteTransaction looks permissions up on the pool
\* under its open transaction).
THEOREM PoolMovesOnTheorem == Spec => []PoolMovesOn
<1>1. Init => ReadsOnly
  BY DEF Init, Idle, ReadsOnly
<1>2. Inv /\ PoolOK /\ ReadsOnly => PoolMovesOn
  <2>. SUFFICES ASSUME Inv, PoolOK, ReadsOnly, Cardinality(Greedy) < PoolSize,
                       ~FreeConnection
                PROVE  \E c \in Clients \ Greedy :
                          req[c].pc \in {"statement", "blocked", "readback",
                                         "commit"}
    BY DEF PoolMovesOn
  <2>1. Cardinality(Holders) = PoolSize
    BY BoundsAssumption DEF PoolOK, FreeConnection
  <2>2. Holders # Greedy
    BY <2>1, BoundsAssumption
  <2>3. Greedy \subseteq Holders
    BY DEF Greedy, Holders
  <2>4. PICK c \in Holders : c \notin Greedy
    BY <2>2, <2>3
  <2>5. req[c].kind # "tx" /\ Op(c).verb \notin Reads
    BY <2>4 DEF Greedy, Holders
  <2>6. req[c].pc # "lookup" /\ req[c].pc # "columns"
    BY <2>4, <2>5 DEF Inv, Good, EachOK, ReadsOnly, Holders
  <2>. QED BY <2>4, <2>6 DEF Holders, Holding
<1>. QED BY <1>1, <1>2, NextReads, InvAlways, InitInv, NextInv, InitPool, NextPool,
            PTL DEF Spec
==============================================================================
