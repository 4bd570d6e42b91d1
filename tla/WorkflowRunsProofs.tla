------------------------- MODULE WorkflowRunsProofs -------------------------
(***************************************************************************)
(* Proofs about WorkflowGraph and WorkflowRuns, for any workflows, any     *)
(* number of workers and any faults, as long as no definition lists a node *)
(* id twice (UniqueIds): every node is decided once in every run, and what *)
(* must not be repeated has no more effects than there were runs.          *)
(*                                                                         *)
(* The order. What topoSort computes are recursive functions over numbers, *)
(* so their properties are proved by induction: an in-degree counts the    *)
(* edges from nodes that have not been visited (KahnOK), so a node enters  *)
(* the queue behind all its sources, and a definition without a cycle has  *)
(* all its nodes in the order.                                             *)
(*                                                                         *)
(* The runs. A call of RunWorkflow goes through its order from the front   *)
(* and writes to its log what is behind it (Logged). A node that must not  *)
(* be repeated is open in a call until it has been attempted, and no step  *)
(* opens it again (Follows): each run pays for one effect (Budget).        *)
(*                                                                         *)
(* The skips. As long as the order respects the edges and no failure comes *)
(* behind its own handler, the map of skipped nodes says of the nodes that *)
(* matter to the rest of the call what became of them (Recorded), so what  *)
(* the loop skips is what no path reaches, and a handler that only its own *)
(* failure decides about runs (HandlersRun).                               *)
(*                                                                         *)
(* The job. Every busy worker has a lease of its own, and one that loads   *)
(* the workflow has its copy on the processing list (Receipts), so only a  *)
(* worker behind its last write takes a copy away for good (HeldInv). This *)
(* part is about any definition.                                           *)
(***************************************************************************)
EXTENDS WorkflowRuns, Integers, FiniteSetTheorems, SequenceTheorems,
        WellFoundedInduction, TLAPS

-----------------------------------------------------------------------------
(* Induction and recursion over numbers.                                   *)

LEMMA NatSetInduction ==
  ASSUME NEW T, 0 \in T, \A n \in Nat : n \in T => n + 1 \in T
  PROVE  Nat \subseteq T
<1>. DEFINE Rest == Nat \ T
            Less == {ss \in Nat \X Nat : ss[1] < ss[2]}
<1>. SUFFICES ASSUME Rest # {} PROVE FALSE
  OBVIOUS
<1>1. IsWellFoundedOn(Less, Nat)
  BY NatLessThanWellFounded, Zenon DEF OpToRel
<1>2. \A m, n \in Nat : m < n => <<m, n>> \in Less
  OBVIOUS
<1>. HIDE DEF Less
<1>3. PICK n \in Rest : \A m \in Rest : <<m, n>> \notin Less
  BY <1>1, WFMin
<1>4. n # 0 /\ n - 1 \in Nat /\ n - 1 < n
  OBVIOUS
<1>5. n - 1 \in T
  BY <1>2, <1>3, <1>4
<1>6. (n - 1) + 1 \in T
  BY <1>4, <1>5
<1>. QED BY <1>3, <1>4, <1>6

\* What a function over 0 .. n is that starts at base and takes a step.
Steps(g, n, S, base, step) ==
  /\ g \in [0 .. n -> S]
  /\ \A k \in 0 .. n : g[k] = IF k = 0 THEN base ELSE step[k][g[k - 1]]

\* There is one.
LEMMA Recursion ==
  ASSUME NEW S, NEW base \in S, NEW n \in Nat, NEW step \in [1 .. n -> [S -> S]]
  PROVE  \E g : Steps(g, n, S, base, step)
<1>. DEFINE T == {m \in Nat : m <= n => \E g : Steps(g, m, S, base, step)}
<1>1. 0 \in T
  <2>. DEFINE g == [k \in 0 .. 0 |-> base]
  <2>1. Steps(g, 0, S, base, step)
    BY DEF Steps
  <2>. QED BY <2>1
<1>2. ASSUME NEW m \in Nat, m \in T PROVE m + 1 \in T
  <2>. SUFFICES ASSUME m + 1 <= n
                PROVE  \E g : Steps(g, m + 1, S, base, step)
    OBVIOUS
  <2>1. PICK f : Steps(f, m, S, base, step)
    BY <1>2
  <2>2. f[m] \in S /\ step[m + 1] \in [S -> S]
    BY <2>1 DEF Steps
  <2>. DEFINE g == [k \in 0 .. m + 1 |-> IF k = m + 1 THEN step[m + 1][f[m]]
                                         ELSE f[k]]
  <2>3. \A k \in 0 .. m : g[k] = f[k] /\ g[k] \in S
    BY <2>1 DEF Steps
  <2>4. g[m + 1] = step[m + 1][g[m]] /\ g[m + 1] \in S
    BY <2>2, <2>3
  <2>5. g \in [0 .. m + 1 -> S]
    <3>1. \A k \in 0 .. m + 1 : k \in 0 .. m \/ k = m + 1
      OBVIOUS
    <3>2. \A k \in 0 .. m + 1 : g[k] \in S
      BY <2>3, <2>4, <3>1
    <3>. QED BY <3>2
  <2>. HIDE DEF g
  <2>6. ASSUME NEW k \in 0 .. m + 1
        PROVE  g[k] = IF k = 0 THEN base ELSE step[k][g[k - 1]]
    <3>1. CASE k = m + 1
      BY <2>4, <3>1
    <3>2. CASE k # m + 1
      <4>1. k \in 0 .. m /\ (k # 0 => k - 1 \in 0 .. m)
        BY <3>2
      <4>. QED BY <2>1, <2>3, <4>1 DEF Steps
    <3>. QED BY <3>1, <3>2
  <2>. QED BY <2>5, <2>6 DEF Steps
<1>. HIDE DEF T
<1>3. n \in T
  BY <1>1, <1>2, NatSetInduction
<1>. QED BY <1>3 DEF T

-----------------------------------------------------------------------------
(* Sequences.                                                              *)

Distinct(s) == \A i, j \in DOMAIN s : s[i] = s[j] => i = j

LEMMA AppendSet ==
  ASSUME NEW X, NEW s \in Seq(X), NEW x
  PROVE  /\ ToSet(Append(s, x)) = ToSet(s) \cup {x}
         /\ Distinct(s) /\ x \notin ToSet(s) => Distinct(Append(s, x))
<1>1. /\ DOMAIN Append(s, x) = 1 .. Len(s) + 1 /\ DOMAIN s = 1 .. Len(s)
      /\ Len(s) \in Nat
      /\ \A i \in 1 .. Len(s) : Append(s, x)[i] = s[i]
      /\ Append(s, x)[Len(s) + 1] = x
  OBVIOUS
<1>2. ToSet(Append(s, x)) = ToSet(s) \cup {x}
  BY <1>1 DEF ToSet
<1>3. ASSUME Distinct(s), x \notin ToSet(s),
             NEW i \in DOMAIN Append(s, x), NEW j \in DOMAIN Append(s, x),
             Append(s, x)[i] = Append(s, x)[j]
      PROVE  i = j
  BY <1>1, <1>3 DEF ToSet, Distinct
<1>. QED BY <1>2, <1>3 DEF Distinct

LEMMA TailSet ==
  ASSUME NEW X, NEW s \in Seq(X), s # <<>>, Distinct(s)
  PROVE  /\ Head(s) \in X /\ Tail(s) \in Seq(X)
         /\ ToSet(s) = ToSet(Tail(s)) \cup {Head(s)}
         /\ Head(s) \notin ToSet(Tail(s)) /\ Distinct(Tail(s))
<1>1. /\ DOMAIN s = 1 .. Len(s) /\ Len(s) \in Nat \ {0} /\ Head(s) = s[1]
      /\ Tail(s) \in Seq(X) /\ DOMAIN Tail(s) = 1 .. Len(s) - 1
      /\ \A i \in 1 .. Len(s) - 1 : Tail(s)[i] = s[i + 1]
  OBVIOUS
<1>2. ToSet(s) = ToSet(Tail(s)) \cup {Head(s)}
  <2>1. ASSUME NEW i \in DOMAIN s PROVE s[i] \in ToSet(Tail(s)) \cup {Head(s)}
    <3>1. CASE i = 1
      BY <1>1, <3>1
    <3>2. CASE i # 1
      <4>1. i - 1 \in DOMAIN Tail(s) /\ Tail(s)[i - 1] = s[i]
        BY <1>1, <3>2
      <4>. QED BY <4>1 DEF ToSet
    <3>. QED BY <3>1, <3>2
  <2>2. ASSUME NEW i \in DOMAIN Tail(s) PROVE Tail(s)[i] \in ToSet(s)
    <3>1. i + 1 \in DOMAIN s /\ Tail(s)[i] = s[i + 1]
      BY <1>1
    <3>. QED BY <3>1 DEF ToSet
  <2>3. Head(s) \in ToSet(s)
    BY <1>1 DEF ToSet
  <2>. QED BY <2>1, <2>2, <2>3 DEF ToSet
<1>3. Head(s) \notin ToSet(Tail(s))
  BY <1>1 DEF Distinct, ToSet
<1>4. Distinct(Tail(s))
  BY <1>1 DEF Distinct
<1>5. Head(s) \in X
  BY <1>1
<1>. QED BY <1>1, <1>2, <1>3, <1>4, <1>5

LEMMA ConcatSet ==
  ASSUME NEW X, NEW s \in Seq(X), NEW t \in Seq(X)
  PROVE  /\ ToSet(s \o t) = ToSet(s) \cup ToSet(t)
         /\ Distinct(s) /\ Distinct(t) /\ ToSet(s) \cap ToSet(t) = {}
              => Distinct(s \o t)
<1>1. /\ DOMAIN (s \o t) = 1 .. Len(s) + Len(t) /\ DOMAIN s = 1 .. Len(s)
      /\ DOMAIN t = 1 .. Len(t) /\ Len(s) \in Nat /\ Len(t) \in Nat
      /\ \A i \in 1 .. Len(s) : (s \o t)[i] = s[i]
      /\ \A i \in Len(s) + 1 .. Len(s) + Len(t) : (s \o t)[i] = t[i - Len(s)]
  OBVIOUS
<1>. DEFINE c == s \o t
<1>. HIDE DEF c
<1>2. /\ DOMAIN c = 1 .. Len(s) + Len(t)
      /\ \A i \in 1 .. Len(s) : c[i] = s[i]
      /\ \A i \in Len(s) + 1 .. Len(s) + Len(t) : c[i] = t[i - Len(s)]
  BY <1>1 DEF c
<1>3. ToSet(c) = ToSet(s) \cup ToSet(t)
  <2>1. ASSUME NEW i \in DOMAIN c PROVE c[i] \in ToSet(s) \cup ToSet(t)
    <3>1. CASE i \in 1 .. Len(s)
      BY <1>1, <1>2, <3>1 DEF ToSet
    <3>2. CASE i \notin 1 .. Len(s)
      <4>1. i - Len(s) \in DOMAIN t /\ c[i] = t[i - Len(s)]
        BY <1>1, <1>2, <3>2
      <4>. QED BY <4>1 DEF ToSet
    <3>. QED BY <3>1, <3>2
  <2>2. ASSUME NEW i \in DOMAIN s PROVE s[i] \in ToSet(c)
    <3>1. i \in DOMAIN c /\ c[i] = s[i]
      BY <1>1, <1>2
    <3>. QED BY <3>1 DEF ToSet
  <2>3. ASSUME NEW i \in DOMAIN t PROVE t[i] \in ToSet(c)
    <3>1. i + Len(s) \in DOMAIN c /\ c[i + Len(s)] = t[i]
      BY <1>1, <1>2
    <3>. QED BY <3>1 DEF ToSet
  <2>. QED BY <2>1, <2>2, <2>3 DEF ToSet
<1>4. ASSUME Distinct(s), Distinct(t), ToSet(s) \cap ToSet(t) = {},
             NEW i \in DOMAIN c, NEW j \in DOMAIN c, c[i] = c[j]
      PROVE  i = j
  <2>1. CASE i \in 1 .. Len(s) /\ j \in 1 .. Len(s)
    BY <1>1, <1>2, <1>4, <2>1 DEF Distinct
  <2>2. CASE i \notin 1 .. Len(s) /\ j \notin 1 .. Len(s)
    <3>1. /\ i - Len(s) \in DOMAIN t /\ c[i] = t[i - Len(s)]
          /\ j - Len(s) \in DOMAIN t /\ c[j] = t[j - Len(s)]
      BY <1>1, <1>2, <2>2
    <3>2. i - Len(s) = j - Len(s)
      BY <1>4, <3>1 DEF Distinct
    <3>. QED BY <1>1, <1>2, <3>2
  <2>3. CASE i \in 1 .. Len(s) /\ j \notin 1 .. Len(s)
    <3>1. c[i] \in ToSet(s)
      BY <1>1, <1>2, <2>3 DEF ToSet
    <3>2. j - Len(s) \in DOMAIN t /\ c[j] = t[j - Len(s)]
      BY <1>1, <1>2, <2>3
    <3>. QED BY <1>4, <3>1, <3>2 DEF ToSet
  <2>4. CASE i \notin 1 .. Len(s) /\ j \in 1 .. Len(s)
    <3>1. c[j] \in ToSet(s)
      BY <1>1, <1>2, <2>4 DEF ToSet
    <3>2. i - Len(s) \in DOMAIN t /\ c[i] = t[i - Len(s)]
      BY <1>1, <1>2, <2>4
    <3>. QED BY <1>4, <3>1, <3>2 DEF ToSet
  <2>. QED BY <2>1, <2>2, <2>3, <2>4
<1>. QED BY <1>3, <1>4 DEF Distinct, c

-----------------------------------------------------------------------------
(* Among: what a list has of a set.                                        *)

Some(g, list, S) ==
  g = [i \in 0 .. Len(list) |->
         IF i = 0 THEN <<>>
         ELSE IF list[i] \in S THEN Append(g[i - 1], list[i])
         ELSE g[i - 1]]

LEMMA AmongEquation ==
  ASSUME NEW X, NEW list \in Seq(X), NEW S
  PROVE  \E g \in [0 .. Len(list) -> Seq(X)] :
           Some(g, list, S) /\ Among(list, S) = g[Len(list)]
<1>. DEFINE n == Len(list)
            step == [k \in 1 .. n |-> [t \in Seq(X) |->
                       IF list[k] \in S THEN Append(t, list[k]) ELSE t]]
<1>1. n \in Nat /\ <<>> \in Seq(X) /\ \A k \in 1 .. n : list[k] \in X
  OBVIOUS
<1>2. step \in [1 .. n -> [Seq(X) -> Seq(X)]]
  BY <1>1
<1>3. \A k \in 1 .. n : \A t \in Seq(X) :
        step[k][t] = IF list[k] \in S THEN Append(t, list[k]) ELSE t
  OBVIOUS
<1>. HIDE DEF step, n
<1>4. PICK g : Steps(g, n, Seq(X), <<>>, step)
  BY <1>1, <1>2, Recursion
<1>5. g = [i \in 0 .. n |-> IF i = 0 THEN <<>>
                            ELSE IF list[i] \in S THEN Append(g[i - 1], list[i])
                            ELSE g[i - 1]]
  <2>1. g = [i \in 0 .. n |-> g[i]]
    BY <1>4 DEF Steps
  <2>2. ASSUME NEW i \in 0 .. n
        PROVE  g[i] = IF i = 0 THEN <<>>
                      ELSE IF list[i] \in S THEN Append(g[i - 1], list[i])
                      ELSE g[i - 1]
    <3>1. CASE i = 0
      BY <1>4, <3>1 DEF Steps
    <3>2. CASE i # 0
      <4>1. i \in 1 .. n /\ i - 1 \in 0 .. n
        BY <1>1, <3>2
      <4>2. g[i - 1] \in Seq(X) /\ g[i] = step[i][g[i - 1]]
        BY <1>4, <3>2, <4>1 DEF Steps
      <4>. QED BY <1>3, <3>2, <4>1, <4>2
    <3>. QED BY <3>1, <3>2
  <2>. HIDE DEF n
  <2>. QED BY <2>1, <2>2
<1>6. Some(g, list, S)
  BY <1>5 DEF Some, n
<1>. DEFINE c == CHOOSE f : Some(f, list, S)
<1>7. Some(c, list, S)
  BY <1>6
<1>8. Among(list, S) = c[Len(list)]
  BY DEF Among, Some
<1>9. c \in [0 .. n -> Seq(X)]
  <2>. DEFINE T == {m \in Nat : m <= n => c[m] \in Seq(X)}
  <2>. HIDE DEF c
  <2>0. \A i \in 0 .. n : c[i] = IF i = 0 THEN <<>>
                      ELSE IF list[i] \in S THEN Append(c[i - 1], list[i])
                      ELSE c[i - 1]
    BY <1>7 DEF Some, n
  <2>1. 0 \in T
    <3>1. 0 \in 0 .. n /\ c[0] = <<>>
      BY <1>1, <2>0
    <3>. QED BY <1>1, <3>1
  <2>2. ASSUME NEW m \in Nat, m \in T PROVE m + 1 \in T
    <3>. SUFFICES ASSUME m + 1 <= n PROVE c[m + 1] \in Seq(X)
      OBVIOUS
    <3>1. m + 1 \in 0 .. n /\ (m + 1) - 1 = m /\ m + 1 # 0 /\ m <= n
          /\ m + 1 \in 1 .. n
      BY <1>1
    <3>2. c[m + 1] = IF list[m + 1] \in S THEN Append(c[m], list[m + 1]) ELSE c[m]
      BY <2>0, <3>1
    <3>3. c[m] \in Seq(X) /\ list[m + 1] \in X
      BY <1>1, <2>2, <3>1
    <3>. QED BY <3>2, <3>3
  <2>. HIDE DEF T
  <2>3. \A m \in 0 .. n : c[m] \in Seq(X)
    <3>1. \A m \in 0 .. n : m \in T
      BY <2>1, <2>2, NatSetInduction
    <3>. QED BY <1>1, <3>1 DEF T
  <2>4. c = [i \in 0 .. n |-> c[i]]
    BY <1>7 DEF Some, n
  <2>. QED BY <2>3, <2>4
<1>. QED BY <1>7, <1>8, <1>9 DEF n

LEMMA AmongSet ==
  ASSUME NEW X, NEW list \in Seq(X), NEW S
  PROVE  /\ Among(list, S) \in Seq(X)
         /\ ToSet(Among(list, S)) = ToSet(list) \cap S
         /\ Distinct(list) => Distinct(Among(list, S))
<1>. DEFINE n == Len(list)
<1>1. PICK g \in [0 .. n -> Seq(X)] :
        Some(g, list, S) /\ Among(list, S) = g[n]
  BY AmongEquation
<1>2. \A i \in 0 .. n : g[i] = IF i = 0 THEN <<>>
                    ELSE IF list[i] \in S THEN Append(g[i - 1], list[i])
                    ELSE g[i - 1]
  BY <1>1 DEF Some
<1>3. n \in Nat /\ DOMAIN list = 1 .. n
  OBVIOUS
<1>. DEFINE Upto(m) == {list[j] : j \in 1 .. m} \cap S
            T == {m \in Nat : m <= n => /\ ToSet(g[m]) = Upto(m)
                                        /\ Distinct(list) => Distinct(g[m])}
<1>. HIDE DEF n
<1>4. 0 \in T
  <2>1. g[0] = <<>>
    BY <1>2, <1>3
  <2>2. Upto(0) = {}
    OBVIOUS
  <2>3. ToSet(<<>>) = {} /\ Distinct(<<>>)
    BY DEF ToSet, Distinct
  <2>. QED BY <2>1, <2>2, <2>3
<1>5. ASSUME NEW m \in Nat, m \in T PROVE m + 1 \in T
  <2>. SUFFICES ASSUME m + 1 <= n
                PROVE  /\ ToSet(g[m + 1]) = Upto(m + 1)
                       /\ Distinct(list) => Distinct(g[m + 1])
    OBVIOUS
  <2>1. m + 1 \in 0 .. n /\ (m + 1) - 1 = m /\ m + 1 # 0 /\ m <= n
        /\ m \in 0 .. n /\ m + 1 \in DOMAIN list
    BY <1>3
  <2>2. g[m + 1] = IF list[m + 1] \in S THEN Append(g[m], list[m + 1]) ELSE g[m]
    BY <1>2, <2>1
  <2>3. g[m] \in Seq(X)
    BY <1>1, <2>1
  <2>4. ToSet(g[m]) = Upto(m) /\ (Distinct(list) => Distinct(g[m]))
    BY <1>5, <2>1
  <2>5. 1 .. m + 1 = (1 .. m) \cup {m + 1}
    OBVIOUS
  <2>6. CASE list[m + 1] \in S
    <3>1. Upto(m + 1) = Upto(m) \cup {list[m + 1]}
      BY <2>5, <2>6
    <3>2. ToSet(g[m + 1]) = ToSet(g[m]) \cup {list[m + 1]}
      BY <2>2, <2>3, <2>6, AppendSet
    <3>3. ASSUME Distinct(list) PROVE Distinct(g[m + 1])
      <4>1. \A j \in 1 .. m : list[j] # list[m + 1]
        <5>1. \A j \in 1 .. m : j \in DOMAIN list /\ j # m + 1
          BY <1>3, <2>1
        <5>. QED BY <2>1, <3>3, <5>1 DEF Distinct
      <4>2. list[m + 1] \notin Upto(m)
        BY <4>1
      <4>3. list[m + 1] \notin ToSet(g[m])
        BY <2>4, <4>2
      <4>. QED BY <2>2, <2>3, <2>4, <2>6, <3>3, <4>3, AppendSet
    <3>. HIDE DEF Upto
    <3>. QED BY <2>4, <3>1, <3>2, <3>3
  <2>7. CASE list[m + 1] \notin S
    <3>1. Upto(m + 1) = Upto(m)
      BY <2>5, <2>7
    <3>. HIDE DEF Upto
    <3>. QED BY <2>2, <2>4, <2>7, <3>1
  <2>. QED BY <2>6, <2>7
<1>. HIDE DEF T
<1>6. n \in T
  BY <1>3, <1>4, <1>5, NatSetInduction
<1>7. ToSet(g[n]) = Upto(n) /\ (Distinct(list) => Distinct(g[n]))
  BY <1>3, <1>6 DEF T
<1>8. ToSet(list) = {list[j] : j \in 1 .. n}
  BY <1>3 DEF ToSet
<1>. QED BY <1>1, <1>3, <1>7, <1>8

-----------------------------------------------------------------------------
(* One visit of Kahn's queue.                                              *)

KahnState(flow) ==
  [queue : Seq(Ids(flow)), order : Seq(Ids(flow)), degree : [Ids(flow) -> Int]]

LEMMA GraphTyped ==
  ASSUME NEW flow \in Flows
  PROVE  /\ NodeList(flow) \in Seq(Ids(flow)) /\ NodeIds(flow) \subseteq Ids(flow)
         /\ EdgeList(flow) \in Seq(Edges(flow)) /\ Len(EdgeList(flow)) \in Nat
         /\ DOMAIN EdgeList(flow) = 1 .. Len(EdgeList(flow))
         /\ \A i \in 1 .. Len(EdgeList(flow)) :
              EdgeList(flow)[i] \in Edges(flow) /\ EdgeList(flow)[i][2] \in Ids(flow)
         /\ \A e \in Edges(flow) : e[2] \in Ids(flow)
         /\ IsFiniteSet(Ids(flow)) /\ Cardinality(Ids(flow)) \in Nat
<1>1. /\ NodeList(flow) \in Seq(NodeIds(flow))
      /\ EdgeList(flow) \in Seq(Edges(flow))
  BY DefinitionsAssumption
<1>2. NodeIds(flow) \subseteq Ids(flow) /\ \A e \in Edges(flow) : e[2] \in Ids(flow)
  BY DEF Ids
<1>3. NodeList(flow) \in Seq(Ids(flow))
  BY <1>1, <1>2
<1>. DEFINE n == Len(NodeList(flow))
            m == Len(EdgeList(flow))
            f == [i \in 1 .. n + m |-> IF i <= n THEN NodeList(flow)[i]
                                       ELSE EdgeList(flow)[i - n][2]]
<1>4. n \in Nat /\ m \in Nat /\ DOMAIN NodeList(flow) = 1 .. n
      /\ DOMAIN EdgeList(flow) = 1 .. m
  BY <1>1
<1>5. IsFiniteSet(Ids(flow))
  <2>1. IsFiniteSet(1 .. n + m)
    BY <1>4, FS_Interval
  <2>2. \A x \in Ids(flow) : \E i \in 1 .. n + m : f[i] = x
    <3>. SUFFICES ASSUME NEW x \in Ids(flow) PROVE \E i \in 1 .. n + m : f[i] = x
      OBVIOUS
    <3>1. CASE x \in NodeIds(flow)
      <4>1. PICK i \in 1 .. n : NodeList(flow)[i] = x
        BY <1>4, <3>1 DEF NodeIds, ToSet
      <4>2. i \in 1 .. n + m /\ i <= n
        BY <1>4
      <4>. QED BY <4>1, <4>2
    <3>2. CASE x \notin NodeIds(flow)
      <4>1. PICK e \in Edges(flow) : x = e[2]
        BY <3>2 DEF Ids
      <4>2. PICK i \in 1 .. m : EdgeList(flow)[i] = e
        BY <1>4 DEF Edges, ToSet
      <4>3. i + n \in 1 .. n + m /\ ~(i + n <= n) /\ (i + n) - n = i
        BY <1>4
      <4>4. f[i + n] = x
        BY <4>1, <4>2, <4>3
      <4>. QED BY <4>3, <4>4
    <3>. QED BY <3>1, <3>2
  <2>3. \A i \in 1 .. n + m : f[i] \in Ids(flow)
    <3>. SUFFICES ASSUME NEW i \in 1 .. n + m PROVE f[i] \in Ids(flow)
      OBVIOUS
    <3>1. CASE i <= n
      <4>1. i \in 1 .. n
        BY <1>4, <3>1
      <4>2. NodeList(flow)[i] \in Ids(flow)
        BY <1>3, <1>4, <4>1
      <4>. QED BY <3>1, <4>2
    <3>2. CASE ~(i <= n)
      <4>1. i - n \in 1 .. m
        BY <1>4, <3>2
      <4>2. EdgeList(flow)[i - n] \in Edges(flow)
        BY <1>1, <1>4, <4>1
      <4>. QED BY <1>2, <3>2, <4>2
    <3>. QED BY <3>1, <3>2
  <2>. HIDE DEF f
  <2>4. f \in [1 .. n + m -> Ids(flow)]
    BY <2>3 DEF f
  <2>5. f \in Surjection(1 .. n + m, Ids(flow))
    BY <2>2, <2>4 DEF Surjection
  <2>. QED BY <2>1, <2>5, FS_Surjection
<1>6. \A i \in 1 .. m : EdgeList(flow)[i] \in Edges(flow)
  BY <1>1, <1>4
<1>. QED BY <1>1, <1>2, <1>3, <1>4, <1>5, <1>6, FS_CardinalityType

LEMMA RelaxTyped ==
  ASSUME NEW flow \in Flows, NEW t \in KahnState(flow), NEW next \in Ids(flow)
  PROVE  /\ Relax(t, next) \in KahnState(flow)
         /\ Relax(t, next).order = t.order
         /\ Relax(t, next).queue = IF t.degree[next] = 1
                                   THEN Append(t.queue, next) ELSE t.queue
         /\ Relax(t, next).degree = [t.degree EXCEPT ![next] = @ - 1]
<1>1. t.degree \in [Ids(flow) -> Int] /\ t.queue \in Seq(Ids(flow))
  BY DEF KahnState
<1>2. [t.degree EXCEPT ![next] = @ - 1] \in [Ids(flow) -> Int]
  BY <1>1
<1>3. Append(t.queue, next) \in Seq(Ids(flow))
  BY <1>1
<1>. QED BY <1>1, <1>2, <1>3 DEF Relax, KahnState

Visiting(flow, s) ==
  [s EXCEPT !.queue = Tail(@), !.order = Append(@, Head(s.queue))]

Relaxed(g, flow, s) ==
  g = [i \in 0 .. Len(EdgeList(flow)) |->
         IF i = 0 THEN Visiting(flow, s)
         ELSE IF EdgeList(flow)[i][1] = Head(s.queue)
         THEN Relax(g[i - 1], EdgeList(flow)[i][2])
         ELSE g[i - 1]]

LEMMA VisitingTyped ==
  ASSUME NEW flow \in Flows, NEW s \in KahnState(flow), s.queue # <<>>
  PROVE  /\ Visiting(flow, s) \in KahnState(flow)
         /\ Visiting(flow, s).queue = Tail(s.queue)
         /\ Visiting(flow, s).order = Append(s.order, Head(s.queue))
         /\ Visiting(flow, s).degree = s.degree
         /\ Head(s.queue) \in Ids(flow)
<1>1. s.queue \in Seq(Ids(flow)) /\ s.order \in Seq(Ids(flow))
  BY DEF KahnState
<1>2. Tail(s.queue) \in Seq(Ids(flow)) /\ Head(s.queue) \in Ids(flow)
  BY <1>1
<1>3. Append(s.order, Head(s.queue)) \in Seq(Ids(flow))
  BY <1>1, <1>2
<1>. QED BY <1>2, <1>3 DEF Visiting, KahnState

LEMMA VisitEquation ==
  ASSUME NEW flow \in Flows, NEW s \in KahnState(flow), s.queue # <<>>
  PROVE  \E g \in [0 .. Len(EdgeList(flow)) -> KahnState(flow)] :
           /\ Visit(flow, s) = g[Len(EdgeList(flow))]
           /\ g[0] = Visiting(flow, s)
           /\ \A i \in 1 .. Len(EdgeList(flow)) :
                g[i] = IF EdgeList(flow)[i][1] = Head(s.queue)
                       THEN Relax(g[i - 1], EdgeList(flow)[i][2])
                       ELSE g[i - 1]
<1>. DEFINE n == Len(EdgeList(flow))
            S == KahnState(flow)
            base == Visiting(flow, s)
            step == [k \in 1 .. n |-> [t \in S |->
                       IF EdgeList(flow)[k][1] = Head(s.queue)
                       THEN Relax(t, EdgeList(flow)[k][2]) ELSE t]]
<1>1. n \in Nat /\ base \in S
      /\ \A k \in 1 .. n : EdgeList(flow)[k][2] \in Ids(flow)
  BY GraphTyped, VisitingTyped
<1>2. step \in [1 .. n -> [S -> S]]
  <2>1. \A k \in 1 .. n : \A t \in S : Relax(t, EdgeList(flow)[k][2]) \in S
    BY <1>1, RelaxTyped
  <2>. QED BY <2>1
<1>3. \A k \in 1 .. n : \A t \in S :
        step[k][t] = IF EdgeList(flow)[k][1] = Head(s.queue)
                     THEN Relax(t, EdgeList(flow)[k][2]) ELSE t
  OBVIOUS
<1>. HIDE DEF step, n, S, base
<1>4. PICK g : Steps(g, n, S, base, step)
  BY <1>1, <1>2, Recursion
<1>5. g = [i \in 0 .. n |-> IF i = 0 THEN base
                            ELSE IF EdgeList(flow)[i][1] = Head(s.queue)
                            THEN Relax(g[i - 1], EdgeList(flow)[i][2])
                            ELSE g[i - 1]]
  <2>1. g = [i \in 0 .. n |-> g[i]]
    BY <1>4 DEF Steps
  <2>2. ASSUME NEW i \in 0 .. n
        PROVE  g[i] = IF i = 0 THEN base
                      ELSE IF EdgeList(flow)[i][1] = Head(s.queue)
                      THEN Relax(g[i - 1], EdgeList(flow)[i][2])
                      ELSE g[i - 1]
    <3>1. CASE i = 0
      BY <1>4, <3>1 DEF Steps
    <3>2. CASE i # 0
      <4>1. i \in 1 .. n /\ i - 1 \in 0 .. n
        BY <1>1, <3>2
      <4>2. g[i - 1] \in S /\ g[i] = step[i][g[i - 1]]
        BY <1>4, <3>2, <4>1 DEF Steps
      <4>. QED BY <1>3, <3>2, <4>1, <4>2
    <3>. QED BY <3>1, <3>2
  <2>. QED BY <2>1, <2>2
<1>6. Relaxed(g, flow, s)
  BY <1>5 DEF Relaxed, n, base
<1>. DEFINE c == CHOOSE f : Relaxed(f, flow, s)
<1>7. Relaxed(c, flow, s)
  BY <1>6
<1>8. Visit(flow, s) = c[n]
  BY DEF Visit, Relaxed, Visiting, n
<1>. HIDE DEF c
<1>9. /\ c[0] = base
      /\ \A i \in 1 .. n : c[i] = IF EdgeList(flow)[i][1] = Head(s.queue)
                                  THEN Relax(c[i - 1], EdgeList(flow)[i][2])
                                  ELSE c[i - 1]
      /\ c = [i \in 0 .. n |-> c[i]]
  <2>1. 0 \in 0 .. n /\ \A i \in 1 .. n : i \in 0 .. n /\ i # 0
    BY <1>1
  <2>. QED BY <1>7, <2>1 DEF Relaxed, n, base
<1>. DEFINE T == {m \in Nat : m <= n => c[m] \in S}
<1>10. 0 \in T
  BY <1>1, <1>9
<1>11. ASSUME NEW m \in Nat, m \in T PROVE m + 1 \in T
  <2>. SUFFICES ASSUME m + 1 <= n PROVE c[m + 1] \in S
    OBVIOUS
  <2>1. m + 1 \in 1 .. n /\ (m + 1) - 1 = m /\ c[m] \in S
    BY <1>1, <1>11
  <2>2. c[m + 1] = IF EdgeList(flow)[m + 1][1] = Head(s.queue)
                   THEN Relax(c[m], EdgeList(flow)[m + 1][2]) ELSE c[m]
    BY <1>9, <2>1
  <2>3. Relax(c[m], EdgeList(flow)[m + 1][2]) \in S
    BY <1>1, <2>1, RelaxTyped DEF S
  <2>. QED BY <2>1, <2>2, <2>3
<1>. HIDE DEF T
<1>12. \A m \in 0 .. n : c[m] \in S
  <2>1. \A m \in 0 .. n : m \in T
    BY <1>1, <1>10, <1>11, NatSetInduction
  <2>. QED BY <1>1, <2>1 DEF T
<1>13. c \in [0 .. n -> S]
  BY <1>9, <1>12
<1>. QED BY <1>8, <1>9, <1>13 DEF n, S, base

\* The edges into n that are still to be counted off: those from nodes that are
\* not in V, but for the first i edges where they come from curr.
Waits(flow, n, V, curr, i) ==
  {j \in DOMAIN EdgeList(flow) :
     /\ EdgeList(flow)[j][2] = n /\ EdgeList(flow)[j][1] \notin V
     /\ ~(EdgeList(flow)[j][1] = curr /\ j <= i)}

WaitCount(flow, n, V, curr, i) == Cardinality(Waits(flow, n, V, curr, i))

LEMMA WaitsFinite ==
  ASSUME NEW flow \in Flows, NEW n, NEW V, NEW curr, NEW i
  PROVE  /\ IsFiniteSet(Waits(flow, n, V, curr, i))
         /\ WaitCount(flow, n, V, curr, i) \in Nat
<1>1. IsFiniteSet(DOMAIN EdgeList(flow))
  BY GraphTyped, FS_Interval
<1>2. IsFiniteSet(Waits(flow, n, V, curr, i))
  BY <1>1, FS_Subset DEF Waits
<1>. QED BY <1>2, FS_CardinalityType DEF WaitCount

\* Edges into a node that are left to be counted off, and where it is listed.
Counted(flow, t, V, curr, i) ==
  /\ Distinct(t.queue) /\ Distinct(t.order)
  /\ ToSet(t.order) \cap ToSet(t.queue) = {}
  /\ \A n \in Ids(flow) : t.degree[n] = WaitCount(flow, n, V, curr, i)
  /\ \A n \in Ids(flow) : t.degree[n] = 0 <=> n \in ToSet(t.order) \cup ToSet(t.queue)

LEMMA RelaxCounted ==
  ASSUME NEW flow \in Flows, NEW t \in KahnState(flow), NEW V, NEW curr,
         NEW i \in 1 .. Len(EdgeList(flow)), curr \notin V,
         EdgeList(flow)[i][1] = curr, Counted(flow, t, V, curr, i - 1)
  PROVE  Counted(flow, Relax(t, EdgeList(flow)[i][2]), V, curr, i)
<1>. DEFINE next == EdgeList(flow)[i][2]
            r == Relax(t, next)
<1>1. next \in Ids(flow) /\ i \in DOMAIN EdgeList(flow)
      /\ DOMAIN EdgeList(flow) \subseteq Nat /\ i \in Nat
  BY GraphTyped
<1>2. /\ r \in KahnState(flow) /\ r.order = t.order
      /\ r.queue = IF t.degree[next] = 1 THEN Append(t.queue, next) ELSE t.queue
      /\ r.degree = [t.degree EXCEPT ![next] = @ - 1]
  BY <1>1, RelaxTyped
<1>3. /\ t.degree \in [Ids(flow) -> Int] /\ t.queue \in Seq(Ids(flow))
  BY DEF KahnState
<1>4. \A n \in Ids(flow) : r.degree[n] = IF n = next THEN t.degree[n] - 1
                                         ELSE t.degree[n]
  BY <1>1, <1>2, <1>3
<1>. HIDE DEF r
<1>5. Waits(flow, next, V, curr, i) = Waits(flow, next, V, curr, i - 1) \ {i}
      /\ i \in Waits(flow, next, V, curr, i - 1)
  <2>1. \A j \in DOMAIN EdgeList(flow) : j <= i <=> (j <= i - 1 \/ j = i)
    BY <1>1
  <2>. QED BY <1>1, <2>1 DEF Waits
<1>6. WaitCount(flow, next, V, curr, i) = t.degree[next] - 1
      /\ t.degree[next] >= 1
  <2>1. IsFiniteSet(Waits(flow, next, V, curr, i - 1))
        /\ WaitCount(flow, next, V, curr, i) \in Nat
    BY WaitsFinite
  <2>2. Cardinality(Waits(flow, next, V, curr, i - 1) \ {i})
          = Cardinality(Waits(flow, next, V, curr, i - 1)) - 1
    BY <1>5, <2>1, FS_RemoveElement
  <2>3. WaitCount(flow, next, V, curr, i) = WaitCount(flow, next, V, curr, i - 1) - 1
    BY <1>5, <2>2 DEF WaitCount
  <2>4. t.degree[next] = WaitCount(flow, next, V, curr, i - 1)
    BY <1>1 DEF Counted
  <2>5. WaitCount(flow, next, V, curr, i - 1) \in Nat
    BY WaitsFinite
  <2>. QED BY <2>1, <2>3, <2>4, <2>5
<1>7. \A n \in Ids(flow) \ {next} :
        WaitCount(flow, n, V, curr, i) = WaitCount(flow, n, V, curr, i - 1)
  <2>. SUFFICES ASSUME NEW n \in Ids(flow) \ {next}
                PROVE  Waits(flow, n, V, curr, i) = Waits(flow, n, V, curr, i - 1)
    BY DEF WaitCount
  <2>1. \A j \in DOMAIN EdgeList(flow) : j <= i <=> (j <= i - 1 \/ j = i)
    BY <1>1
  <2>. QED BY <2>1 DEF Waits
<1>8. \A n \in Ids(flow) : r.degree[n] = WaitCount(flow, n, V, curr, i)
  BY <1>4, <1>6, <1>7 DEF Counted
<1>9. next \notin ToSet(t.order) \cup ToSet(t.queue)
  BY <1>1, <1>6 DEF Counted
<1>10. CASE t.degree[next] = 1
  <2>1. r.queue = Append(t.queue, next)
    BY <1>2, <1>10
  <2>2. ToSet(r.queue) = ToSet(t.queue) \cup {next} /\ Distinct(r.queue)
    BY <1>3, <1>9, <2>1, AppendSet DEF Counted
  <2>3. \A n \in Ids(flow) :
          r.degree[n] = 0 <=> n \in ToSet(r.order) \cup ToSet(r.queue)
    BY <1>2, <1>4, <1>10, <2>2 DEF Counted
  <2>4. ToSet(r.order) \cap ToSet(r.queue) = {}
    BY <1>2, <1>9, <2>2 DEF Counted
  <2>. QED BY <1>2, <1>8, <2>2, <2>3, <2>4 DEF Counted, r
<1>11. CASE t.degree[next] # 1
  <2>1. r.queue = t.queue /\ r.order = t.order
    BY <1>2, <1>11
  <2>2. t.degree[next] \in Int /\ t.degree[next] # 0 /\ t.degree[next] - 1 # 0
    BY <1>1, <1>3, <1>6, <1>11
  <2>3. \A n \in Ids(flow) :
          r.degree[n] = 0 <=> n \in ToSet(r.order) \cup ToSet(r.queue)
    BY <1>4, <2>1, <2>2 DEF Counted
  <2>. QED BY <1>8, <2>1, <2>3 DEF Counted, r
<1>. QED BY <1>10, <1>11

\* Every edge into a node of the order comes from an earlier one.
Sorted(flow, order) ==
  \A e \in Edges(flow) : \A k \in DOMAIN order :
    order[k] = e[2] => \E j \in 1 .. k - 1 : order[j] = e[1]

\* No edge is counted off before its source is visited.
KahnOK(flow, s) ==
  /\ s \in KahnState(flow)
  /\ Distinct(s.queue) /\ Distinct(s.order)
  /\ ToSet(s.order) \cap ToSet(s.queue) = {}
  /\ \A n \in Ids(flow) : s.degree[n] = WaitCount(flow, n, ToSet(s.order), NoNode, 0)
  /\ \A n \in Ids(flow) : s.degree[n] = 0 <=> n \in ToSet(s.order) \cup ToSet(s.queue)
  /\ Sorted(flow, s.order)

LEMMA WaitsNone ==
  ASSUME NEW flow \in Flows, NEW n, NEW V, NEW curr
  PROVE  Waits(flow, n, V, curr, 0)
           = {j \in DOMAIN EdgeList(flow) : /\ EdgeList(flow)[j][2] = n
                                            /\ EdgeList(flow)[j][1] \notin V}
<1>1. \A j \in DOMAIN EdgeList(flow) : ~(j <= 0)
  BY GraphTyped
<1>. QED BY <1>1 DEF Waits

LEMMA WaitsAll ==
  ASSUME NEW flow \in Flows, NEW n, NEW V, NEW curr
  PROVE  Waits(flow, n, V, curr, Len(EdgeList(flow)))
           = {j \in DOMAIN EdgeList(flow) : /\ EdgeList(flow)[j][2] = n
                                            /\ EdgeList(flow)[j][1] \notin V \cup {curr}}
<1>1. \A j \in DOMAIN EdgeList(flow) : j <= Len(EdgeList(flow))
  BY GraphTyped
<1>. QED BY <1>1 DEF Waits

LEMMA VisitOK ==
  ASSUME NEW flow \in Flows, NEW s, KahnOK(flow, s), s.queue # <<>>
  PROVE  /\ KahnOK(flow, Visit(flow, s))
         /\ Visit(flow, s).order = Append(s.order, Head(s.queue))
         /\ Head(s.queue) \notin ToSet(s.order)
<1>. DEFINE curr == Head(s.queue)
            V == ToSet(s.order)
            n == Len(EdgeList(flow))
            S == KahnState(flow)
            v == Visiting(flow, s)
<1>0. n \in Nat /\ s \in S
  BY GraphTyped DEF KahnOK
<1>1. PICK g \in [0 .. n -> S] :
        /\ Visit(flow, s) = g[n] /\ g[0] = v
        /\ \A i \in 1 .. n : g[i] = IF EdgeList(flow)[i][1] = curr
                                    THEN Relax(g[i - 1], EdgeList(flow)[i][2])
                                    ELSE g[i - 1]
  BY <1>0, VisitEquation
<1>2. /\ s.queue \in Seq(Ids(flow)) /\ s.order \in Seq(Ids(flow))
      /\ v \in S /\ v.queue = Tail(s.queue) /\ v.order = Append(s.order, curr)
      /\ v.degree = s.degree /\ curr \in Ids(flow)
  BY <1>0, VisitingTyped DEF KahnState
<1>3. /\ ToSet(s.queue) = ToSet(v.queue) \cup {curr}
      /\ curr \notin ToSet(v.queue) /\ Distinct(v.queue)
  BY <1>2, TailSet DEF KahnOK
<1>4. curr \notin V
  BY <1>3 DEF KahnOK
<1>5. ToSet(v.order) = V \cup {curr} /\ Distinct(v.order)
  BY <1>2, <1>4, AppendSet DEF KahnOK
<1>. HIDE DEF v, n, S
<1>6. Counted(flow, v, V, curr, 0)
  <2>1. \A m \in Ids(flow) : WaitCount(flow, m, V, curr, 0)
                               = WaitCount(flow, m, V, NoNode, 0)
    BY WaitsNone DEF WaitCount
  <2>2. \A m \in Ids(flow) : v.degree[m] = WaitCount(flow, m, V, curr, 0)
    BY <1>2, <2>1 DEF KahnOK
  <2>3. ToSet(v.order) \cap ToSet(v.queue) = {}
    BY <1>3, <1>5 DEF KahnOK
  <2>4. \A m \in Ids(flow) :
          v.degree[m] = 0 <=> m \in ToSet(v.order) \cup ToSet(v.queue)
    BY <1>2, <1>3, <1>5 DEF KahnOK
  <2>. QED BY <1>3, <1>5, <2>2, <2>3, <2>4 DEF Counted
<1>. DEFINE T == {i \in Nat : i <= n => /\ Counted(flow, g[i], V, curr, i)
                                        /\ g[i].order = v.order}
<1>7. 0 \in T
  BY <1>1, <1>6
<1>8. ASSUME NEW i \in Nat, i \in T PROVE i + 1 \in T
  <2>. SUFFICES ASSUME i + 1 <= n
                PROVE  /\ Counted(flow, g[i + 1], V, curr, i + 1)
                       /\ g[i + 1].order = v.order
    OBVIOUS
  <2>1. /\ i + 1 \in 1 .. n /\ (i + 1) - 1 = i /\ i \in 0 .. n
        /\ Counted(flow, g[i], V, curr, i) /\ g[i].order = v.order /\ g[i] \in S
    BY <1>0, <1>1, <1>8
  <2>2. CASE EdgeList(flow)[i + 1][1] = curr
    <3>1. g[i + 1] = Relax(g[i], EdgeList(flow)[i + 1][2])
      BY <1>1, <2>1, <2>2
    <3>2. Counted(flow, g[i + 1], V, curr, i + 1)
      BY <1>4, <2>1, <2>2, <3>1, RelaxCounted DEF S, n
    <3>3. EdgeList(flow)[i + 1][2] \in Ids(flow)
      BY <2>1, GraphTyped DEF n
    <3>4. g[i + 1].order = v.order
      <4>0. g[i] \in KahnState(flow)
        BY <2>1 DEF S
      <4>1. Relax(g[i], EdgeList(flow)[i + 1][2]).order = g[i].order
        BY <4>0 DEF Relax, KahnState
      <4>. QED BY <2>1, <3>1, <4>1
    <3>. QED BY <3>2, <3>4
  <2>3. CASE EdgeList(flow)[i + 1][1] # curr
    <3>1. g[i + 1] = g[i]
      BY <1>1, <2>1, <2>3
    <3>2. \A m : Waits(flow, m, V, curr, i + 1) = Waits(flow, m, V, curr, i)
      <4>1. \A j \in DOMAIN EdgeList(flow) :
              j <= i + 1 <=> (j <= i \/ j = i + 1)
        BY GraphTyped
      <4>. QED BY <2>3, <4>1 DEF Waits
    <3>. QED BY <2>1, <3>1, <3>2 DEF Counted, WaitCount
  <2>. QED BY <2>2, <2>3
<1>. HIDE DEF T
<1>9. n \in T
  BY <1>0, <1>7, <1>8, NatSetInduction
<1>. DEFINE z == Visit(flow, s)
<1>10. z \in S /\ Counted(flow, z, V, curr, n) /\ z.order = v.order
  BY <1>0, <1>1, <1>9 DEF T
<1>. HIDE DEF z
<1>11. \A m \in Ids(flow) : z.degree[m] = WaitCount(flow, m, ToSet(z.order), NoNode, 0)
  <2>1. \A m : Waits(flow, m, V, curr, n)
                 = {j \in DOMAIN EdgeList(flow) :
                      /\ EdgeList(flow)[j][2] = m
                      /\ EdgeList(flow)[j][1] \notin V \cup {curr}}
    BY WaitsAll DEF n
  <2>2. \A m : Waits(flow, m, V \cup {curr}, NoNode, 0)
                 = {j \in DOMAIN EdgeList(flow) :
                      /\ EdgeList(flow)[j][2] = m
                      /\ EdgeList(flow)[j][1] \notin V \cup {curr}}
    BY WaitsNone
  <2>3. \A m : Waits(flow, m, V, curr, n) = Waits(flow, m, V \cup {curr}, NoNode, 0)
    BY <2>1, <2>2
  <2>. QED BY <1>5, <1>10, <2>3 DEF Counted, WaitCount
<1>12. Sorted(flow, z.order)
  <2>. SUFFICES ASSUME NEW e \in Edges(flow), NEW k \in DOMAIN z.order,
                       z.order[k] = e[2]
                PROVE  \E j \in 1 .. k - 1 : z.order[j] = e[1]
    BY DEF Sorted
  <2>. DEFINE o == s.order
  <2>1. /\ z.order = Append(o, curr) /\ Len(o) \in Nat /\ DOMAIN o = 1 .. Len(o)
        /\ DOMAIN z.order = 1 .. Len(o) + 1
        /\ \A j \in 1 .. Len(o) : z.order[j] = o[j]
        /\ z.order[Len(o) + 1] = curr
    BY <1>2, <1>10
  <2>. HIDE DEF o
  <2>2. CASE k \in 1 .. Len(o)
    <3>1. \E j \in 1 .. k - 1 : o[j] = e[1]
      BY <2>1, <2>2 DEF KahnOK, Sorted, o
    <3>. QED BY <2>1, <2>2, <3>1
  <2>3. CASE k = Len(o) + 1
    <3>1. e[2] = curr
      BY <2>1, <2>3
    <3>2. s.degree[curr] = 0
      BY <1>2, <1>3 DEF KahnOK
    <3>3. Waits(flow, curr, V, NoNode, 0) = {}
      BY <1>2, <3>2, WaitsFinite, FS_EmptySet DEF KahnOK, WaitCount
    <3>4. PICK i \in DOMAIN EdgeList(flow) : EdgeList(flow)[i] = e
      BY DEF Edges, ToSet
    <3>5. e[1] \in V
      <4>1. \A j \in DOMAIN EdgeList(flow) : ~(j <= 0)
        BY GraphTyped
      <4>. QED BY <3>1, <3>3, <3>4, <4>1 DEF Waits
    <3>6. PICK j \in DOMAIN o : o[j] = e[1]
      BY <3>5 DEF ToSet, o
    <3>. QED BY <2>1, <2>3, <3>6
  <2>. QED BY <2>1, <2>2, <2>3
<1>13. KahnOK(flow, z)
  BY <1>10, <1>11, <1>12 DEF KahnOK, Counted, S
<1>. QED BY <1>2, <1>4, <1>10, <1>13 DEF z

-----------------------------------------------------------------------------
(* The order of a workflow.                                                *)

StartOf(flow) ==
  [queue  |-> Among(NodeList(flow), {n \in NodeIds(flow) : InDegree(flow, n) = 0}),
   order  |-> <<>>,
   degree |-> [n \in Ids(flow) |-> InDegree(flow, n)]]

LEMMA StartOK ==
  ASSUME NEW flow \in Flows, Distinct(NodeList(flow))
  PROVE  KahnOK(flow, StartOf(flow))
<1>. DEFINE s == StartOf(flow)
            free == {n \in NodeIds(flow) : InDegree(flow, n) = 0}
<1>1. /\ s.queue = Among(NodeList(flow), free) /\ s.order = <<>>
      /\ s.degree = [n \in Ids(flow) |-> InDegree(flow, n)]
  BY DEF StartOf
<1>2. /\ s.queue \in Seq(Ids(flow)) /\ Distinct(s.queue)
      /\ ToSet(s.queue) = NodeIds(flow) \cap free
  <2>1. NodeList(flow) \in Seq(Ids(flow)) /\ NodeIds(flow) = ToSet(NodeList(flow))
    BY GraphTyped DEF NodeIds
  <2>. HIDE DEF free
  <2>. QED BY <1>1, <2>1, AmongSet
<1>3. \A n : InDegree(flow, n) = WaitCount(flow, n, {}, NoNode, 0)
             /\ InDegree(flow, n) \in Nat
  <2>1. \A n : Waits(flow, n, {}, NoNode, 0)
                 = {i \in DOMAIN EdgeList(flow) : EdgeList(flow)[i][2] = n}
    <3>1. \A j \in DOMAIN EdgeList(flow) : ~(j <= 0)
      BY GraphTyped
    <3>. QED BY <3>1 DEF Waits
  <2>2. \A n : WaitCount(flow, n, {}, NoNode, 0) \in Nat
    BY WaitsFinite
  <2>. QED BY <2>1, <2>2 DEF InDegree, WaitCount
<1>4. ToSet(s.order) = {} /\ Distinct(s.order) /\ s.order \in Seq(Ids(flow))
      /\ DOMAIN s.order = {}
  BY <1>1 DEF ToSet, Distinct
<1>5. s.degree \in [Ids(flow) -> Int]
  BY <1>1, <1>3
<1>6. s \in KahnState(flow)
  BY <1>2, <1>4, <1>5 DEF KahnState, StartOf
<1>7. \A n \in Ids(flow) : s.degree[n] = WaitCount(flow, n, ToSet(s.order), NoNode, 0)
  BY <1>1, <1>3, <1>4
<1>8. ASSUME NEW n \in Ids(flow)
      PROVE  s.degree[n] = 0 <=> n \in ToSet(s.order) \cup ToSet(s.queue)
  <2>1. s.degree[n] = InDegree(flow, n)
    BY <1>1
  <2>2. CASE n \in NodeIds(flow)
    BY <1>2, <1>4, <2>1, <2>2
  <2>3. CASE n \notin NodeIds(flow)
    <3>1. PICK e \in Edges(flow) : e[2] = n
      BY <2>3 DEF Ids
    <3>2. PICK i \in DOMAIN EdgeList(flow) : EdgeList(flow)[i] = e
      BY <3>1 DEF Edges, ToSet
    <3>3. i \in Waits(flow, n, {}, NoNode, 0)
      <4>1. ~(i <= 0)
        BY GraphTyped
      <4>. QED BY <3>1, <3>2, <4>1 DEF Waits
    <3>4. InDegree(flow, n) # 0
      BY <1>3, <3>3, WaitsFinite, FS_EmptySet DEF WaitCount
    <3>. QED BY <1>2, <1>4, <2>1, <2>3, <3>4
  <2>. QED BY <2>2, <2>3
<1>9. Sorted(flow, s.order)
  BY <1>4 DEF Sorted
<1>. HIDE DEF s
<1>10. ToSet(s.order) \cap ToSet(s.queue) = {}
  BY <1>4
<1>11. KahnOK(flow, s)
  BY <1>2, <1>4, <1>6, <1>7, <1>8, <1>9, <1>10 DEF KahnOK
<1>. QED BY <1>11 DEF s

Runs(g, flow) ==
  g = [k \in 0 .. Cardinality(Ids(flow)) |->
         IF k = 0 THEN StartOf(flow) ELSE Visit(flow, g[k - 1])]

Rest(flow, order) == Among(NodeList(flow), NodeIds(flow) \ ToSet(order))

\* The queue runs empty: each round visits one more id or finds it empty.
LEMMA TopoSortRuns ==
  ASSUME NEW flow \in Flows, Distinct(NodeList(flow))
  PROVE  \E s : /\ KahnOK(flow, s) /\ s.queue = <<>>
                /\ TopoSort(flow) = s.order \o Rest(flow, s.order)
<1>. DEFINE n == Cardinality(Ids(flow))
            S == {s \in KahnState(flow) : KahnOK(flow, s)}
            base == StartOf(flow)
            step == [k \in 1 .. n |-> [t \in S |-> Visit(flow, t)]]
<1>1. n \in Nat /\ base \in S
  BY GraphTyped, StartOK DEF KahnOK
<1>2. \A t \in S : Visit(flow, t) \in S
  <2>. SUFFICES ASSUME NEW t \in S PROVE Visit(flow, t) \in S
    OBVIOUS
  <2>1. CASE t.queue = <<>>
    BY <2>1 DEF Visit
  <2>2. CASE t.queue # <<>>
    BY <2>2, VisitOK DEF KahnOK
  <2>. QED BY <2>1, <2>2
<1>3. step \in [1 .. n -> [S -> S]] /\ \A k \in 1 .. n : \A t \in S :
        step[k][t] = Visit(flow, t)
  BY <1>2
<1>. HIDE DEF step, n, S, base
<1>4. PICK g : Steps(g, n, S, base, step)
  BY <1>1, <1>3, Recursion
<1>5. g = [k \in 0 .. n |-> IF k = 0 THEN base ELSE Visit(flow, g[k - 1])]
  <2>1. g = [i \in 0 .. n |-> g[i]]
    BY <1>4 DEF Steps
  <2>2. ASSUME NEW i \in 0 .. n
        PROVE  g[i] = IF i = 0 THEN base ELSE Visit(flow, g[i - 1])
    <3>1. CASE i = 0
      BY <1>4, <3>1 DEF Steps
    <3>2. CASE i # 0
      <4>1. i \in 1 .. n /\ i - 1 \in 0 .. n
        BY <1>1, <3>2
      <4>2. g[i - 1] \in S /\ g[i] = step[i][g[i - 1]]
        BY <1>4, <3>2, <4>1 DEF Steps
      <4>. QED BY <1>3, <3>2, <4>1, <4>2
    <3>. QED BY <3>1, <3>2
  <2>. QED BY <2>1, <2>2
<1>6. Runs(g, flow)
  BY <1>5 DEF Runs, n, base
<1>. DEFINE c == CHOOSE f : Runs(f, flow)
<1>7. Runs(c, flow)
  BY <1>6
<1>8. TopoSort(flow) = c[n].order \o Rest(flow, c[n].order)
  BY DEF TopoSort, Runs, StartOf, Rest, n
<1>. HIDE DEF c
<1>9. \A k \in 0 .. n : c[k] = IF k = 0 THEN base ELSE Visit(flow, c[k - 1])
  BY <1>7 DEF Runs, n, base
<1>. DEFINE T == {m \in Nat : m <= n =>
                    /\ c[m] \in S
                    /\ \/ c[m].queue = <<>>
                       \/ Cardinality(ToSet(c[m].order)) = m}
<1>10. 0 \in T
  <2>1. c[0] = base
    BY <1>1, <1>9
  <2>2. ToSet(base.order) = {}
    BY DEF base, StartOf, ToSet
  <2>. QED BY <1>1, <2>1, <2>2, FS_EmptySet
<1>11. ASSUME NEW m \in Nat, m \in T PROVE m + 1 \in T
  <2>. SUFFICES ASSUME m + 1 <= n
                PROVE  /\ c[m + 1] \in S
                       /\ \/ c[m + 1].queue = <<>>
                          \/ Cardinality(ToSet(c[m + 1].order)) = m + 1
    OBVIOUS
  <2>. DEFINE s == c[m]
  <2>1. m + 1 \in 0 .. n /\ (m + 1) - 1 = m /\ m + 1 # 0 /\ m <= n
    BY <1>1
  <2>2. c[m + 1] = Visit(flow, s)
    BY <1>9, <2>1
  <2>3. s \in S /\ (s.queue = <<>> \/ Cardinality(ToSet(s.order)) = m)
    BY <1>11, <2>1
  <2>. HIDE DEF s
  <2>4. c[m + 1] \in S
    BY <1>2, <2>2, <2>3
  <2>5. CASE s.queue = <<>>
    <3>1. c[m + 1] = s
      BY <2>2, <2>5 DEF Visit
    <3>. QED BY <2>4, <2>5, <3>1
  <2>6. CASE s.queue # <<>>
    <3>1. KahnOK(flow, s)
      BY <2>3 DEF S
    <3>2. /\ c[m + 1].order = Append(s.order, Head(s.queue))
          /\ Head(s.queue) \notin ToSet(s.order)
      BY <2>2, <2>6, <3>1, VisitOK
    <3>3. s.order \in Seq(Ids(flow)) /\ ToSet(s.order) \subseteq Ids(flow)
      BY <3>1 DEF KahnOK, KahnState, ToSet
    <3>4. ToSet(c[m + 1].order) = ToSet(s.order) \cup {Head(s.queue)}
      BY <3>2, <3>3, AppendSet
    <3>5. IsFiniteSet(ToSet(s.order))
      BY <3>3, GraphTyped, FS_Subset
    <3>6. Cardinality(ToSet(s.order)) = m
      BY <2>3, <2>6
    <3>. QED BY <2>4, <3>2, <3>4, <3>5, <3>6, FS_AddElement
  <2>. QED BY <2>5, <2>6
<1>. HIDE DEF T
<1>12. n \in T
  BY <1>1, <1>10, <1>11, NatSetInduction
<1>. DEFINE z == c[n]
<1>13. KahnOK(flow, z) /\ (z.queue = <<>> \/ Cardinality(ToSet(z.order)) = n)
  BY <1>1, <1>12 DEF T, S
<1>. HIDE DEF z
<1>14. z.queue = <<>>
  <2>. SUFFICES ASSUME z.queue # <<>> PROVE FALSE
    OBVIOUS
  <2>1. /\ z.queue \in Seq(Ids(flow)) /\ z.order \in Seq(Ids(flow))
        /\ Distinct(z.queue) /\ ToSet(z.order) \cap ToSet(z.queue) = {}
    BY <1>13 DEF KahnOK, KahnState
  <2>2. Head(z.queue) \in Ids(flow) /\ Head(z.queue) \in ToSet(z.queue)
    BY <2>1, TailSet
  <2>3. ToSet(z.order) \subseteq Ids(flow)
    BY <2>1 DEF ToSet
  <2>4. ToSet(z.order) = Ids(flow)
    BY <1>13, <2>3, GraphTyped, FS_Subset DEF n
  <2>. QED BY <2>1, <2>2, <2>4
<1>. QED BY <1>8, <1>13, <1>14 DEF z

\* No node is listed twice, and none is left out.
LEMMA OrderDistinct ==
  ASSUME NEW flow \in Flows, Distinct(NodeList(flow))
  PROVE  /\ TopoSort(flow) \in Seq(Ids(flow)) /\ Distinct(TopoSort(flow))
         /\ NodeIds(flow) \subseteq ToSet(TopoSort(flow))
<1>1. PICK s : /\ KahnOK(flow, s) /\ s.queue = <<>>
               /\ TopoSort(flow) = s.order \o Rest(flow, s.order)
  BY TopoSortRuns
<1>. DEFINE left == NodeIds(flow) \ ToSet(s.order)
<1>2. s.order \in Seq(Ids(flow)) /\ Distinct(s.order)
  BY <1>1 DEF KahnOK, KahnState
<1>3. NodeList(flow) \in Seq(Ids(flow)) /\ NodeIds(flow) = ToSet(NodeList(flow))
  BY GraphTyped DEF NodeIds
<1>4. Rest(flow, s.order) = Among(NodeList(flow), left)
  BY DEF Rest
<1>. HIDE DEF left
<1>5. /\ Rest(flow, s.order) \in Seq(Ids(flow))
      /\ ToSet(Rest(flow, s.order)) = NodeIds(flow) \cap left
      /\ Distinct(Rest(flow, s.order))
  BY <1>3, <1>4, AmongSet
<1>6. ToSet(s.order) \cap ToSet(Rest(flow, s.order)) = {}
  BY <1>5 DEF left
<1>7. /\ ToSet(TopoSort(flow)) = ToSet(s.order) \cup ToSet(Rest(flow, s.order))
      /\ Distinct(TopoSort(flow))
  BY <1>1, <1>2, <1>5, <1>6, ConcatSet
<1>8. TopoSort(flow) \in Seq(Ids(flow))
  BY <1>1, <1>2, <1>5
<1>. QED BY <1>5, <1>7, <1>8 DEF left

Peels(g, flow) ==
  g = [k \in 0 .. Len(NodeList(flow)) |->
         IF k = 0 THEN NodeIds(flow)
         ELSE {n \in g[k - 1] : \E e \in KnownEdges(flow) : e[2] = n /\ e[1] \in g[k - 1]}]

\* Nodes that all have an edge from one of them sit on or behind a cycle.
LEMMA CycleBehind ==
  ASSUME NEW flow \in Flows, NEW R \in SUBSET NodeIds(flow), R # {},
         \A n \in R : \E e \in KnownEdges(flow) : e[2] = n /\ e[1] \in R
  PROVE  HasCycle(flow)
<1>. DEFINE n == Len(NodeList(flow))
            S == SUBSET NodeIds(flow)
            Left(L) == {m \in L : \E e \in KnownEdges(flow) : e[2] = m /\ e[1] \in L}
            step == [k \in 1 .. n |-> [L \in S |-> Left(L)]]
<1>1. n \in Nat /\ NodeIds(flow) \in S
  BY GraphTyped
<1>2. \A L \in S : Left(L) \in S
  OBVIOUS
<1>3. step \in [1 .. n -> [S -> S]] /\ \A k \in 1 .. n : \A L \in S :
        step[k][L] = Left(L)
  BY <1>2
<1>. HIDE DEF step, n, S, Left
<1>4. PICK g : Steps(g, n, S, NodeIds(flow), step)
  BY <1>1, <1>3, Recursion
<1>5. g = [k \in 0 .. n |-> IF k = 0 THEN NodeIds(flow) ELSE Left(g[k - 1])]
  <2>1. g = [i \in 0 .. n |-> g[i]]
    BY <1>4 DEF Steps
  <2>2. ASSUME NEW i \in 0 .. n
        PROVE  g[i] = IF i = 0 THEN NodeIds(flow) ELSE Left(g[i - 1])
    <3>1. CASE i = 0
      BY <1>4, <3>1 DEF Steps
    <3>2. CASE i # 0
      <4>1. i \in 1 .. n /\ i - 1 \in 0 .. n
        BY <1>1, <3>2
      <4>2. g[i - 1] \in S /\ g[i] = step[i][g[i - 1]]
        BY <1>4, <3>2, <4>1 DEF Steps
      <4>. QED BY <1>3, <3>2, <4>1, <4>2
    <3>. QED BY <3>1, <3>2
  <2>. QED BY <2>1, <2>2
<1>6. Peels(g, flow)
  BY <1>5 DEF Peels, n, Left
<1>. DEFINE c == CHOOSE f : Peels(f, flow)
<1>7. Peels(c, flow)
  BY <1>6
<1>8. HasCycle(flow) <=> c[n] # {}
  BY DEF HasCycle, Peels, n
<1>. HIDE DEF c
<1>9. \A k \in 0 .. n : c[k] = IF k = 0 THEN NodeIds(flow) ELSE Left(c[k - 1])
  BY <1>7 DEF Peels, n, Left
<1>. DEFINE T == {m \in Nat : m <= n => R \subseteq c[m]}
<1>10. 0 \in T
  BY <1>1, <1>9
<1>11. ASSUME NEW m \in Nat, m \in T PROVE m + 1 \in T
  <2>. SUFFICES ASSUME m + 1 <= n PROVE R \subseteq c[m + 1]
    OBVIOUS
  <2>1. m + 1 \in 0 .. n /\ (m + 1) - 1 = m /\ m + 1 # 0 /\ R \subseteq c[m]
    BY <1>1, <1>11
  <2>2. c[m + 1] = Left(c[m])
    BY <1>9, <2>1
  <2>. QED BY <2>1, <2>2 DEF Left
<1>. HIDE DEF T
<1>12. n \in T
  BY <1>1, <1>10, <1>11, NatSetInduction
<1>. QED BY <1>1, <1>8, <1>12 DEF T

\* Without a cycle and without edges from or to missing nodes, the queue has
\* taken every node, and every edge goes forward.
LEMMA OrderSorted ==
  ASSUME NEW flow \in Flows, Distinct(NodeList(flow)), Clean(flow)
  PROVE  Sorted(flow, TopoSort(flow))
<1>1. PICK s : /\ KahnOK(flow, s) /\ s.queue = <<>>
               /\ TopoSort(flow) = s.order \o Rest(flow, s.order)
  BY TopoSortRuns
<1>. DEFINE R == NodeIds(flow) \ ToSet(s.order)
<1>2. ASSUME NEW n \in R
      PROVE  \E e \in KnownEdges(flow) : e[2] = n /\ e[1] \in R
  <2>1. n \in Ids(flow) /\ ToSet(s.queue) = {}
    BY <1>1, GraphTyped DEF ToSet
  <2>2. s.degree[n] # 0
    BY <1>1, <2>1 DEF KahnOK
  <2>3. Waits(flow, n, ToSet(s.order), NoNode, 0) # {}
    BY <1>1, <2>1, <2>2, FS_EmptySet DEF KahnOK, WaitCount
  <2>4. PICK j \in DOMAIN EdgeList(flow) :
          EdgeList(flow)[j][2] = n /\ EdgeList(flow)[j][1] \notin ToSet(s.order)
    BY <2>3 DEF Waits
  <2>5. EdgeList(flow)[j] \in Edges(flow)
    BY DEF Edges, ToSet
  <2>6. EdgeList(flow)[j] \in KnownEdges(flow)
    BY <2>5 DEF Clean
  <2>7. EdgeList(flow)[j][1] \in NodeIds(flow)
    BY <2>6 DEF KnownEdges
  <2>. QED BY <2>4, <2>6, <2>7
<1>3. R = {}
  BY <1>2, CycleBehind, AcyclicAssumption
<1>4. Rest(flow, s.order) = <<>>
  <2>1. NodeList(flow) \in Seq(Ids(flow))
    BY GraphTyped
  <2>2. Rest(flow, s.order) = Among(NodeList(flow), {})
    BY <1>3 DEF Rest
  <2>3. Rest(flow, s.order) \in Seq(Ids(flow)) /\ ToSet(Rest(flow, s.order)) = {}
    BY <2>1, <2>2, AmongSet
  <2>4. DOMAIN Rest(flow, s.order) = {}
    BY <2>3 DEF ToSet
  <2>. QED BY <2>3, <2>4
<1>5. s.order \in Seq(Ids(flow))
  BY <1>1 DEF KahnOK, KahnState
<1>6. TopoSort(flow) = s.order
  BY <1>1, <1>4, <1>5
<1>. QED BY <1>1, <1>6 DEF KahnOK

-----------------------------------------------------------------------------
(* Calls of RunWorkflow.                                                   *)

\* No definition lists a node id twice. The code does not refuse one that does.
UniqueIds == \A flow \in Flows : Distinct(NodeList(flow))

\* What a call may be told to skip.
Marks(flow) ==
  Ids(flow) \cup (UNION UNION {SkipChoices(flow, n) : n \in NodeIds(flow)})
            \cup (UNION {GroupMates(flow, n) : n \in NodeIds(flow)})

LEMMA MarksOf ==
  ASSUME NEW flow, NEW n \in NodeIds(flow)
  PROVE  /\ n \in Marks(flow) /\ GroupMates(flow, n) \subseteq Marks(flow)
         /\ \A skip \in SkipChoices(flow, n) : skip \subseteq Marks(flow)
<1>1. n \in Marks(flow)
  BY DEF Marks, Ids
<1>2. GroupMates(flow, n) \in {GroupMates(flow, m) : m \in NodeIds(flow)}
  OBVIOUS
<1>3. GroupMates(flow, n) \subseteq Marks(flow)
  BY <1>2, Zenon DEF Marks
<1>4. SkipChoices(flow, n) \in {SkipChoices(flow, m) : m \in NodeIds(flow)}
  OBVIOUS
<1>5. \A skip \in SkipChoices(flow, n) : skip \subseteq Marks(flow)
  BY <1>4, Zenon DEF Marks
<1>. QED BY <1>1, <1>3, <1>5

FrameOf(flow) ==
  [flow : {flow}, order : {Order[flow]}, at : Nat \ {0}, attempt : Nat \ {0},
   result : {"none", "ok", "error"}, skipped : SUBSET Marks(flow),
   seeded : SUBSET NodeIds(flow), cut : SUBSET Edges(flow), depth : Nat,
   log : [NodeIds(flow) -> {"todo", "completed", "failed", "skipped"}]]

\* The nodes behind the current one, and no others, are still to do.
Logged(f) ==
  \A k \in DOMAIN f.order :
    f.order[k] \in NodeIds(f.flow) => (f.log[f.order[k]] = "todo" <=> k >= f.at)

Calls == {f \in UNION {FrameOf(flow) : flow \in Flows} : Logged(f)}

LEMMA CallTyped ==
  ASSUME UniqueIds, NEW f \in Calls
  PROVE  /\ f.flow \in Flows /\ f \in FrameOf(f.flow) /\ Logged(f)
         /\ f.order = Order[f.flow] /\ f.order = TopoSort(f.flow)
         /\ f.order \in Seq(Ids(f.flow)) /\ Distinct(f.order)
         /\ f.at \in Nat \ {0} /\ f.attempt \in Nat \ {0}
         /\ Len(f.order) \in Nat /\ DOMAIN f.order = 1 .. Len(f.order)
         /\ ~Over(f) => f.at \in DOMAIN f.order /\ Node(f) = f.order[f.at]
<1>1. PICK flow \in Flows : f \in FrameOf(flow)
  BY DEF Calls
<1>2. f.flow = flow /\ f.order = Order[flow] /\ f.at \in Nat \ {0} /\ f.attempt \in Nat \ {0}
  BY <1>1 DEF FrameOf
<1>3. Order[flow] = TopoSort(flow)
  BY DEF Order
<1>4. TopoSort(flow) \in Seq(Ids(flow)) /\ Distinct(TopoSort(flow))
  BY OrderDistinct DEF UniqueIds
<1>5. f.order \in Seq(Ids(f.flow))
  BY <1>2, <1>3, <1>4
<1>6. Len(f.order) \in Nat /\ DOMAIN f.order = 1 .. Len(f.order)
  BY <1>5
<1>7. ASSUME ~Over(f) PROVE f.at \in DOMAIN f.order /\ Node(f) = f.order[f.at]
  BY <1>2, <1>6, <1>7 DEF Over, Node
<1>8. Logged(f)
  BY DEF Calls
<1>. QED BY <1>1, <1>2, <1>3, <1>4, <1>5, <1>6, <1>7, <1>8

\* The lines of the loop that write to a call.
LEMMA LoggedFrame ==
  ASSUME NEW flow, NEW f, f \in FrameOf(flow),
         NEW log \in [NodeIds(flow) -> {"todo", "completed", "failed", "skipped"}],
         NEW g, g = [f EXCEPT !.log = log]
  PROVE  /\ g \in FrameOf(flow) /\ g.flow = f.flow /\ g.order = f.order /\ g.at = f.at
         /\ g.result = f.result /\ g.skipped = f.skipped /\ g.seeded = f.seeded
         /\ g.cut = f.cut /\ g.log = log
BY DEF FrameOf

LEMMA AskFrame ==
  ASSUME NEW flow, NEW f \in FrameOf(flow), NEW S \in SUBSET Marks(flow),
         NEW g, g = Ask(f, S)
  PROVE  /\ g \in FrameOf(flow) /\ g.flow = f.flow /\ g.order = f.order /\ g.at = f.at
         /\ g.result = f.result /\ g.log = f.log
         /\ g.skipped = f.skipped \cup S
         /\ g.seeded = f.seeded \cup (S \cap Todo(f))
         /\ g.cut = f.cut \cup {e \in Edges(flow) :
                                e[1] \in S \ Todo(f) /\ e[2] \in Todo(f)}
<1>. DEFINE skipped == f.skipped \cup S
            seeded == f.seeded \cup (S \cap Todo(f))
            cut == f.cut \cup {e \in Edges(flow) : e[1] \in S \ Todo(f) /\ e[2] \in Todo(f)}
<1>1. f.flow = flow /\ f.skipped \subseteq Marks(flow) /\ f.seeded \subseteq NodeIds(flow)
      /\ f.cut \subseteq Edges(flow)
  BY DEF FrameOf
<1>2. Todo(f) \subseteq NodeIds(flow)
  BY <1>1 DEF Todo
<1>3. skipped \in SUBSET Marks(flow) /\ seeded \in SUBSET NodeIds(flow)
      /\ cut \in SUBSET Edges(flow)
  BY <1>1, <1>2
<1>4. g = [f EXCEPT !.skipped = skipped, !.seeded = seeded, !.cut = cut]
  BY <1>1 DEF Ask
<1>. HIDE DEF skipped, seeded, cut
<1>5. /\ g \in FrameOf(flow) /\ g.flow = f.flow /\ g.order = f.order /\ g.at = f.at
      /\ g.result = f.result /\ g.log = f.log
      /\ g.skipped = skipped /\ g.seeded = seeded /\ g.cut = cut
  BY <1>3, <1>4 DEF FrameOf
<1>. QED BY <1>5 DEF skipped, seeded, cut

LEMMA UnaskFrame ==
  ASSUME NEW flow, NEW f \in FrameOf(flow), NEW t, NEW g, g = Unask(f, t)
  PROVE  /\ g \in FrameOf(flow) /\ g.flow = f.flow /\ g.order = f.order /\ g.at = f.at
         /\ g.result = f.result /\ g.log = f.log
         /\ g.skipped = f.skipped \ {t} /\ g.seeded = f.seeded \ {t}
         /\ g.cut = {e \in f.cut : e[1] = t => e[2] \notin Todo(f)}
<1>. DEFINE skipped == f.skipped \ {t}
            seeded == f.seeded \ {t}
            cut == {e \in f.cut : e[1] = t => e[2] \notin Todo(f)}
<1>1. skipped \in SUBSET Marks(flow) /\ seeded \in SUBSET NodeIds(flow)
      /\ cut \in SUBSET Edges(flow)
  BY DEF FrameOf
<1>2. g = [f EXCEPT !.skipped = skipped, !.seeded = seeded, !.cut = cut]
  BY DEF Unask
<1>. HIDE DEF skipped, seeded, cut
<1>3. /\ g \in FrameOf(flow) /\ g.flow = f.flow /\ g.order = f.order /\ g.at = f.at
      /\ g.result = f.result /\ g.log = f.log
      /\ g.skipped = skipped /\ g.seeded = seeded /\ g.cut = cut
  BY <1>1, <1>2 DEF FrameOf
<1>. QED BY <1>3 DEF skipped, seeded, cut

LEMMA AdvanceFrame ==
  ASSUME NEW flow, NEW f, f \in FrameOf(flow), NEW g, g = Advance(f)
  PROVE  /\ g \in FrameOf(flow) /\ g.flow = f.flow /\ g.order = f.order /\ g.at = f.at + 1
         /\ g.result = "none" /\ g.skipped = f.skipped /\ g.seeded = f.seeded
         /\ g.cut = f.cut /\ g.log = f.log
<1>. DEFINE at == f.at + 1
<1>1. g = [f EXCEPT !.at = at, !.attempt = 1, !.result = "none"]
  BY DEF Advance
<1>2. at \in Nat \ {0} /\ 1 \in Nat \ {0}
  BY DEF FrameOf
<1>. HIDE DEF at
<1>3. g \in FrameOf(flow)
  BY <1>1, <1>2 DEF FrameOf
<1>4. /\ g.flow = f.flow /\ g.order = f.order /\ g.at = at
      /\ g.result = "none" /\ g.skipped = f.skipped /\ g.seeded = f.seeded
      /\ g.cut = f.cut /\ g.log = f.log
  BY <1>1 DEF FrameOf
<1>. QED BY <1>3, <1>4 DEF at

LEMMA TodoSame ==
  ASSUME NEW f, NEW g, g.flow = f.flow, g.log = f.log
  PROVE  Todo(g) = Todo(f)
BY DEF Todo

\* A node that this call may still attempt for the first time.
Open(f, n) ==
  \E k \in DOMAIN f.order :
    k >= f.at /\ f.order[k] = n /\ ~(k = f.at /\ f.result # "none")

\* What becomes of a call that goes on: no node with an effect that must not be
\* repeated is opened again.
Follows(f, g) ==
  /\ g.flow = f.flow
  /\ \A n \in NodeIds(f.flow) : IsNonIdempotent(f.flow, n) /\ Open(g, n) => Open(f, n)

LEMMA FirstCall ==
  ASSUME UniqueIds, NEW flow \in Flows, NEW depth \in Nat
  PROVE  NewFrame(flow, depth) \in Calls /\ NewFrame(flow, depth).flow = flow
<1>. DEFINE f == NewFrame(flow, depth)
<1>1. f \in FrameOf(flow)
  BY DEF NewFrame, FrameOf
<1>2. f.flow = flow /\ f.at = 1 /\ f.order = Order[flow] /\ f.log = [n \in NodeIds(flow) |-> "todo"]
  BY DEF NewFrame
<1>3. DOMAIN f.order \subseteq Nat \ {0}
  <2>1. TopoSort(flow) \in Seq(Ids(flow)) /\ f.order = TopoSort(flow)
    BY <1>2, OrderDistinct DEF UniqueIds, Order
  <2>. QED BY <2>1
<1>4. Logged(f)
  BY <1>2, <1>3 DEF Logged
<1>. QED BY <1>1, <1>2, <1>4 DEF Calls

\* An attempt has ended, or RunWorkflow returned to the node that called it.
LEMMA EndedCall ==
  ASSUME UniqueIds, NEW f \in Calls, NEW r \in {"ok", "error"}
  PROVE  LET g == [f EXCEPT !.result = r] IN
         /\ g \in Calls /\ Follows(f, g)
         /\ ~Over(f) => ~Open(g, Node(f))
<1>. DEFINE g == [f EXCEPT !.result = r]
<1>1. /\ f.flow \in Flows /\ f \in FrameOf(f.flow) /\ Logged(f) /\ Distinct(f.order)
      /\ ~Over(f) => f.at \in DOMAIN f.order /\ Node(f) = f.order[f.at]
  BY CallTyped
<1>2. /\ g \in FrameOf(f.flow) /\ g.flow = f.flow /\ g.order = f.order /\ g.at = f.at
      /\ g.log = f.log /\ g.result = r
  BY <1>1 DEF FrameOf
<1>. HIDE DEF g
<1>3. Logged(g)
  BY <1>1, <1>2 DEF Logged
<1>4. Follows(f, g)
  BY <1>2 DEF Follows, Open
<1>5. ASSUME ~Over(f) PROVE ~Open(g, Node(f))
  BY <1>1, <1>2, <1>5 DEF Open, Distinct
<1>. QED BY <1>1, <1>2, <1>3, <1>4, <1>5 DEF Calls, g

\* Only nodes that may be repeated are attempted again.
LEMMA RetriedCall ==
  ASSUME UniqueIds, NEW f \in Calls, ~Over(f), AttemptsLeft(f)
  PROVE  LET g == [f EXCEPT !.attempt = @ + 1, !.result = "none"]
         IN g \in Calls /\ Follows(f, g)
<1>. DEFINE g == [f EXCEPT !.attempt = @ + 1, !.result = "none"]
<1>1. /\ f.flow \in Flows /\ f \in FrameOf(f.flow) /\ Logged(f)
      /\ f.at \in DOMAIN f.order /\ Node(f) = f.order[f.at]
      /\ f.attempt \in Nat \ {0}
  BY CallTyped
<1>2. /\ g \in FrameOf(f.flow) /\ g.flow = f.flow /\ g.order = f.order /\ g.at = f.at
      /\ g.log = f.log
  <2>1. f.attempt + 1 \in Nat \ {0}
    BY <1>1
  <2>2. g = [f EXCEPT !.attempt = f.attempt + 1, !.result = "none"]
    OBVIOUS
  <2>. QED BY <1>1, <2>1, <2>2 DEF FrameOf
<1>. HIDE DEF g
<1>3. Logged(g)
  BY <1>1, <1>2 DEF Logged
<1>4. ~IsNonIdempotent(f.flow, Node(f))
  BY <1>1 DEF AttemptsLeft, MaxAttempts
<1>5. Follows(f, g)
  BY <1>1, <1>2, <1>4 DEF Follows, Open
<1>. QED BY <1>1, <1>2, <1>3, <1>5 DEF Calls, g

\* The loop leaves the current node, which has its line in the log by now.
LEMMA LeftCall ==
  ASSUME UniqueIds, NEW f \in Calls, ~Over(f),
         NEW h \in FrameOf(f.flow), h.at = f.at,
         \/ Node(f) \notin NodeIds(f.flow) /\ h.log = f.log
         \/ \E line \in {"completed", "failed", "skipped"} :
              h.log = [f.log EXCEPT ![Node(f)] = line]
  PROVE  Advance(h) \in Calls /\ Follows(f, Advance(h))
<1>. DEFINE g == Advance(h)
            n == Node(f)
<1>1. /\ f.flow \in Flows /\ f \in FrameOf(f.flow) /\ Logged(f) /\ Distinct(f.order)
      /\ f.at \in DOMAIN f.order /\ n = f.order[f.at] /\ f.at \in Nat
      /\ DOMAIN f.order = 1 .. Len(f.order) /\ Len(f.order) \in Nat
      /\ f.order = Order[f.flow]
  BY CallTyped
<1>2. /\ g \in FrameOf(f.flow) /\ g.flow = f.flow /\ g.order = f.order /\ g.at = f.at + 1
      /\ g.log = h.log
  <2>1. h.at + 1 \in Nat \ {0} /\ 1 \in Nat \ {0} /\ h.order = f.order /\ h.flow = f.flow
    BY <1>1 DEF FrameOf
  <2>2. g = [h EXCEPT !.at = h.at + 1, !.attempt = 1, !.result = "none"]
    BY DEF Advance
  <2>3. g \in FrameOf(f.flow)
    BY <2>1, <2>2 DEF FrameOf
  <2>4. g.flow = h.flow /\ g.order = h.order /\ g.at = h.at + 1 /\ g.log = h.log
    BY <2>2 DEF FrameOf
  <2>. QED BY <2>1, <2>3, <2>4
<1>3. f.log \in [NodeIds(f.flow) -> {"todo", "completed", "failed", "skipped"}]
  BY <1>1 DEF FrameOf
<1>. HIDE DEF g, n
<1>4. Logged(g)
  <2>. SUFFICES ASSUME NEW k \in DOMAIN f.order, f.order[k] \in NodeIds(f.flow)
                PROVE  h.log[f.order[k]] = "todo" <=> k >= f.at + 1
    BY <1>2 DEF Logged
  <2>1. f.log[f.order[k]] = "todo" <=> k >= f.at
    BY <1>1 DEF Logged
  <2>2. k = f.at <=> f.order[k] = n
    BY <1>1 DEF Distinct
  <2>3. CASE n \notin NodeIds(f.flow) /\ h.log = f.log
    BY <1>1, <2>1, <2>2, <2>3
  <2>4. CASE \E line \in {"completed", "failed", "skipped"} :
               h.log = [f.log EXCEPT ![n] = line]
    BY <1>1, <1>3, <2>1, <2>2, <2>4
  <2>. QED BY <2>3, <2>4 DEF n
<1>5. Follows(f, g)
  BY <1>1, <1>2 DEF Follows, Open
<1>. QED BY <1>1, <1>2, <1>4, <1>5 DEF Calls, g

\* The loop leaves the current node: line is what it logs, S what it asks to skip,
\* U what it asks to run after all.
Leaves(f, g, line, S, U) ==
  /\ g.flow = f.flow /\ g.order = f.order /\ g.at = f.at + 1 /\ g.result = "none"
  /\ g.log = [f.log EXCEPT ![Node(f)] = line]
  /\ g.skipped = (f.skipped \cup S) \ U
  /\ g.seeded = (f.seeded \cup (S \cap Todo(g))) \ U
  /\ g.cut = {e \in f.cut \cup {e \in Edges(f.flow) :
                                  e[1] \in S \ Todo(g) /\ e[2] \in Todo(g)} :
                e[1] \in U => e[2] \notin Todo(g)}

\* What CompleteNode does to the call.
LEMMA CompletedCall ==
  ASSUME UniqueIds, NEW f \in Calls, ~Over(f), Node(f) \in NodeIds(f.flow),
         NEW skip \in SkipChoices(f.flow, Node(f)),
         NEW g, g = Advance(Ask([f EXCEPT !.log[Node(f)] = "completed"], skip))
  PROVE  g \in Calls /\ Follows(f, g) /\ Leaves(f, g, "completed", skip, {})
<1>. DEFINE log == [f.log EXCEPT ![Node(f)] = "completed"]
            c == [f EXCEPT !.log = log]
            d == Ask(c, skip)
<1>1. /\ f \in FrameOf(f.flow) /\ skip \in SUBSET Marks(f.flow)
      /\ log \in [NodeIds(f.flow) -> {"todo", "completed", "failed", "skipped"}]
  <2>1. f \in FrameOf(f.flow)
    BY CallTyped
  <2>. QED BY <2>1, MarksOf DEF FrameOf
<1>2. g = Advance(d)
  OBVIOUS
<1>. HIDE DEF log, c, d
<1>3. /\ c \in FrameOf(f.flow) /\ c.flow = f.flow /\ c.order = f.order /\ c.at = f.at
      /\ c.skipped = f.skipped /\ c.seeded = f.seeded /\ c.cut = f.cut /\ c.log = log
  BY <1>1, LoggedFrame DEF c
<1>4. /\ d \in FrameOf(f.flow) /\ d.flow = c.flow /\ d.order = c.order /\ d.at = c.at
      /\ d.log = c.log /\ d.skipped = c.skipped \cup skip
      /\ d.seeded = c.seeded \cup (skip \cap Todo(c))
      /\ d.cut = c.cut \cup {e \in Edges(f.flow) :
                               e[1] \in skip \ Todo(c) /\ e[2] \in Todo(c)}
  BY <1>1, <1>3, AskFrame DEF d
<1>5. /\ g.flow = d.flow /\ g.order = d.order /\ g.at = d.at + 1 /\ g.result = "none"
      /\ g.skipped = d.skipped /\ g.seeded = d.seeded /\ g.cut = d.cut /\ g.log = d.log
  <2>1. d \in FrameOf(f.flow)
    BY <1>4
  <2>. QED BY <1>2, <2>1, AdvanceFrame
<1>6. Todo(g) = Todo(c)
  BY <1>3, <1>4, <1>5, TodoSame
<1>7. g \in Calls /\ Follows(f, g)
  BY <1>2, <1>3, <1>4, LeftCall DEF log
<1>8. Leaves(f, g, "completed", skip, {})
  BY <1>3, <1>4, <1>5, <1>6 DEF Leaves, log
<1>. QED BY <1>7, <1>8

\* What Catch does to the call.
LEMMA CaughtCall ==
  ASSUME UniqueIds, NEW f \in Calls, ~Over(f), Node(f) \in NodeIds(f.flow),
         NEW g, g = Advance(CatchSkips([f EXCEPT !.log[Node(f)] = "failed"], Node(f)))
  PROVE  /\ g \in Calls /\ Follows(f, g)
         /\ Leaves(f, g, "failed", GroupMates(f.flow, Node(f)),
                   {CatchTarget(f.flow, Node(f))})
<1>. DEFINE log == [f.log EXCEPT ![Node(f)] = "failed"]
            S == GroupMates(f.flow, Node(f))
            t == CatchTarget(f.flow, Node(f))
            c == [f EXCEPT !.log = log]
            d == Ask(c, S)
            h == Unask(d, t)
<1>1. /\ f \in FrameOf(f.flow) /\ S \in SUBSET Marks(f.flow)
      /\ log \in [NodeIds(f.flow) -> {"todo", "completed", "failed", "skipped"}]
  <2>1. f \in FrameOf(f.flow)
    BY CallTyped
  <2>. QED BY <2>1, MarksOf DEF FrameOf
<1>2. c = [f EXCEPT !.log[Node(f)] = "failed"]
  OBVIOUS
<1>. HIDE DEF log, c, d, h, S, t
<1>3. /\ c \in FrameOf(f.flow) /\ c.flow = f.flow /\ c.order = f.order /\ c.at = f.at
      /\ c.skipped = f.skipped /\ c.seeded = f.seeded /\ c.cut = f.cut /\ c.log = log
  BY <1>1, LoggedFrame DEF c
<1>4. /\ d \in FrameOf(f.flow) /\ d.flow = c.flow /\ d.order = c.order /\ d.at = c.at
      /\ d.log = c.log /\ d.skipped = c.skipped \cup S
      /\ d.seeded = c.seeded \cup (S \cap Todo(c))
      /\ d.cut = c.cut \cup {e \in Edges(f.flow) : e[1] \in S \ Todo(c) /\ e[2] \in Todo(c)}
  BY <1>1, <1>3, AskFrame DEF d
<1>5. /\ h \in FrameOf(f.flow) /\ h.flow = d.flow /\ h.order = d.order /\ h.at = d.at
      /\ h.log = d.log /\ h.skipped = d.skipped \ {t} /\ h.seeded = d.seeded \ {t}
      /\ h.cut = {e \in d.cut : e[1] = t => e[2] \notin Todo(d)}
  BY <1>4, UnaskFrame DEF h
<1>6. g = Advance(h)
  BY <1>2, <1>3 DEF CatchSkips, h, d, S, t
<1>7. /\ g.flow = h.flow /\ g.order = h.order /\ g.at = h.at + 1 /\ g.result = "none"
      /\ g.skipped = h.skipped /\ g.seeded = h.seeded /\ g.cut = h.cut /\ g.log = h.log
  <2>1. h \in FrameOf(f.flow)
    BY <1>5
  <2>. QED BY <1>6, <2>1, AdvanceFrame
<1>8. Todo(g) = Todo(c) /\ Todo(d) = Todo(c)
  BY <1>3, <1>4, <1>5, <1>7, TodoSame
<1>9. g \in Calls /\ Follows(f, g)
  <2>1. h.at = f.at /\ h.log = [f.log EXCEPT ![Node(f)] = "failed"]
    BY <1>3, <1>4, <1>5 DEF log
  <2>. QED BY <1>5, <1>6, <2>1, LeftCall
<1>10. Leaves(f, g, "failed", S, {t})
  <2>1. g.cut = {e \in f.cut \cup {e \in Edges(f.flow) :
                                     e[1] \in S \ Todo(g) /\ e[2] \in Todo(g)} :
                   e[1] \in {t} => e[2] \notin Todo(g)}
    BY <1>3, <1>4, <1>5, <1>7, <1>8
  <2>2. /\ g.seeded = (f.seeded \cup (S \cap Todo(g))) \ {t}
        /\ g.skipped = (f.skipped \cup S) \ {t}
    BY <1>3, <1>4, <1>5, <1>7, <1>8
  <2>. QED BY <1>3, <1>4, <1>5, <1>7, <2>1, <2>2 DEF Leaves, log
<1>. QED BY <1>9, <1>10 DEF S, t

-----------------------------------------------------------------------------
(* Stacks of calls.                                                        *)

Stacks == [Workers -> Seq(Calls)]

\* The calls of a stack went on or returned, and none was entered.
Onward(s, t) ==
  t \in Seq(Calls) /\ \A i \in DOMAIN t : i \in DOMAIN s /\ Follows(s[i], t[i])

LEMMA FrontOf ==
  ASSUME NEW X, NEW s \in Seq(X), s # <<>>
  PROVE  /\ Len(s) \in Nat \ {0} /\ DOMAIN s = 1 .. Len(s)
         /\ Front(s) \in Seq(X) /\ Len(Front(s)) = Len(s) - 1
         /\ DOMAIN Front(s) = 1 .. Len(s) - 1
         /\ \A i \in 1 .. Len(s) - 1 : Front(s)[i] = s[i]
<1>. DEFINE n == Len(s) - 1
<1>1. Len(s) \in Nat \ {0} /\ DOMAIN s = 1 .. Len(s) /\ n \in Nat
      /\ \A i \in 1 .. n : s[i] \in X
  OBVIOUS
<1>. HIDE DEF n
<1>2. /\ SubSeq(s, 1, n) \in Seq(X)
      /\ Len(SubSeq(s, 1, n)) = IF 1 <= n THEN n - 1 + 1 ELSE 0
      /\ \A i \in 1 .. n - 1 + 1 : SubSeq(s, 1, n)[i] = s[1 + i - 1]
  BY <1>1, SubSeqProperties
<1>3. /\ Len(SubSeq(s, 1, n)) = n /\ DOMAIN SubSeq(s, 1, n) = 1 .. n
      /\ \A i \in 1 .. n : SubSeq(s, 1, n)[i] = s[i]
  BY <1>1, <1>2
<1>. QED BY <1>1, <1>2, <1>3 DEF Front, n

LEMMA OnwardTop ==
  ASSUME NEW s \in Seq(Calls), s # <<>>, NEW g \in Calls, Follows(Last(s), g)
  PROVE  Onward(s, Append(Front(s), g))
<1>. DEFINE t == Append(Front(s), g)
<1>1. Len(s) \in Nat \ {0} /\ DOMAIN s = 1 .. Len(s) /\ Front(s) \in Seq(Calls)
      /\ Len(Front(s)) = Len(s) - 1 /\ \A i \in 1 .. Len(s) - 1 : Front(s)[i] = s[i]
  BY FrontOf
<1>2. /\ t \in Seq(Calls) /\ DOMAIN t = 1 .. Len(s) /\ t[Len(s)] = g
      /\ \A i \in 1 .. Len(s) - 1 : t[i] = s[i]
  <2>. DEFINE u == Front(s)
  <2>0. u \in Seq(Calls)
    BY <1>1
  <2>. HIDE DEF u
  <2>1. /\ Append(u, g) \in Seq(Calls) /\ DOMAIN Append(u, g) = 1 .. Len(u) + 1
        /\ Append(u, g)[Len(u) + 1] = g /\ \A i \in 1 .. Len(u) : Append(u, g)[i] = u[i]
    BY <2>0
  <2>2. Len(u) + 1 = Len(s) /\ Len(u) = Len(s) - 1
    BY <1>1 DEF u
  <2>. QED BY <1>1, <2>1, <2>2 DEF u
<1>. HIDE DEF t
<1>3. ASSUME NEW i \in DOMAIN t PROVE i \in DOMAIN s /\ Follows(s[i], t[i])
  <2>1. CASE i = Len(s)
    BY <1>1, <1>2, <2>1 DEF Last
  <2>2. CASE i # Len(s)
    BY <1>1, <1>2, <2>2 DEF Follows
  <2>. QED BY <2>1, <2>2
<1>. QED BY <1>2, <1>3 DEF Onward, t

LEMMA OnwardReturn ==
  ASSUME UniqueIds, NEW s \in Seq(Calls), Len(s) > 1, NEW r \in {"ok", "error"}
  PROVE  LET caller == s[Len(s) - 1]
         IN Onward(s, Append(Front(Front(s)), [caller EXCEPT !.result = r]))
<1>. DEFINE f == s[Len(s) - 1]
            g == [f EXCEPT !.result = r]
<1>1. /\ Len(s) \in Nat /\ DOMAIN s = 1 .. Len(s) /\ f \in Calls
      /\ Front(s) \in Seq(Calls) /\ Len(Front(s)) = Len(s) - 1 /\ Front(s) # <<>>
      /\ \A i \in 1 .. Len(s) - 1 : Front(s)[i] = s[i]
  <2>1. s # <<>> /\ Len(s) \in Nat /\ Len(s) - 1 \in DOMAIN s
    OBVIOUS
  <2>2. Front(s) # <<>>
    BY <2>1, FrontOf
  <2>. QED BY <2>1, <2>2, FrontOf
<1>2. Last(Front(s)) = f
  BY <1>1 DEF Last
<1>3. g \in Calls /\ Follows(f, g)
  BY <1>1, EndedCall
<1>. HIDE DEF f, g
<1>4. Onward(Front(s), Append(Front(Front(s)), g))
  BY <1>1, <1>2, <1>3, OnwardTop
<1>5. DOMAIN Front(s) = 1 .. Len(s) - 1
  BY <1>1
<1>6. Onward(s, Append(Front(Front(s)), g))
  BY <1>1, <1>4, <1>5 DEF Onward
<1>. QED BY <1>6 DEF f, g

LEMMA OnwardEmpty ==
  ASSUME NEW s PROVE Onward(s, <<>>)
BY DEF Onward

\* The attempts of a node that calls of its workflow have before them.
Pending(st, flow, n) ==
  {p \in Workers \X Nat : /\ p[2] \in DOMAIN st[p[1]]
                          /\ st[p[1]][p[2]].flow = flow /\ Open(st[p[1]][p[2]], n)}

LEMMA PendingShrinks ==
  ASSUME NEW st \in Stacks, NEW w \in Workers, NEW t, Onward(st[w], t),
         NEW flow \in Flows, NEW n \in NodeIds(flow), IsNonIdempotent(flow, n)
  PROVE  /\ [st EXCEPT ![w] = t] \in Stacks
         /\ Pending([st EXCEPT ![w] = t], flow, n) \subseteq Pending(st, flow, n)
<1>. DEFINE ts == [st EXCEPT ![w] = t]
<1>1. ts \in Stacks /\ ts[w] = t /\ \A v \in Workers \ {w} : ts[v] = st[v]
  BY DEF Stacks, Onward
<1>. HIDE DEF ts
<1>2. ASSUME NEW p \in Pending(ts, flow, n) PROVE p \in Pending(st, flow, n)
  <2>1. p[1] \in Workers /\ p[2] \in DOMAIN ts[p[1]] /\ p \in Workers \X Nat
        /\ ts[p[1]][p[2]].flow = flow /\ Open(ts[p[1]][p[2]], n)
    BY DEF Pending
  <2>2. CASE p[1] = w
    <3>1. p[2] \in DOMAIN st[w] /\ Follows(st[w][p[2]], t[p[2]])
      BY <1>1, <2>1, <2>2 DEF Onward
    <3>2. st[w][p[2]].flow = flow /\ Open(st[w][p[2]], n)
      BY <1>1, <2>1, <2>2, <3>1 DEF Follows
    <3>. QED BY <2>1, <2>2, <3>1, <3>2 DEF Pending
  <2>3. CASE p[1] # w
    BY <1>1, <2>1, <2>3 DEF Pending
  <2>. QED BY <2>2, <2>3
<1>. QED BY <1>1, <1>2 DEF ts

\* Each run of a workflow pays for one attempt of each node that must not be
\* repeated: those that had their effect and those still to come are no more
\* than the runs.
Budget ==
  \A flow \in Flows : \A n \in NodeIds(flow) :
    IsNonIdempotent(flow, n) =>
      /\ IsFiniteSet(Pending(stack, flow, n))
      /\ performed[flow][n] + Cardinality(Pending(stack, flow, n)) <= entered[flow]

RunsInv ==
  /\ root \in Flows
  /\ stack \in Stacks
  /\ entered \in [Flows -> Nat]
  /\ performed = [flow \in Flows |-> performed[flow]]
  /\ \A flow \in Flows : performed[flow] \in [NodeIds(flow) -> Nat]
  /\ Budget

LEMMA RunsGoOn ==
  ASSUME UniqueIds, RunsInv, NEW w \in Workers, NEW t, Onward(stack[w], t),
         stack' = [stack EXCEPT ![w] = t], UNCHANGED <<root, history>>
  PROVE  RunsInv'
<1>1. UNCHANGED <<root, performed, entered>>
  BY DEF history
<1>2. stack' \in Stacks
  BY DEF RunsInv, Stacks, Onward
<1>3. ASSUME NEW flow \in Flows, NEW n \in NodeIds(flow), IsNonIdempotent(flow, n)
      PROVE  /\ IsFiniteSet(Pending(stack', flow, n))
             /\ performed[flow][n] + Cardinality(Pending(stack', flow, n)) <= entered[flow]
  <2>1. Pending(stack', flow, n) \subseteq Pending(stack, flow, n)
    BY <1>3, PendingShrinks DEF RunsInv
  <2>2. IsFiniteSet(Pending(stack, flow, n))
        /\ performed[flow][n] + Cardinality(Pending(stack, flow, n)) <= entered[flow]
        /\ performed[flow][n] \in Nat /\ entered[flow] \in Nat
    BY <1>3 DEF RunsInv, Budget
  <2>3. /\ IsFiniteSet(Pending(stack', flow, n))
        /\ Cardinality(Pending(stack', flow, n)) <= Cardinality(Pending(stack, flow, n))
    BY <2>1, <2>2, FS_Subset
  <2>4. Cardinality(Pending(stack', flow, n)) \in Nat
        /\ Cardinality(Pending(stack, flow, n)) \in Nat
    BY <2>2, <2>3, FS_CardinalityType
  <2>. QED BY <2>2, <2>3, <2>4
<1>4. Budget'
  BY <1>1, <1>3 DEF Budget
<1>. QED BY <1>1, <1>2, <1>4 DEF RunsInv

LEMMA RunsEnter ==
  ASSUME UniqueIds, RunsInv, NEW w \in Workers, NEW called \in Flows, NEW depth \in Nat,
         EnterRun(w, called, depth), UNCHANGED <<root, performed>>
  PROVE  RunsInv'
<1>. DEFINE s == stack[w]
            new == NewFrame(called, depth)
            at == <<w, Len(s) + 1>>
<1>1. /\ stack \in Stacks /\ s \in Seq(Calls) /\ new \in Calls /\ new.flow = called
      /\ entered \in [Flows -> Nat]
  BY FirstCall DEF RunsInv, Stacks
<1>2. stack' = [stack EXCEPT ![w] = Append(s, new)]
      /\ entered' = [entered EXCEPT ![called] = entered[called] + 1]
  BY DEF EnterRun
<1>. HIDE DEF new
<1>3. /\ stack' \in Stacks /\ stack'[w] = Append(s, new)
      /\ \A v \in Workers \ {w} : stack'[v] = stack[v]
      /\ entered' \in [Flows -> Nat] /\ entered'[called] = entered[called] + 1
      /\ \A flow \in Flows \ {called} : entered'[flow] = entered[flow]
  BY <1>1, <1>2 DEF Stacks
<1>4. /\ Len(s) \in Nat /\ DOMAIN s = 1 .. Len(s)
      /\ DOMAIN Append(s, new) = 1 .. Len(s) + 1
      /\ Append(s, new)[Len(s) + 1] = new
      /\ \A i \in 1 .. Len(s) : Append(s, new)[i] = s[i]
  BY <1>1
<1>5. ASSUME NEW flow \in Flows, NEW n \in NodeIds(flow)
      PROVE  /\ flow = called => Pending(stack', flow, n) \subseteq Pending(stack, flow, n) \cup {at}
             /\ flow # called => Pending(stack', flow, n) \subseteq Pending(stack, flow, n)
  <2>. SUFFICES ASSUME NEW p \in Pending(stack', flow, n)
                PROVE  p \in Pending(stack, flow, n) \/ (flow = called /\ p = at)
    OBVIOUS
  <2>1. p \in Workers \X Nat /\ p[2] \in DOMAIN stack'[p[1]]
        /\ stack'[p[1]][p[2]].flow = flow /\ Open(stack'[p[1]][p[2]], n)
    BY DEF Pending
  <2>2. CASE p[1] # w
    BY <1>3, <2>1, <2>2 DEF Pending
  <2>3. CASE p[1] = w /\ p[2] = Len(s) + 1
    BY <1>1, <1>3, <1>4, <2>1, <2>3
  <2>4. CASE p[1] = w /\ p[2] # Len(s) + 1
    <3>1. p[2] \in DOMAIN s /\ stack'[p[1]][p[2]] = s[p[2]]
      BY <1>3, <1>4, <2>1, <2>4
    <3>. QED BY <2>1, <2>4, <3>1 DEF Pending
  <2>. QED BY <2>2, <2>3, <2>4
<1>6. ASSUME NEW flow \in Flows, NEW n \in NodeIds(flow), IsNonIdempotent(flow, n)
      PROVE  /\ IsFiniteSet(Pending(stack', flow, n))
             /\ performed[flow][n] + Cardinality(Pending(stack', flow, n)) <= entered'[flow]
  <2>. DEFINE old == Pending(stack, flow, n)
              now == Pending(stack', flow, n)
  <2>1. IsFiniteSet(old) /\ performed[flow][n] + Cardinality(old) <= entered[flow]
        /\ performed[flow][n] \in Nat /\ entered[flow] \in Nat
    BY <1>6 DEF RunsInv, Budget
  <2>2. Cardinality(old) \in Nat
    BY <2>1, FS_CardinalityType
  <2>3. CASE flow = called
    <3>1. IsFiniteSet(old \cup {at}) /\ Cardinality(old \cup {at}) <= Cardinality(old) + 1
          /\ Cardinality(old \cup {at}) \in Nat
      <4>1. /\ IsFiniteSet(old \cup {at})
            /\ \/ Cardinality(old \cup {at}) = Cardinality(old)
               \/ Cardinality(old \cup {at}) = Cardinality(old) + 1
        BY <2>1, FS_AddElement
      <4>. HIDE DEF old, at
      <4>. QED BY <2>2, <4>1
    <3>2. IsFiniteSet(now) /\ Cardinality(now) <= Cardinality(old \cup {at})
          /\ Cardinality(now) \in Nat
      BY <1>5, <2>3, <3>1, FS_Subset, FS_CardinalityType
    <3>. QED BY <1>3, <2>1, <2>2, <2>3, <3>1, <3>2
  <2>4. CASE flow # called
    <3>1. IsFiniteSet(now) /\ Cardinality(now) <= Cardinality(old) /\ Cardinality(now) \in Nat
      BY <1>5, <2>1, <2>4, FS_Subset, FS_CardinalityType
    <3>. QED BY <1>3, <2>1, <2>2, <2>4, <3>1
  <2>. QED BY <2>3, <2>4
<1>7. Budget'
  BY <1>6 DEF Budget
<1>. QED BY <1>3, <1>7 DEF RunsInv

-----------------------------------------------------------------------------
(* The steps of a worker.                                                  *)

LEMMA TopTyped ==
  ASSUME UniqueIds, RunsInv, NEW w \in Workers, Running(w)
  PROVE  /\ stack[w] \in Seq(Calls) /\ stack[w] # <<>> /\ Top(w) \in Calls
         /\ Len(stack[w]) \in DOMAIN stack[w] /\ Top(w) = stack[w][Len(stack[w])]
         /\ Top(w).flow \in Flows /\ Top(w) \in FrameOf(Top(w).flow)
<1>1. stack[w] \in Seq(Calls) /\ stack[w] # <<>>
  BY DEF RunsInv, Stacks, Running
<1>2. Len(stack[w]) \in DOMAIN stack[w] /\ Top(w) = stack[w][Len(stack[w])]
      /\ Top(w) \in Calls
  BY <1>1 DEF Top, Last
<1>. QED BY <1>1, <1>2, CallTyped

\* An attempt that had its effect takes one that was still to come.
LEMMA RunsPerform ==
  ASSUME UniqueIds, RunsInv, NEW w \in Workers, Perform(w)
  PROVE  RunsInv'
<1>. DEFINE f == Top(w)
            n == Node(Top(w))
            s == stack[w]
            spent == [performed EXCEPT ![f.flow][n] = @ + 1]
<1>1. Running(w) /\ ~Over(f) /\ n \in NodeIds(f.flow) /\ f.result = "none"
      /\ UNCHANGED <<root, entered>>
  BY DEF Perform, Due, Inner
<1>2. PICK r \in Results(Kind(f.flow, n), clock[w]) :
        /\ SetTop(w, [f EXCEPT !.result = r])
        /\ performed' = performed \/ (IsNonIdempotent(f.flow, n) /\ performed' = spent)
  BY DEF Perform
<1>3. r \in {"ok", "error"}
  BY DEF Results
<1>. DEFINE g == [f EXCEPT !.result = r]
            t == Append(Front(s), g)
<1>4. /\ s \in Seq(Calls) /\ s # <<>> /\ f \in Calls /\ Len(s) \in DOMAIN s
      /\ f = s[Len(s)] /\ f.flow \in Flows
      /\ f.at \in DOMAIN f.order /\ n = f.order[f.at] /\ f.at \in Nat
  BY <1>1, TopTyped, CallTyped
<1>5. g \in Calls /\ Follows(f, g) /\ ~Open(g, n)
  BY <1>1, <1>3, <1>4, EndedCall
<1>6. Open(f, n)
  BY <1>1, <1>4 DEF Open
<1>7. stack' = [stack EXCEPT ![w] = t]
  BY <1>2 DEF SetTop
<1>. HIDE DEF g, f, n, spent
<1>8. Onward(s, t)
  BY <1>4, <1>5, OnwardTop DEF Last
<1>9. CASE performed' = performed
  BY <1>1, <1>7, <1>8, <1>9, RunsGoOn DEF history
<1>10. CASE IsNonIdempotent(f.flow, n) /\ performed' = spent
  <2>. DEFINE old == Pending(stack, f.flow, n)
              now == Pending(stack', f.flow, n)
              place == <<w, Len(s)>>
  <2>1. stack \in Stacks /\ stack' \in Stacks
    BY <1>7, <1>8 DEF RunsInv, Stacks, Onward
  <2>2. \A flow \in Flows : \A m \in NodeIds(flow) :
          IsNonIdempotent(flow, m) => Pending(stack', flow, m) \subseteq Pending(stack, flow, m)
    BY <1>7, <1>8, PendingShrinks DEF RunsInv
  <2>3. place \in old
    BY <1>4, <1>6 DEF Pending
  <2>4. place \notin now
    <3>1. stack'[w] = t /\ t \in Seq(Calls)
      BY <1>7, <1>8 DEF RunsInv, Stacks, Onward
    <3>2. t[Len(s)] = g
      <4>. DEFINE u == Front(s)
      <4>1. u \in Seq(Calls) /\ Len(u) + 1 = Len(s)
        BY <1>4, FrontOf
      <4>. HIDE DEF u
      <4>2. Append(u, g)[Len(u) + 1] = g
        BY <4>1
      <4>. QED BY <4>1, <4>2 DEF u
    <3>. QED BY <1>5, <3>1, <3>2 DEF Pending
  <2>5. now \subseteq old \ {place}
    BY <1>1, <1>4, <1>10, <2>2, <2>4 DEF f, n
  <2>6. /\ performed[f.flow] \in [NodeIds(f.flow) -> Nat] /\ n \in NodeIds(f.flow)
        /\ \A flow \in Flows : performed[flow] \in [NodeIds(flow) -> Nat]
        /\ performed = [flow \in Flows |-> performed[flow]]
        /\ entered \in [Flows -> Nat]
    BY <1>1, <1>4 DEF RunsInv, f, n
  <2>7. /\ performed' = [flow \in Flows |-> performed'[flow]]
        /\ \A flow \in Flows : performed'[flow] \in [NodeIds(flow) -> Nat]
        /\ \A flow \in Flows \ {f.flow} : performed'[flow] = performed[flow]
        /\ \A m \in NodeIds(f.flow) \ {n} : performed'[f.flow][m] = performed[f.flow][m]
        /\ performed'[f.flow][n] = performed[f.flow][n] + 1
    <3>1. performed' = [performed EXCEPT ![f.flow] = [performed[f.flow] EXCEPT ![n] = @ + 1]]
      BY <1>10 DEF spent
    <3>2. performed' = [flow \in Flows |->
                          IF flow = f.flow THEN [performed[f.flow] EXCEPT ![n] = @ + 1]
                          ELSE performed[flow]]
      BY <1>4, <2>6, <3>1
    <3>3. [performed[f.flow] EXCEPT ![n] = @ + 1] \in [NodeIds(f.flow) -> Nat]
          /\ [performed[f.flow] EXCEPT ![n] = @ + 1][n] = performed[f.flow][n] + 1
          /\ \A m \in NodeIds(f.flow) \ {n} :
               [performed[f.flow] EXCEPT ![n] = @ + 1][m] = performed[f.flow][m]
      BY <2>6
    <3>. QED BY <1>4, <2>6, <3>2, <3>3
  <2>8. ASSUME NEW flow \in Flows, NEW m \in NodeIds(flow), IsNonIdempotent(flow, m)
        PROVE  /\ IsFiniteSet(Pending(stack', flow, m))
               /\ performed'[flow][m] + Cardinality(Pending(stack', flow, m)) <= entered[flow]
    <3>1. /\ IsFiniteSet(Pending(stack, flow, m))
          /\ performed[flow][m] + Cardinality(Pending(stack, flow, m)) <= entered[flow]
          /\ performed[flow][m] \in Nat /\ entered[flow] \in Nat
          /\ Cardinality(Pending(stack, flow, m)) \in Nat
      BY <2>8, FS_CardinalityType DEF RunsInv, Budget
    <3>2. Pending(stack', flow, m) \subseteq Pending(stack, flow, m)
      BY <2>2, <2>8
    <3>3. /\ IsFiniteSet(Pending(stack', flow, m))
          /\ Cardinality(Pending(stack', flow, m)) \in Nat
          /\ Cardinality(Pending(stack', flow, m)) <= Cardinality(Pending(stack, flow, m))
      BY <3>1, <3>2, FS_Subset, FS_CardinalityType
    <3>4. CASE flow = f.flow /\ m = n
      <4>1. /\ IsFiniteSet(old \ {place}) /\ Cardinality(old \ {place}) = Cardinality(old) - 1
        BY <2>3, <3>1, <3>4, FS_RemoveElement
      <4>2. Cardinality(now) <= Cardinality(old \ {place})
        BY <2>5, <4>1, FS_Subset
      <4>. HIDE DEF old, now, place
      <4>3. Cardinality(old) \in Nat /\ Cardinality(now) \in Nat
            /\ performed[f.flow][n] + Cardinality(old) <= entered[f.flow]
            /\ performed[f.flow][n] \in Nat /\ entered[f.flow] \in Nat
        BY <3>1, <3>3, <3>4 DEF old, now
      <4>4. performed'[f.flow][n] + Cardinality(now) <= entered[f.flow]
        <5>1. performed'[f.flow][n] = performed[f.flow][n] + 1
          BY <2>7
        <5>. QED BY <4>1, <4>2, <4>3, <5>1
      <4>. QED BY <3>3, <3>4, <4>4 DEF now
    <3>5. CASE ~(flow = f.flow /\ m = n)
      <4>1. performed'[flow][m] = performed[flow][m]
        BY <2>7, <3>5
      <4>. QED BY <3>1, <3>3, <4>1
    <3>. QED BY <3>4, <3>5
  <2>9. Budget'
    BY <1>1, <2>8 DEF Budget
  <2>. QED BY <1>1, <2>1, <2>6, <2>7, <2>9 DEF RunsInv
<1>. QED BY <1>2, <1>9, <1>10

LEMMA RunsReturn ==
  ASSUME UniqueIds, RunsInv, NEW w \in Workers, Running(w), NEW r \in {"ok", "error"},
         Return(w, r), UNCHANGED <<root, history>>
  PROVE  RunsInv'
<1>1. stack[w] \in Seq(Calls)
  BY TopTyped
<1>2. CASE stack' = [stack EXCEPT ![w] = <<>>]
  BY <1>2, OnwardEmpty, RunsGoOn
<1>3. CASE Len(stack[w]) > 1 /\ stack' = [stack EXCEPT ![w] =
             Append(Front(Front(stack[w])),
                    [stack[w][Len(stack[w]) - 1] EXCEPT !.result = r])]
  BY <1>1, <1>3, OnwardReturn, RunsGoOn
<1>. QED BY <1>2, <1>3 DEF Return

LEMMA RunsTop ==
  ASSUME UniqueIds, RunsInv, NEW w \in Workers, Running(w), NEW g \in Calls,
         Follows(Top(w), g), SetTop(w, g), UNCHANGED <<root, history>>
  PROVE  RunsInv'
<1>1. stack[w] \in Seq(Calls) /\ stack[w] # <<>>
  BY TopTyped
<1>2. Onward(stack[w], Append(Front(stack[w]), g))
  BY <1>1, OnwardTop DEF Top
<1>. QED BY <1>2, RunsGoOn DEF SetTop

LEMMA RunsNode ==
  ASSUME UniqueIds, RunsInv, NEW w \in Workers, NodeStep(w)
  PROVE  RunsInv'
<1>. DEFINE f == Top(w)
            n == Node(Top(w))
<1>0. ASSUME Running(w)
      PROVE  /\ f \in Calls /\ f.flow \in Flows /\ f \in FrameOf(f.flow)
             /\ f.log \in [NodeIds(f.flow) -> {"todo", "completed", "failed", "skipped"}]
             /\ f.skipped \in SUBSET Marks(f.flow)
  BY <1>0, TopTyped DEF FrameOf
<1>1. CASE PassUnknown(w)
  <2>1. Running(w) /\ ~Over(f) /\ n \notin NodeIds(f.flow) /\ SetTop(w, Advance(f))
        /\ UNCHANGED <<root, history>>
    BY <1>1 DEF PassUnknown, Inner
  <2>2. Advance(f) \in Calls /\ Follows(f, Advance(f))
    BY <1>0, <2>1, LeftCall
  <2>. QED BY <2>1, <2>2, RunsTop
<1>2. CASE SkipNode(w)
  <2>. DEFINE h == [f EXCEPT !.skipped = @ \cup {n}, !.log[n] = "skipped"]
  <2>1. Running(w) /\ ~Over(f) /\ n \in NodeIds(f.flow) /\ SetTop(w, Advance(h))
        /\ UNCHANGED <<root, history>>
    BY <1>2 DEF SkipNode, Inner
  <2>2. n \in Marks(f.flow)
    BY <2>1, MarksOf
  <2>3. f.skipped \cup {n} \in SUBSET Marks(f.flow)
    BY <1>0, <2>1, <2>2
  <2>4. h = [f EXCEPT !.skipped = f.skipped \cup {n}, !.log = [f.log EXCEPT ![n] = "skipped"]]
    OBVIOUS
  <2>5. h \in FrameOf(f.flow) /\ h.at = f.at /\ h.log = [f.log EXCEPT ![n] = "skipped"]
    BY <1>0, <2>1, <2>3, <2>4 DEF FrameOf
  <2>6. Advance(h) \in Calls /\ Follows(f, Advance(h))
    BY <1>0, <2>1, <2>5, LeftCall
  <2>. QED BY <2>1, <2>6, RunsTop
<1>3. CASE Perform(w)
  BY <1>3, RunsPerform
<1>4. CASE EnterSub(w)
  <2>. DEFINE called == Conf(f.flow, n).workflow
  <2>1. Running(w) /\ n \in NodeIds(f.flow) /\ Kind(f.flow, n) = "execute_sub_workflow"
        /\ EnterRun(w, called, Depth(f) + 1) /\ UNCHANGED <<root, performed>>
    BY <1>4 DEF EnterSub, Due, Inner, Kind
  <2>2. called \in Flows /\ Depth(f) + 1 \in Nat
    BY <1>0, <2>1, DefinitionsAssumption DEF Depth
  <2>. QED BY <2>1, <2>2, RunsEnter
<1>5. CASE SubRefused(w)
  <2>1. Running(w) /\ SetTop(w, [f EXCEPT !.result = "error"]) /\ UNCHANGED <<root, history>>
    BY <1>5 DEF SubRefused, Due, Inner
  <2>2. [f EXCEPT !.result = "error"] \in Calls /\ Follows(f, [f EXCEPT !.result = "error"])
    BY <1>0, <2>1, EndedCall
  <2>. QED BY <2>1, <2>2, RunsTop
<1>6. CASE CompleteNode(w)
  <2>1. Running(w) /\ ~Over(f) /\ n \in NodeIds(f.flow) /\ UNCHANGED <<root, history>>
    BY <1>6 DEF CompleteNode, Due, Inner
  <2>2. PICK skip \in SkipChoices(f.flow, n) :
          SetTop(w, Advance(Ask([f EXCEPT !.log[n] = "completed"], skip)))
    BY <1>6 DEF CompleteNode
  <2>. DEFINE g == Advance(Ask([f EXCEPT !.log[n] = "completed"], skip))
  <2>3. g \in Calls /\ Follows(f, g)
    BY <1>0, <2>1, CompletedCall
  <2>. HIDE DEF g
  <2>. QED BY <2>1, <2>2, <2>3, RunsTop DEF g
<1>7. CASE Retry(w)
  <2>1. Running(w) /\ ~Over(f) /\ AttemptsLeft(f) /\ UNCHANGED <<root, history>>
        /\ SetTop(w, [f EXCEPT !.attempt = @ + 1, !.result = "none"])
    BY <1>7 DEF Retry, Due, Inner
  <2>. DEFINE g == [f EXCEPT !.attempt = @ + 1, !.result = "none"]
  <2>2. g \in Calls /\ Follows(f, g)
    BY <1>0, <2>1, RetriedCall
  <2>. QED BY <2>1, <2>2, RunsTop
<1>8. CASE Catch(w)
  <2>. DEFINE g == Advance(CatchSkips([f EXCEPT !.log[n] = "failed"], n))
  <2>1. Running(w) /\ ~Over(f) /\ n \in NodeIds(f.flow) /\ UNCHANGED <<root, history>>
        /\ SetTop(w, g)
    BY <1>8 DEF Catch, Failed, Due, Inner
  <2>2. g \in Calls /\ Follows(f, g)
    BY <1>0, <2>1, CaughtCall
  <2>. HIDE DEF g
  <2>. QED BY <2>1, <2>2, RunsTop
<1>9. CASE Abort(w)
  <2>1. Running(w) /\ Return(w, "error") /\ UNCHANGED <<root, history>>
    BY <1>9 DEF Abort, Failed, Due, Inner
  <2>. QED BY <2>1, RunsReturn
<1>10. CASE EndRun(w)
  <2>1. Running(w) /\ Return(w, "ok") /\ UNCHANGED <<root, history>>
    BY <1>10 DEF EndRun, Inner
  <2>. QED BY <2>1, RunsReturn
<1>. QED BY <1>1, <1>2, <1>3, <1>4, <1>5, <1>6, <1>7, <1>8, <1>9, <1>10 DEF NodeStep

LEMMA RunsInit ==
  ASSUME UniqueIds, Init
  PROVE  RunsInv
<1>1. root \in Flows
  BY RunsAssumption DEF Init
<1>2. stack = [w \in Workers |-> <<>>] /\ stack \in Stacks
  BY DEF Init, Stacks
<1>3. ASSUME NEW flow \in Flows, NEW n \in NodeIds(flow)
      PROVE  /\ Pending(stack, flow, n) = {} /\ performed[flow][n] = 0 /\ entered[flow] = 0
  BY <1>2 DEF Pending, Init
<1>4. Budget
  BY <1>3, FS_EmptySet DEF Budget
<1>5. /\ entered \in [Flows -> Nat]
      /\ performed = [flow \in Flows |-> performed[flow]]
      /\ \A flow \in Flows : performed[flow] \in [NodeIds(flow) -> Nat]
  BY DEF Init
<1>. QED BY <1>1, <1>2, <1>4, <1>5 DEF RunsInv

LEMMA RunsSame ==
  ASSUME RunsInv, UNCHANGED <<root, stack, history>>
  PROVE  RunsInv'
BY DEF RunsInv, Budget, history

LEMMA RunsReset ==
  ASSUME UniqueIds, RunsInv, NEW w \in Workers, Reset(w), UNCHANGED <<root, history>>
  PROVE  RunsInv'
<1>1. stack' = [stack EXCEPT ![w] = <<>>]
  BY DEF Reset
<1>. QED BY <1>1, OnwardEmpty, RunsGoOn

LEMMA RunsStep ==
  ASSUME UniqueIds, RunsInv, [Next]_vars
  PROVE  RunsInv'
<1>1. CASE Execute \/ ExecutePushFails \/ ReapDead \/ ReapLive
  BY <1>1, RunsSame DEF Execute, ExecutePushFails, ReapDead, ReapLive, worker
<1>2. ASSUME NEW w \in Workers, WorkerStep(w) PROVE RunsInv'
  <2>1. CASE Take(w) \/ Record(w)
    BY <2>1, RunsSame DEF Take, Record
  <2>2. CASE Begin(w)
    <3>1. root \in Flows /\ EnterRun(w, root, 0) /\ UNCHANGED <<root, performed>>
      BY <2>2 DEF Begin, RunsInv
    <3>. QED BY <3>1, RunsEnter
  <2>3. CASE NodeStep(w)
    BY <2>3, RunsNode
  <2>4. CASE AckJob(w) \/ NackJob(w)
    BY <2>4, RunsReset DEF AckJob, NackJob
  <2>. QED BY <1>2, <2>1, <2>2, <2>3, <2>4 DEF WorkerStep
<1>3. ASSUME NEW w \in Workers, FaultStep(w) PROVE RunsInv'
  <2>1. CASE LoadFails(w) \/ RecordFails(w) \/ Expire(w) \/ Shutdown(w)
    BY <2>1, RunsSame DEF LoadFails, RecordFails, Expire, Shutdown
  <2>2. CASE BeginUnmarked(w)
    <3>1. root \in Flows /\ EnterRun(w, root, 0) /\ UNCHANGED <<root, performed>>
      BY <2>2 DEF BeginUnmarked, RunsInv
    <3>. QED BY <3>1, RunsEnter
  <2>3. CASE Crash(w)
    BY <2>3, RunsReset DEF Crash
  <2>. QED BY <1>3, <2>1, <2>2, <2>3 DEF FaultStep
<1>4. CASE UNCHANGED vars
  BY <1>4, RunsSame DEF vars, worker
<1>. QED BY <1>1, <1>2, <1>3, <1>4 DEF Next

LEMMA RunsAlways == UniqueIds => (Spec => []RunsInv)
<1>. SUFFICES ASSUME UniqueIds PROVE Spec => []RunsInv
  OBVIOUS
<1>1. Init => RunsInv
  BY RunsInit
<1>2. RunsInv /\ [Next]_vars => RunsInv'
  BY RunsStep
<1>. QED BY <1>1, <1>2, PTL DEF Spec

\* Whatever the definitions, if each lists a node id once: the attempts that had
\* an effect are no more than the runs that were entered, because only a fresh
\* run opens such a node, and the attempt that has the effect closes it
\* (engine.go: executeNode, isNonIdempotent).
THEOREM EffectsOncePerRunTheorem == UniqueIds => (Spec => []EffectsOncePerRun)
<1>. SUFFICES ASSUME UniqueIds PROVE Spec => []EffectsOncePerRun
  OBVIOUS
<1>1. RunsInv => EffectsOncePerRun
  <2>. SUFFICES ASSUME RunsInv, NEW flow \in Flows, NEW n \in NodeIds(flow),
                       IsNonIdempotent(flow, n)
                PROVE  performed[flow][n] <= entered[flow]
    BY DEF EffectsOncePerRun
  <2>1. /\ IsFiniteSet(Pending(stack, flow, n))
        /\ performed[flow][n] + Cardinality(Pending(stack, flow, n)) <= entered[flow]
        /\ performed[flow][n] \in Nat /\ entered[flow] \in Nat
    BY DEF RunsInv, Budget
  <2>2. Cardinality(Pending(stack, flow, n)) \in Nat
    BY <2>1, FS_CardinalityType
  <2>. QED BY <2>1, <2>2
<1>. QED BY <1>1, RunsAlways, PTL

\* Whatever the definitions, if each lists a node id once: a call decides the
\* nodes in the order of topoSort, and that order puts a node behind all nodes
\* with an edge into it when the graph has no cycle and its edges name nodes
\* (engine.go: topoSort, RunWorkflow).
THEOREM DependenciesFirstTheorem == UniqueIds => (Spec => []DependenciesFirst)
<1>. SUFFICES ASSUME UniqueIds PROVE Spec => []DependenciesFirst
  OBVIOUS
<1>1. RunsInv => DependenciesFirst
  <2>. SUFFICES ASSUME RunsInv, NEW f \in Frames, Clean(f.flow), NEW e \in Edges(f.flow),
                       f.log[e[1]] = "todo"
                PROVE  f.log[e[2]] = "todo"
    BY DEF DependenciesFirst
  <2>1. f \in Calls
    <3>1. PICK w \in Workers : f \in ToSet(stack[w])
      BY DEF Frames
    <3>. QED BY <3>1 DEF RunsInv, Stacks, ToSet
  <2>2. /\ f.flow \in Flows /\ Logged(f) /\ f.order = TopoSort(f.flow)
        /\ DOMAIN f.order = 1 .. Len(f.order) /\ Len(f.order) \in Nat
        /\ f.at \in Nat /\ Distinct(f.order)
    BY <2>1, CallTyped
  <2>3. e[1] \in NodeIds(f.flow) /\ e[2] \in NodeIds(f.flow)
    BY DEF Clean, KnownEdges
  <2>4. NodeIds(f.flow) \subseteq ToSet(f.order)
    BY <2>2, OrderDistinct DEF UniqueIds
  <2>5. PICK k \in DOMAIN f.order : f.order[k] = e[2]
    BY <2>3, <2>4 DEF ToSet
  <2>6. Sorted(f.flow, f.order)
    BY <2>2, OrderSorted DEF UniqueIds
  <2>7. PICK j \in 1 .. k - 1 : f.order[j] = e[1]
    BY <2>5, <2>6 DEF Sorted
  <2>8. j \in DOMAIN f.order /\ j \in Nat /\ k \in Nat /\ j < k
    BY <2>2, <2>5, <2>7
  <2>9. j >= f.at
    BY <2>2, <2>3, <2>7, <2>8 DEF Logged
  <2>10. k >= f.at
    BY <2>2, <2>8, <2>9
  <2>. QED BY <2>2, <2>3, <2>5, <2>10 DEF Logged
<1>. QED BY <1>1, RunsAlways, PTL

-----------------------------------------------------------------------------
(* What is asked to be skipped, what becomes of it, and what handles a      *)
(* failure.                                                                *)

\* The nodes that were run.
Ran(f) == {m \in NodeIds(f.flow) : f.log[m] \in {"completed", "failed"}}

Into(flow, m) == {e \in Edges(flow) : e[2] = m}

\* No path comes along an edge from a node that was skipped, or was asked for
\* after it had run.
Closed(f, e) == e \in f.cut \/ (e[1] \in NodeIds(f.flow) /\ f.log[e[1]] = "skipped")

Pruned(f, m) ==
  \/ m \in f.seeded
  \/ Into(f.flow, m) # {} /\ \A e \in Into(f.flow, m) : Closed(f, e)

\* What skipped holds of the nodes that matter to the rest of the run, in terms
\* of what was asked for and what became of the nodes decided so far.
Recorded(f) ==
  /\ \A m \in Todo(f) : m \in f.skipped <=> m \in f.seeded
  /\ \A e \in Edges(f.flow) : e[2] \in Todo(f) =>
       IF e[1] \in Todo(f) THEN e \notin f.cut
       ELSE e[1] \in f.skipped <=> Closed(f, e)
  /\ \A m \in NodeIds(f.flow) \ Todo(f) : f.log[m] = "skipped" <=> Pruned(f, m)

\* A node that failed had its handler un-skipped, and only nodes that ran since
\* may have asked to skip it again.
HandlerFree(f) ==
  \A n \in NodeIds(f.flow) :
    /\ f.log[n] = "failed" /\ CatchTarget(f.flow, n) \in Todo(f)
    /\ \A m \in Ran(f) : MayAsk(f.flow, m, CatchTarget(f.flow, n)) => ~Before(f, n, m)
    => CatchTarget(f.flow, n) \notin f.skipped

\* A node that ran was not to be skipped then, and only nodes that ran since
\* may have asked for it.
RanFree(f) ==
  \A s \in Ran(f) :
    (\A m \in Ran(f) : MayAsk(f.flow, m, s) => Before(f, m, s)) => s \notin f.skipped

\* What is left of the group of a node that failed is skipped, but for handlers.
MatesSkipped(f) ==
  \A n \in NodeIds(f.flow) : f.log[n] = "failed" =>
    \A m \in (GroupMates(f.flow, n) \cap NodeIds(f.flow)) \ Handlers(f.flow) :
      Before(f, n, m) =>
        IF m \in Todo(f) THEN m \in f.skipped ELSE f.log[m] = "skipped"

\* The handlers of CaughtIsHandled.
HandlersRun(f) ==
  \A n \in NodeIds(f.flow) :
    f.log[n] = "failed" /\ Sheltered(f, n) => f.log[CatchTarget(f.flow, n)] # "skipped"

Sane(f) ==
  /\ HandlerFree(f) /\ RanFree(f) /\ MatesSkipped(f)
  /\ Ordered(f) /\ InTime(f) => Recorded(f) /\ HandlersRun(f)

\* A call that has another above it, or the result of an attempt, is at a node
\* that is to run.
Engaged(f) == ~Over(f) /\ Node(f) \in NodeIds(f.flow) /\ ~Dead(f)

SaneStack(s) ==
  \A i \in DOMAIN s :
    Sane(s[i]) /\ (i < Len(s) \/ s[i].result # "none" => Engaged(s[i]))

-----------------------------------------------------------------------------
(* The order and the log.                                                  *)

LEMMA BeforeOnce ==
  ASSUME UniqueIds, NEW f \in Calls, NEW a, NEW b, Before(f, a, b)
  PROVE  a # b /\ ~Before(f, b, a)
<1>1. Distinct(f.order) /\ DOMAIN f.order = 1 .. Len(f.order) /\ Len(f.order) \in Nat
  BY CallTyped
<1>2. PICK i, j \in DOMAIN f.order : i < j /\ f.order[i] = a /\ f.order[j] = b
  BY DEF Before
<1>3. ASSUME NEW k \in DOMAIN f.order, NEW l \in DOMAIN f.order,
             f.order[k] = b, f.order[l] = a
      PROVE  ~(k < l)
  <2>1. k = j /\ l = i
    BY <1>1, <1>2, <1>3 DEF Distinct
  <2>. QED BY <1>1, <1>2, <2>1
<1>4. a # b
  BY <1>1, <1>2 DEF Distinct
<1>. QED BY <1>3, <1>4 DEF Before

\* The nodes still to do are a tail of the order.
LEMMA BeforeTodo ==
  ASSUME UniqueIds, NEW f \in Calls, NEW a \in NodeIds(f.flow), NEW b \in NodeIds(f.flow),
         Before(f, a, b), a \in Todo(f)
  PROVE  b \in Todo(f)
<1>1. Logged(f) /\ f.at \in Nat /\ DOMAIN f.order = 1 .. Len(f.order) /\ Len(f.order) \in Nat
  BY CallTyped
<1>2. PICK i, j \in DOMAIN f.order : i < j /\ f.order[i] = a /\ f.order[j] = b
  BY DEF Before
<1>3. i >= f.at
  BY <1>1, <1>2 DEF Logged, Todo
<1>4. j >= f.at
  BY <1>1, <1>2, <1>3
<1>. QED BY <1>1, <1>2, <1>4 DEF Logged, Todo

\* The current node is the first of them.
LEMMA NodeFirst ==
  ASSUME UniqueIds, NEW f \in Calls, ~Over(f), Node(f) \in NodeIds(f.flow)
  PROVE  /\ Node(f) \in Todo(f)
         /\ \A m \in NodeIds(f.flow) : Before(f, m, Node(f)) => m \notin Todo(f)
         /\ \A m \in NodeIds(f.flow) : Before(f, Node(f), m) => m \in Todo(f)
         /\ \A m \in NodeIds(f.flow) \ Todo(f) : Before(f, m, Node(f))
<1>1. /\ Logged(f) /\ f.at \in Nat /\ DOMAIN f.order = 1 .. Len(f.order)
      /\ Len(f.order) \in Nat /\ f.at \in DOMAIN f.order /\ Node(f) = f.order[f.at]
      /\ Distinct(f.order) /\ f.order = TopoSort(f.flow) /\ f.flow \in Flows
  BY CallTyped
<1>2. Node(f) \in Todo(f)
  BY <1>1 DEF Logged, Todo
<1>3. ASSUME NEW m \in NodeIds(f.flow), Before(f, m, Node(f)) PROVE m \notin Todo(f)
  <2>1. PICK i, j \in DOMAIN f.order : i < j /\ f.order[i] = m /\ f.order[j] = Node(f)
    BY <1>3 DEF Before
  <2>2. j = f.at
    BY <1>1, <2>1 DEF Distinct
  <2>3. ~(i >= f.at)
    BY <1>1, <2>1, <2>2
  <2>. QED BY <1>1, <2>1, <2>3 DEF Logged, Todo
<1>4. ASSUME NEW m \in NodeIds(f.flow) \ Todo(f) PROVE Before(f, m, Node(f))
  <2>1. NodeIds(f.flow) \subseteq ToSet(f.order)
    BY <1>1, OrderDistinct DEF UniqueIds
  <2>2. PICK i \in DOMAIN f.order : f.order[i] = m
    BY <2>1 DEF ToSet
  <2>3. ~(i >= f.at)
    BY <1>1, <2>2 DEF Logged, Todo
  <2>4. i < f.at
    BY <1>1, <2>2, <2>3
  <2>. QED BY <1>1, <2>2, <2>4 DEF Before
<1>5. ASSUME NEW m \in NodeIds(f.flow), Before(f, Node(f), m) PROVE m \in Todo(f)
  BY <1>2, <1>5, BeforeTodo
<1>. QED BY <1>2, <1>3, <1>4, <1>5

LEMMA LogTyped ==
  ASSUME UniqueIds, NEW f \in Calls
  PROVE  /\ f.log \in [NodeIds(f.flow) -> {"todo", "completed", "failed", "skipped"}]
         /\ \A m \in NodeIds(f.flow) : m \in Todo(f) <=> f.log[m] = "todo"
         /\ \A m \in NodeIds(f.flow) : m \in Ran(f) <=> f.log[m] \in {"completed", "failed"}
         /\ \A m \in NodeIds(f.flow) \ Todo(f) : m \in Ran(f) <=> f.log[m] # "skipped"
         /\ Todo(f) \subseteq NodeIds(f.flow) /\ Ran(f) \subseteq NodeIds(f.flow)
         /\ f.seeded \subseteq NodeIds(f.flow) /\ f.cut \subseteq Edges(f.flow)
<1>1. f \in FrameOf(f.flow)
  BY CallTyped
<1>2. /\ f.log \in [NodeIds(f.flow) -> {"todo", "completed", "failed", "skipped"}]
      /\ f.seeded \subseteq NodeIds(f.flow) /\ f.cut \subseteq Edges(f.flow)
  BY <1>1 DEF FrameOf
<1>. QED BY <1>2 DEF Todo, Ran

\* How the sets change when the current node gets its line.
LEMMA LineTyped ==
  ASSUME UniqueIds, NEW f \in Calls, ~Over(f), Node(f) \in NodeIds(f.flow),
         NEW line \in {"completed", "failed", "skipped"},
         NEW g \in Calls, g.flow = f.flow, g.log = [f.log EXCEPT ![Node(f)] = line]
  PROVE  /\ g.log[Node(f)] = line
         /\ \A m \in NodeIds(f.flow) \ {Node(f)} : g.log[m] = f.log[m]
         /\ Todo(g) = Todo(f) \ {Node(f)}
         /\ Ran(f) \subseteq Ran(g) /\ Ran(g) \subseteq Ran(f) \cup {Node(f)}
         /\ Node(f) \in Ran(g) <=> line # "skipped"
         /\ Node(f) \notin Ran(f)
<1>1. /\ Node(f) \in Todo(f) /\ f.log[Node(f)] = "todo"
      /\ f.log \in [NodeIds(f.flow) -> {"todo", "completed", "failed", "skipped"}]
  BY NodeFirst, LogTyped
<1>2. g.log[Node(f)] = line /\ \A m \in NodeIds(f.flow) \ {Node(f)} : g.log[m] = f.log[m]
  BY <1>1
<1>3. Todo(g) = Todo(f) \ {Node(f)}
  BY <1>2 DEF Todo
<1>4. /\ Ran(f) \subseteq Ran(g) /\ Ran(g) \subseteq Ran(f) \cup {Node(f)}
      /\ Node(f) \in Ran(g) <=> line # "skipped"
      /\ Node(f) \notin Ran(f)
  BY <1>1, <1>2 DEF Ran
<1>. QED BY <1>2, <1>3, <1>4

\* The loop passes over the current node, which is to be skipped.
Passes(f, g) ==
  /\ g.flow = f.flow /\ g.order = f.order /\ g.at = f.at + 1 /\ g.result = "none"
  /\ g.log = [f.log EXCEPT ![Node(f)] = "skipped"]
  /\ g.skipped = f.skipped \cup {Node(f)} /\ g.seeded = f.seeded /\ g.cut = f.cut

\* What SkipNode does to the call.
LEMMA SkippedCall ==
  ASSUME UniqueIds, NEW f \in Calls, ~Over(f), Node(f) \in NodeIds(f.flow),
         NEW g, g = Advance([f EXCEPT !.skipped = @ \cup {Node(f)}, !.log[Node(f)] = "skipped"])
  PROVE  g \in Calls /\ Follows(f, g) /\ Passes(f, g)
<1>. DEFINE log == [f.log EXCEPT ![Node(f)] = "skipped"]
            skipped == f.skipped \cup {Node(f)}
            h == [f EXCEPT !.skipped = skipped, !.log = log]
<1>1. f \in FrameOf(f.flow) /\ Node(f) \in Marks(f.flow)
  BY CallTyped, MarksOf
<1>2. /\ log \in [NodeIds(f.flow) -> {"todo", "completed", "failed", "skipped"}]
      /\ skipped \in SUBSET Marks(f.flow)
  BY <1>1 DEF FrameOf
<1>3. g = Advance(h)
  OBVIOUS
<1>. HIDE DEF log, skipped, h
<1>4. h \in FrameOf(f.flow)
  BY <1>1, <1>2 DEF FrameOf, h
<1>5. /\ h.flow = f.flow /\ h.order = f.order /\ h.at = f.at /\ h.skipped = skipped
      /\ h.seeded = f.seeded /\ h.cut = f.cut /\ h.log = log
  BY <1>1 DEF FrameOf, h
<1>6. /\ g.flow = h.flow /\ g.order = h.order /\ g.at = h.at + 1 /\ g.result = "none"
      /\ g.skipped = h.skipped /\ g.seeded = h.seeded /\ g.cut = h.cut /\ g.log = h.log
  BY <1>3, <1>4, AdvanceFrame
<1>7. g \in Calls /\ Follows(f, g)
  BY <1>3, <1>4, <1>5, LeftCall DEF log
<1>8. Passes(f, g)
  BY <1>5, <1>6 DEF Passes, log, skipped
<1>. QED BY <1>7, <1>8

-----------------------------------------------------------------------------
(* What the map of skipped nodes holds.                                    *)

\* Nodes with an edge into a decided node, or into the current one, are decided.
LEMMA SourcesDecided ==
  ASSUME UniqueIds, NEW f \in Calls, Ordered(f), NEW e \in Edges(f.flow),
         e[1] \in NodeIds(f.flow), e[2] \in NodeIds(f.flow),
         \/ e[2] \notin Todo(f)
         \/ ~Over(f) /\ e[2] = Node(f)
  PROVE  e[1] \notin Todo(f) /\ e[1] # e[2] /\ Before(f, e[1], e[2])
<1>1. Before(f, e[1], e[2])
  BY DEF Ordered, KnownEdges
<1>2. e[1] # e[2]
  BY <1>1, BeforeOnce
<1>3. CASE e[2] \notin Todo(f)
  BY <1>1, <1>2, <1>3, BeforeTodo
<1>4. CASE ~Over(f) /\ e[2] = Node(f)
  BY <1>1, <1>2, <1>4, NodeFirst
<1>. QED BY <1>1, <1>2, <1>3, <1>4

LEMMA DeadPruned ==
  ASSUME UniqueIds, NEW f \in Calls, ~Over(f), Node(f) \in NodeIds(f.flow),
         Ordered(f), Recorded(f)
  PROVE  Dead(f) <=> Pruned(f, Node(f))
<1>. DEFINE n == Node(f)
<1>1. n \in Todo(f)
  BY NodeFirst
<1>2. n \in f.skipped <=> n \in f.seeded
  BY <1>1 DEF Recorded
<1>3. ASSUME NEW e \in Into(f.flow, n) PROVE e[1] \in f.skipped <=> Closed(f, e)
  <2>1. e \in Edges(f.flow) /\ e[2] = n
    BY DEF Into
  <2>2. e[1] \notin Todo(f)
    <3>1. CASE e[1] \in NodeIds(f.flow)
      BY <2>1, <3>1, SourcesDecided
    <3>2. CASE e[1] \notin NodeIds(f.flow)
      BY <3>2, LogTyped
    <3>. QED BY <3>1, <3>2
  <2>. QED BY <1>1, <2>1, <2>2 DEF Recorded
<1>4. Sources(f.flow, n) = {e[1] : e \in Into(f.flow, n)}
  BY DEF Sources, Into
<1>. HIDE DEF n
<1>5. /\ Sources(f.flow, n) # {} <=> Into(f.flow, n) # {}
      /\ Sources(f.flow, n) \subseteq f.skipped <=> \A e \in Into(f.flow, n) : Closed(f, e)
  BY <1>3, <1>4
<1>. QED BY <1>2, <1>5 DEF Dead, Pruned, n

\* Edges into decided nodes stay closed or not: the current node is behind them.
LEMMA ClosedStays ==
  ASSUME UniqueIds, NEW f \in Calls, ~Over(f), Node(f) \in NodeIds(f.flow), Ordered(f),
         NEW g, g.flow = f.flow, Todo(g) = Todo(f) \ {Node(f)},
         \A k \in NodeIds(f.flow) \ {Node(f)} : g.log[k] = f.log[k],
         \A e \in Edges(f.flow) : e[2] \notin Todo(g) => (e \in g.cut <=> e \in f.cut),
         \A m \in NodeIds(f.flow) \ Todo(g) : m \in g.seeded <=> m \in f.seeded,
         NEW m \in NodeIds(f.flow) \ Todo(g)
  PROVE  Pruned(g, m) <=> Pruned(f, m)
<1>1. Node(f) \in Todo(f)
  BY NodeFirst
<1>2. ASSUME NEW e \in Into(f.flow, m) PROVE Closed(g, e) <=> Closed(f, e)
  <2>1. e \in Edges(f.flow) /\ e[2] = m /\ (e \in g.cut <=> e \in f.cut)
    BY DEF Into
  <2>2. CASE e[1] \in NodeIds(f.flow)
    <3>1. e[2] \notin Todo(f) \/ e[2] = Node(f)
      BY <1>1, <2>1
    <3>2. e[1] \notin Todo(f)
      BY <2>1, <2>2, <3>1, SourcesDecided
    <3>. QED BY <1>1, <2>1, <2>2, <3>2 DEF Closed
  <2>3. CASE e[1] \notin NodeIds(f.flow)
    BY <2>1, <2>3 DEF Closed
  <2>. QED BY <2>2, <2>3
<1>. QED BY <1>2 DEF Pruned

LEMMA PassesRecorded ==
  ASSUME UniqueIds, NEW f \in Calls, ~Over(f), Node(f) \in NodeIds(f.flow), Dead(f),
         Ordered(f), Recorded(f), NEW g \in Calls, Passes(f, g)
  PROVE  Recorded(g)
<1>. DEFINE n == Node(f)
<1>0. g.flow = f.flow /\ g.log = [f.log EXCEPT ![n] = "skipped"]
      /\ g.skipped = f.skipped \cup {n} /\ g.seeded = f.seeded /\ g.cut = f.cut
  BY DEF Passes
<1>1. /\ n \in Todo(f) /\ Todo(g) = Todo(f) \ {n} /\ Todo(f) \subseteq NodeIds(f.flow)
      /\ g.log[n] = "skipped" /\ \A k \in NodeIds(f.flow) \ {n} : g.log[k] = f.log[k]
  BY <1>0, LineTyped, NodeFirst, LogTyped
<1>2. Pruned(f, n)
  BY DeadPruned
<1>. HIDE DEF n
<1>3. ASSUME NEW m \in Todo(g) PROVE m \in g.skipped <=> m \in g.seeded
  BY <1>0, <1>1 DEF Recorded
<1>4. ASSUME NEW e \in Edges(f.flow), e[2] \in Todo(g)
      PROVE  IF e[1] \in Todo(g) THEN e \notin g.cut ELSE e[1] \in g.skipped <=> Closed(g, e)
  <2>1. IF e[1] \in Todo(f) THEN e \notin f.cut ELSE e[1] \in f.skipped <=> Closed(f, e)
    BY <1>1, <1>4 DEF Recorded
  <2>2. CASE e[1] = n
    BY <1>0, <1>1, <2>2 DEF Closed
  <2>3. CASE e[1] # n
    BY <1>0, <1>1, <2>1, <2>3 DEF Closed
  <2>. QED BY <2>2, <2>3
<1>5. ASSUME NEW m \in NodeIds(f.flow) \ Todo(g) PROVE g.log[m] = "skipped" <=> Pruned(g, m)
  <2>1. Pruned(g, m) <=> Pruned(f, m)
    BY <1>0, <1>1, ClosedStays DEF n
  <2>2. CASE m = n
    BY <1>1, <1>2, <2>1, <2>2
  <2>3. CASE m # n
    BY <1>1, <2>1, <2>3 DEF Recorded
  <2>. QED BY <2>2, <2>3
<1>. QED BY <1>0, <1>3, <1>4, <1>5 DEF Recorded

LEMMA LeavesRecorded ==
  ASSUME UniqueIds, NEW f \in Calls, ~Over(f), Node(f) \in NodeIds(f.flow), ~Dead(f),
         Ordered(f), Recorded(f), NEW g \in Calls, NEW line \in {"completed", "failed"},
         NEW S, NEW U, Leaves(f, g, line, S, U), U \cap NodeIds(f.flow) \subseteq Todo(g)
  PROVE  Recorded(g)
<1>. DEFINE n == Node(f)
<1>0. g.flow = f.flow /\ g.log = [f.log EXCEPT ![n] = line]
      /\ g.skipped = (f.skipped \cup S) \ U
      /\ g.seeded = (f.seeded \cup (S \cap Todo(g))) \ U
      /\ g.cut = {e \in f.cut \cup {e \in Edges(f.flow) :
                                      e[1] \in S \ Todo(g) /\ e[2] \in Todo(g)} :
                    e[1] \in U => e[2] \notin Todo(g)}
  BY DEF Leaves
<1>1. /\ n \in Todo(f) /\ Todo(g) = Todo(f) \ {n} /\ Todo(f) \subseteq NodeIds(f.flow)
      /\ g.log[n] = line /\ \A k \in NodeIds(f.flow) \ {n} : g.log[k] = f.log[k]
      /\ f.cut \subseteq Edges(f.flow)
  BY <1>0, LineTyped, NodeFirst, LogTyped
<1>2. ~Pruned(f, n) /\ n \notin f.skipped
  BY DeadPruned DEF Dead
<1>. HIDE DEF n
<1>3. ASSUME NEW m \in Todo(g) PROVE m \in g.skipped <=> m \in g.seeded
  <2>1. m \in f.skipped <=> m \in f.seeded
    BY <1>1 DEF Recorded
  <2>. QED BY <1>0, <2>1
<1>4. ASSUME NEW e \in Edges(f.flow)
      PROVE  /\ e[2] \notin Todo(g) => (e \in g.cut <=> e \in f.cut)
             /\ e[2] \in Todo(g) =>
                  (e \in g.cut <=> (e \in f.cut \/ e[1] \in S \ Todo(g)) /\ e[1] \notin U)
  BY <1>0
<1>5. ASSUME NEW e \in Edges(f.flow), e[2] \in Todo(g)
      PROVE  IF e[1] \in Todo(g) THEN e \notin g.cut ELSE e[1] \in g.skipped <=> Closed(g, e)
  <2>1. IF e[1] \in Todo(f) THEN e \notin f.cut ELSE e[1] \in f.skipped <=> Closed(f, e)
    BY <1>1, <1>5 DEF Recorded
  <2>2. e \in g.cut <=> (e \in f.cut \/ e[1] \in S \ Todo(g)) /\ e[1] \notin U
    BY <1>4, <1>5
  <2>3. CASE e[1] \in Todo(g)
    BY <1>1, <2>1, <2>2, <2>3
  <2>4. CASE e[1] = n
    <3>1. e \notin f.cut /\ e[1] \notin Todo(g) /\ g.log[e[1]] # "skipped"
      BY <1>1, <2>1, <2>4
    <3>2. e[1] \in g.skipped <=> e[1] \in S /\ e[1] \notin U
      BY <1>0, <1>2, <2>4
    <3>. QED BY <2>2, <3>1, <3>2 DEF Closed
  <2>5. CASE e[1] \notin Todo(g) /\ e[1] # n
    <3>1. e[1] \notin Todo(f) /\ (e[1] \in f.skipped <=> Closed(f, e))
      BY <1>1, <2>1, <2>5
    <3>2. e[1] \in NodeIds(f.flow) => g.log[e[1]] = f.log[e[1]] /\ e[1] \notin U
      BY <1>1, <2>5
    <3>3. e[1] \in g.skipped <=> (e[1] \in f.skipped \/ e[1] \in S) /\ e[1] \notin U
      BY <1>0
    <3>. QED BY <1>0, <2>2, <2>5, <3>1, <3>2, <3>3 DEF Closed
  <2>. QED BY <2>3, <2>4, <2>5
<1>6. ASSUME NEW m \in NodeIds(f.flow) \ Todo(g) PROVE m \in g.seeded <=> m \in f.seeded
  BY <1>0
<1>7. ASSUME NEW m \in NodeIds(f.flow) \ Todo(g) PROVE g.log[m] = "skipped" <=> Pruned(g, m)
  <2>1. Pruned(g, m) <=> Pruned(f, m)
    BY <1>0, <1>1, <1>4, <1>6, ClosedStays DEF n
  <2>2. CASE m = n
    BY <1>1, <1>2, <2>1, <2>2
  <2>3. CASE m # n
    BY <1>1, <2>1, <2>3 DEF Recorded
  <2>. QED BY <2>2, <2>3
<1>. QED BY <1>0, <1>3, <1>5, <1>7 DEF Recorded

-----------------------------------------------------------------------------
(* What the loop skips is what no path of taken branches reaches.          *)

LEMMA LiveEquation ==
  ASSUME NEW f, NEW n \in Nat, Len(f.order) = n
  PROVE  \E c : /\ \A k \in 0 .. n : c[k] = Reached(f, IF k = 0 THEN {} ELSE c[k - 1])
                /\ LiveNodes(f) = c[n]
<1>. DEFINE S == SUBSET NodeIds(f.flow)
            step == [k \in 1 .. n |-> [L \in S |-> Reached(f, L)]]
            Is(g) == g = [k \in 0 .. n |-> Reached(f, IF k = 0 THEN {} ELSE g[k - 1])]
<1>1. Reached(f, {}) \in S /\ \A L \in S : Reached(f, L) \in S
  BY DEF Reached
<1>2. step \in [1 .. n -> [S -> S]] /\ \A k \in 1 .. n : \A L \in S :
        step[k][L] = Reached(f, L)
  BY <1>1
<1>. HIDE DEF step, S
<1>3. PICK g : Steps(g, n, S, Reached(f, {}), step)
  BY <1>1, <1>2, Recursion
<1>4. Is(g)
  <2>1. g = [i \in 0 .. n |-> g[i]]
    BY <1>3 DEF Steps
  <2>2. ASSUME NEW i \in 0 .. n
        PROVE  g[i] = Reached(f, IF i = 0 THEN {} ELSE g[i - 1])
    <3>1. CASE i = 0
      BY <1>3, <3>1 DEF Steps
    <3>2. CASE i # 0
      <4>1. i \in 1 .. n /\ i - 1 \in 0 .. n
        BY <3>2
      <4>2. g[i - 1] \in S /\ g[i] = step[i][g[i - 1]]
        BY <1>3, <3>2, <4>1 DEF Steps
      <4>. QED BY <1>2, <3>2, <4>1, <4>2
    <3>. QED BY <3>1, <3>2
  <2>. QED BY <2>1, <2>2
<1>. DEFINE c == CHOOSE r : Is(r)
<1>5. Is(c)
  BY <1>4
<1>6. LiveNodes(f) = c[n]
  BY DEF LiveNodes
<1>. HIDE DEF c
<1>7. \A k \in 0 .. n : c[k] = Reached(f, IF k = 0 THEN {} ELSE c[k - 1])
  BY <1>5
<1>. QED BY <1>6, <1>7

\* A decided node was skipped, and the current one is to be, exactly if no path
\* reaches it.
LEMMA LiveNode ==
  ASSUME UniqueIds, NEW f \in Calls, ~Over(f), Node(f) \in NodeIds(f.flow),
         Ordered(f), Recorded(f)
  PROVE  Node(f) \in LiveNodes(f) <=> ~Dead(f)
<1>. DEFINE n == Node(f)
            N == Len(f.order)
            Decided(m) == m \in NodeIds(f.flow) /\ (m \notin Todo(f) \/ m = n)
<1>1. /\ N \in Nat /\ DOMAIN f.order = 1 .. N /\ f.at \in 1 .. N /\ n = f.order[f.at]
      /\ f.flow \in Flows /\ f.order = TopoSort(f.flow) /\ Distinct(f.order)
  BY CallTyped
<1>2. PICK c : /\ \A k \in 0 .. N : c[k] = Reached(f, IF k = 0 THEN {} ELSE c[k - 1])
               /\ LiveNodes(f) = c[N]
  BY <1>1, LiveEquation
<1>3. NodeIds(f.flow) \subseteq ToSet(f.order)
  BY <1>1, OrderDistinct DEF UniqueIds
<1>. HIDE DEF n, N
\* The predecessor on an edge that is not closed is in front and is not pruned.
<1>4. ASSUME NEW e \in Edges(f.flow), e[1] \in NodeIds(f.flow), Decided(e[2])
      PROVE  /\ Decided(e[1]) /\ Before(f, e[1], e[2])
             /\ Pruned(f, e[1]) <=> f.log[e[1]] = "skipped"
  <2>1. e[1] \notin Todo(f) /\ Before(f, e[1], e[2])
    BY <1>4, SourcesDecided DEF n
  <2>. QED BY <1>4, <2>1 DEF Recorded
<1>5. ASSUME NEW m, Decided(m)
      PROVE  ~Pruned(f, m) <=>
               /\ m \notin f.seeded
               /\ \/ Sources(f.flow, m) = {}
                  \/ \E e \in Edges(f.flow) \ f.cut :
                       e[2] = m /\ (e[1] \in NodeIds(f.flow) => ~Pruned(f, e[1]))
  <2>1. Sources(f.flow, m) = {} <=> Into(f.flow, m) = {}
    BY DEF Sources, Into
  <2>2. ASSUME NEW e \in Into(f.flow, m)
        PROVE  Closed(f, e) <=> e \in f.cut \/ (e[1] \in NodeIds(f.flow) /\ Pruned(f, e[1]))
    <3>1. e \in Edges(f.flow) /\ e[2] = m
      BY DEF Into
    <3>. QED BY <1>4, <1>5, <3>1 DEF Closed
  <2>3. (\A e \in Into(f.flow, m) : Closed(f, e)) <=>
          ~\E e \in Edges(f.flow) \ f.cut :
             e[2] = m /\ (e[1] \in NodeIds(f.flow) => ~Pruned(f, e[1]))
    BY <2>2 DEF Into
  <2>. QED BY <2>1, <2>3 DEF Pruned
\* What is reached is not pruned.
<1>6. ASSUME NEW k \in 0 .. N, NEW m \in c[k], Decided(m) PROVE ~Pruned(f, m)
  <2>. DEFINE T == {i \in Nat : i <= N => \A x \in c[i] : Decided(x) => ~Pruned(f, x)}
  <2>1. 0 \in T
    <3>1. c[0] = Reached(f, {})
      BY <1>1, <1>2
    <3>. QED BY <1>5, <3>1 DEF Reached
  <2>2. ASSUME NEW i \in Nat, i \in T PROVE i + 1 \in T
    <3>. SUFFICES ASSUME i + 1 <= N, NEW x \in c[i + 1], Decided(x) PROVE ~Pruned(f, x)
      OBVIOUS
    <3>1. i + 1 \in 0 .. N /\ i + 1 # 0 /\ (i + 1) - 1 = i /\ i <= N
      BY <1>1
    <3>2. c[i + 1] = Reached(f, c[i])
      BY <1>2, <3>1
    <3>3. \A y \in c[i] : Decided(y) => ~Pruned(f, y)
      BY <2>2, <3>1
    <3>4. x \notin f.seeded
          /\ \/ Sources(f.flow, x) = {}
             \/ \E e \in Edges(f.flow) \ f.cut :
                  e[2] = x /\ (e[1] \in NodeIds(f.flow) => e[1] \in c[i])
      BY <3>2 DEF Reached
    <3>5. ASSUME NEW e \in Edges(f.flow) \ f.cut, e[2] = x, e[1] \in NodeIds(f.flow),
                 e[1] \in c[i]
          PROVE  ~Pruned(f, e[1])
      <4>1. Decided(e[1])
        BY <1>4, <3>5
      <4>. QED BY <3>3, <3>5, <4>1
    <3>. QED BY <1>5, <3>4, <3>5
  <2>. HIDE DEF T
  <2>3. k \in T
    BY <1>1, <2>1, <2>2, NatSetInduction
  <2>. QED BY <1>1, <1>6, <2>3 DEF T
\* What is not pruned is reached, in no more rounds than its place in the order.
<1>7. ASSUME NEW j \in 1 .. N, Decided(f.order[j]), ~Pruned(f, f.order[j])
      PROVE  f.order[j] \in c[N]
  <2>. DEFINE T == {i \in Nat : \A l \in 1 .. N : \A k \in 0 .. N :
                      l <= i /\ l <= k /\ Decided(f.order[l]) /\ ~Pruned(f, f.order[l])
                        => f.order[l] \in c[k]}
  <2>1. 0 \in T
    BY <1>1
  <2>2. ASSUME NEW i \in Nat, i \in T PROVE i + 1 \in T
    <3>. SUFFICES ASSUME NEW l \in 1 .. N, NEW k \in 0 .. N, l <= i + 1, l <= k,
                         Decided(f.order[l]), ~Pruned(f, f.order[l])
                  PROVE  f.order[l] \in c[k]
      OBVIOUS
    <3>. DEFINE m == f.order[l]
    <3>1. k # 0 /\ k - 1 \in 0 .. N /\ c[k] = Reached(f, c[k - 1])
      BY <1>1, <1>2
    <3>2. m \in NodeIds(f.flow) /\ m \notin f.seeded
          /\ \/ Sources(f.flow, m) = {}
             \/ \E e \in Edges(f.flow) \ f.cut :
                  e[2] = m /\ (e[1] \in NodeIds(f.flow) => ~Pruned(f, e[1]))
      BY <1>5
    <3>3. ASSUME NEW e \in Edges(f.flow) \ f.cut, e[2] = m, e[1] \in NodeIds(f.flow),
                 ~Pruned(f, e[1])
          PROVE  e[1] \in c[k - 1]
      <4>1. Decided(e[1]) /\ Before(f, e[1], m)
        BY <1>4, <3>3
      <4>2. PICK a, b \in DOMAIN f.order : a < b /\ f.order[a] = e[1] /\ f.order[b] = m
        BY <4>1 DEF Before
      <4>3. b = l
        BY <1>1, <4>2 DEF Distinct
      <4>4. a \in 1 .. N /\ a <= i /\ a <= k - 1
        BY <1>1, <4>2, <4>3
      <4>. QED BY <2>2, <3>1, <3>3, <4>1, <4>2, <4>4
    <3>. QED BY <3>1, <3>2, <3>3 DEF Reached
  <2>. HIDE DEF T
  <2>3. N \in T
    BY <1>1, <2>1, <2>2, NatSetInduction
  <2>4. N \in 0 .. N /\ j <= N
    BY <1>1
  <2>. QED BY <1>7, <2>3, <2>4 DEF T
<1>8. Decided(n)
  BY DEF n
<1>9. n \in c[N] <=> ~Pruned(f, n)
  <2>1. N \in 0 .. N
    BY <1>1
  <2>. QED BY <1>1, <1>6, <1>7, <1>8, <2>1
<1>. QED BY <1>2, <1>9, DeadPruned DEF n

-----------------------------------------------------------------------------
(* Who may have asked for a node.                                          *)

\* The current node gets its line; S is what it asks to skip, U what it asks to
\* run after all.
Asked(f, g, line, S, U) ==
  /\ g.flow = f.flow /\ g.order = f.order /\ g.log = [f.log EXCEPT ![Node(f)] = line]
  /\ \A x \in NodeIds(f.flow) :
       x \in g.skipped <=> \/ (x \in f.skipped \/ x \in S) /\ x \notin U
                           \/ line = "skipped" /\ x = Node(f)
  /\ \A x \in S \ U : MayAsk(f.flow, Node(f), x)
  /\ U \subseteq Handlers(f.flow)
  /\ line = "failed" => /\ S = GroupMates(f.flow, Node(f))
                        /\ U = {CatchTarget(f.flow, Node(f))}
  /\ IF line = "skipped" THEN S = {} ELSE ~Dead(f)

LEMMA SameOrder ==
  ASSUME NEW f, NEW g, g.flow = f.flow, g.order = f.order
  PROVE  /\ \A a, b : Before(g, a, b) <=> Before(f, a, b)
         /\ Ordered(g) <=> Ordered(f)
         /\ \A n : Sheltered(g, n) <=> Sheltered(f, n)
<1>1. \A a, b : Before(g, a, b) <=> Before(f, a, b)
  BY DEF Before
<1>2. Ordered(g) <=> Ordered(f)
  BY <1>1 DEF Ordered
<1>3. \A x, y, n : LeftAlone(g, x, y, n) <=> LeftAlone(f, x, y, n)
  BY <1>1 DEF LeftAlone
<1>4. \A n : Sheltered(g, n) <=> Sheltered(f, n)
  BY <1>3 DEF Sheltered
<1>. QED BY <1>1, <1>2, <1>4

LEMMA AskedHandlerFree ==
  ASSUME UniqueIds, NEW f \in Calls, ~Over(f), Node(f) \in NodeIds(f.flow),
         NEW g \in Calls, NEW line \in {"completed", "failed", "skipped"}, NEW S, NEW U,
         Asked(f, g, line, S, U), HandlerFree(f)
  PROVE  HandlerFree(g)
<1>. DEFINE n == Node(f)
<1>0. /\ g.flow = f.flow /\ g.order = f.order /\ g.log = [f.log EXCEPT ![n] = line]
      /\ \A x \in NodeIds(f.flow) :
           x \in g.skipped <=> \/ (x \in f.skipped \/ x \in S) /\ x \notin U
                               \/ line = "skipped" /\ x = n
      /\ \A x \in S \ U : MayAsk(f.flow, n, x)
      /\ line = "failed" => U = {CatchTarget(f.flow, n)}
      /\ line = "skipped" => S = {}
  BY DEF Asked
<1>1. /\ n \in Todo(f) /\ Todo(g) = Todo(f) \ {n} /\ Todo(f) \subseteq NodeIds(f.flow)
      /\ g.log[n] = line /\ \A k \in NodeIds(f.flow) \ {n} : g.log[k] = f.log[k]
      /\ Ran(f) \subseteq Ran(g) /\ (n \in Ran(g) <=> line # "skipped")
  BY <1>0, LineTyped, NodeFirst, LogTyped
<1>2. \A a, b : Before(g, a, b) <=> Before(f, a, b)
  BY <1>0, SameOrder
<1>. SUFFICES ASSUME NEW q \in NodeIds(f.flow), g.log[q] = "failed",
                     CatchTarget(f.flow, q) \in Todo(g),
                     \A m \in Ran(g) :
                       MayAsk(f.flow, m, CatchTarget(f.flow, q)) => ~Before(f, q, m)
              PROVE  CatchTarget(f.flow, q) \notin g.skipped
  BY <1>0, <1>2 DEF HandlerFree
<1>. DEFINE h == CatchTarget(f.flow, q)
<1>3. h \in Todo(f) /\ h # n /\ h \in NodeIds(f.flow)
  BY <1>1
<1>4. CASE q = n
  BY <1>0, <1>1, <1>3, <1>4
<1>5. CASE q # n
  <2>1. f.log[q] = "failed"
    BY <1>1, <1>5
  <2>2. q \notin Todo(f)
    BY <2>1, LogTyped
  <2>3. Before(f, q, n)
    BY <2>2, NodeFirst
  <2>4. h \notin f.skipped
    BY <1>1, <1>3, <2>1 DEF HandlerFree
  <2>5. h \in S => h \in U
    BY <1>0, <1>1, <2>3
  <2>. QED BY <1>0, <1>3, <2>4, <2>5
<1>. QED BY <1>4, <1>5

LEMMA AskedRanFree ==
  ASSUME UniqueIds, NEW f \in Calls, ~Over(f), Node(f) \in NodeIds(f.flow),
         NEW g \in Calls, NEW line \in {"completed", "failed", "skipped"}, NEW S, NEW U,
         Asked(f, g, line, S, U), RanFree(f)
  PROVE  RanFree(g)
<1>. DEFINE n == Node(f)
<1>0. /\ g.flow = f.flow /\ g.order = f.order /\ g.log = [f.log EXCEPT ![n] = line]
      /\ \A x \in NodeIds(f.flow) :
           x \in g.skipped <=> \/ (x \in f.skipped \/ x \in S) /\ x \notin U
                               \/ line = "skipped" /\ x = n
      /\ \A x \in S \ U : MayAsk(f.flow, n, x)
      /\ IF line = "skipped" THEN S = {} ELSE n \notin f.skipped
  BY DEF Asked, Dead
<1>1. /\ n \in Todo(f) /\ Ran(f) \subseteq Ran(g) /\ Ran(g) \subseteq Ran(f) \cup {n}
      /\ (n \in Ran(g) <=> line # "skipped") /\ Ran(f) \subseteq NodeIds(f.flow)
  BY <1>0, LineTyped, NodeFirst, LogTyped
<1>2. \A a, b : Before(g, a, b) <=> Before(f, a, b)
  BY <1>0, SameOrder
<1>. SUFFICES ASSUME NEW s \in Ran(g),
                     \A m \in Ran(g) : MayAsk(f.flow, m, s) => Before(f, m, s)
              PROVE  s \notin g.skipped
  BY <1>0, <1>2 DEF RanFree
<1>3. s \in NodeIds(f.flow) /\ ~Before(f, n, s) /\ s \notin f.skipped
      /\ ~(line = "skipped" /\ s = n)
  <2>1. CASE s = n
    BY <1>0, <1>1, <2>1, BeforeOnce
  <2>2. CASE s # n
    <3>1. s \in Ran(f) /\ s \in NodeIds(f.flow)
      BY <1>1, <2>2
    <3>2. s \notin Todo(f)
      BY <3>1 DEF Ran, Todo
    <3>3. ~Before(f, n, s)
      BY <3>1, <3>2, NodeFirst
    <3>4. s \notin f.skipped
      BY <1>1, <3>1 DEF RanFree
    <3>. QED BY <2>2, <3>1, <3>3, <3>4
  <2>. QED BY <2>1, <2>2
<1>4. s \in S => s \in U
  BY <1>0, <1>1, <1>3
<1>. QED BY <1>0, <1>3, <1>4

LEMMA AskedMates ==
  ASSUME UniqueIds, NEW f \in Calls, ~Over(f), Node(f) \in NodeIds(f.flow),
         NEW g \in Calls, NEW line \in {"completed", "failed", "skipped"}, NEW S, NEW U,
         Asked(f, g, line, S, U), MatesSkipped(f)
  PROVE  MatesSkipped(g)
<1>. DEFINE n == Node(f)
<1>0. /\ g.flow = f.flow /\ g.order = f.order /\ g.log = [f.log EXCEPT ![n] = line]
      /\ \A x \in NodeIds(f.flow) :
           x \in g.skipped <=> \/ (x \in f.skipped \/ x \in S) /\ x \notin U
                               \/ line = "skipped" /\ x = n
      /\ U \subseteq Handlers(f.flow)
      /\ line = "failed" => S = GroupMates(f.flow, n)
      /\ line # "skipped" => n \notin f.skipped
  BY DEF Asked, Dead
<1>1. /\ n \in Todo(f) /\ Todo(g) = Todo(f) \ {n} /\ Todo(f) \subseteq NodeIds(f.flow)
      /\ g.log[n] = line /\ \A k \in NodeIds(f.flow) \ {n} : g.log[k] = f.log[k]
  BY <1>0, LineTyped, NodeFirst, LogTyped
<1>2. \A a, b : Before(g, a, b) <=> Before(f, a, b)
  BY <1>0, SameOrder
<1>. SUFFICES ASSUME NEW q \in NodeIds(f.flow), g.log[q] = "failed",
                     NEW m \in (GroupMates(f.flow, q) \cap NodeIds(f.flow)) \ Handlers(f.flow),
                     Before(f, q, m)
              PROVE  IF m \in Todo(g) THEN m \in g.skipped ELSE g.log[m] = "skipped"
  BY <1>0, <1>2 DEF MatesSkipped
<1>3. CASE q = n
  <2>1. m \in Todo(f) /\ m # n
    BY <1>3, NodeFirst, BeforeOnce
  <2>. QED BY <1>0, <1>1, <1>3, <2>1
<1>4. CASE q # n
  <2>1. f.log[q] = "failed"
    BY <1>1, <1>4
  <2>2. IF m \in Todo(f) THEN m \in f.skipped ELSE f.log[m] = "skipped"
    BY <2>1 DEF MatesSkipped
  <2>. QED BY <1>0, <1>1, <2>2
<1>. QED BY <1>3, <1>4

\* A node on all paths to one that ran has run.
LEMMA ThroughRan ==
  ASSUME UniqueIds, NEW f \in Calls, Ordered(f), Recorded(f),
         NEW s, NEW n \in Ran(f), Through(f.flow, s, n)
  PROVE  s \in Ran(f)
<1>. DEFINE N == Len(f.order)
<1>1. /\ N \in Nat /\ DOMAIN f.order = 1 .. N /\ Distinct(f.order)
      /\ f.order = TopoSort(f.flow) /\ f.flow \in Flows
  BY CallTyped
<1>2. PICK B \in SUBSET NodeIds(f.flow) :
        /\ s \in B /\ n \in B
        /\ \A m \in B \ {s} : Sources(f.flow, m) # {} /\ Sources(f.flow, m) \subseteq B
  BY DEF Through
<1>. SUFFICES ASSUME s \notin Ran(f) PROVE FALSE
  OBVIOUS
<1>. HIDE DEF N
\* Of the nodes of B that ran, none is the first in the order.
<1>3. ASSUME NEW m \in B \cap Ran(f)
      PROVE  \E k \in B \cap Ran(f) : Before(f, k, m)
  <2>1. m # s /\ m \in NodeIds(f.flow) /\ m \notin Todo(f) /\ f.log[m] # "skipped"
    BY DEF Ran, Todo
  <2>2. Into(f.flow, m) # {} /\ \A e \in Into(f.flow, m) : e[1] \in B
    BY <1>2, <2>1 DEF Sources, Into
  <2>3. ~Pruned(f, m)
    BY <2>1 DEF Recorded
  <2>4. PICK e \in Into(f.flow, m) : ~Closed(f, e)
    BY <2>2, <2>3 DEF Pruned
  <2>5. e \in Edges(f.flow) /\ e[2] = m /\ e[1] \in B /\ e[1] \in NodeIds(f.flow)
    BY <2>2, <2>4 DEF Into
  <2>6. e[1] \notin Todo(f) /\ Before(f, e[1], m)
    BY <2>1, <2>5, SourcesDecided
  <2>7. e[1] \in Ran(f)
    <3>1. f.log[e[1]] # "skipped"
      BY <2>4, <2>5 DEF Closed
    <3>. QED BY <2>5, <2>6, <3>1, LogTyped
  <2>. QED BY <2>5, <2>6, <2>7
<1>. DEFINE T == {i \in Nat : \A j \in 1 .. N : j <= i => f.order[j] \notin B \cap Ran(f)}
<1>4. 0 \in T
  BY <1>1
<1>5. ASSUME NEW i \in Nat, i \in T PROVE i + 1 \in T
  <2>. SUFFICES ASSUME NEW j \in 1 .. N, j <= i + 1, f.order[j] \in B \cap Ran(f) PROVE FALSE
    OBVIOUS
  <2>1. PICK k \in B \cap Ran(f) : Before(f, k, f.order[j])
    BY <1>3
  <2>2. PICK a, b \in DOMAIN f.order : a < b /\ f.order[a] = k /\ f.order[b] = f.order[j]
    BY <2>1 DEF Before
  <2>3. b = j
    BY <1>1, <2>2 DEF Distinct
  <2>4. a \in 1 .. N /\ a <= i
    BY <1>1, <2>2, <2>3
  <2>. QED BY <1>5, <2>1, <2>2, <2>4
<1>. HIDE DEF T
<1>6. N \in T
  BY <1>1, <1>4, <1>5, NatSetInduction
<1>7. n \in ToSet(f.order)
  <2>1. NodeIds(f.flow) \subseteq ToSet(f.order)
    BY <1>1, OrderDistinct DEF UniqueIds
  <2>. QED BY <1>2, <2>1
<1>8. PICK j \in 1 .. N : f.order[j] = n
  BY <1>1, <1>7 DEF ToSet
<1>. QED BY <1>1, <1>2, <1>6, <1>8 DEF T

\* A failure that was in time still is.
LEMMA InTimeBefore ==
  ASSUME UniqueIds, NEW f \in Calls, ~Over(f), Node(f) \in NodeIds(f.flow),
         NEW g \in Calls, NEW line \in {"completed", "failed", "skipped"}, NEW S, NEW U,
         Asked(f, g, line, S, U), InTime(g)
  PROVE  InTime(f)
<1>1. g.flow = f.flow /\ g.order = f.order /\ g.log = [f.log EXCEPT ![Node(f)] = line]
  BY DEF Asked
<1>2. Node(f) \in Todo(f) /\ \A k \in NodeIds(f.flow) \ {Node(f)} : g.log[k] = f.log[k]
  BY <1>1, LineTyped, NodeFirst
<1>3. \A a, b : Before(g, a, b) <=> Before(f, a, b)
  BY <1>1, SameOrder
<1>4. \A k \in NodeIds(f.flow) : f.log[k] = "failed" => g.log[k] = "failed"
  BY <1>2 DEF Todo
<1>. QED BY <1>1, <1>3, <1>4 DEF InTime

\* The handler of a failed node, still to do, is not dead if it is sheltered.
LEMMA ShelteredRuns ==
  ASSUME UniqueIds, NEW f \in Calls, ~Over(f), Ordered(f), Recorded(f), HandlerFree(f),
         RanFree(f), MatesSkipped(f), NEW n \in NodeIds(f.flow), f.log[n] = "failed",
         Sheltered(f, n), Node(f) = CatchTarget(f.flow, n)
  PROVE  ~Dead(f)
<1>. DEFINE h == CatchTarget(f.flow, n)
<1>1. h \in NodeIds(f.flow) /\ LeftAlone(f, h, n, n)
      /\ \/ Sources(f.flow, h) = {}
         \/ \E s \in Sources(f.flow, h) \cap NodeIds(f.flow) :
              Through(f.flow, s, n) /\ LeftAlone(f, s, s, n)
  BY DEF Sheltered
<1>2. n \in Ran(f)
  BY DEF Ran
\* Who comes behind n in its group has been skipped, unless it is a handler.
<1>3. ASSUME NEW m \in Ran(f), Before(f, n, m),
             m \in GroupMates(f.flow, n) \ Handlers(f.flow)
      PROVE  FALSE
  <2>1. m \in NodeIds(f.flow) /\ m \notin Todo(f) /\ f.log[m] # "skipped"
    BY DEF Ran, Todo
  <2>. QED BY <1>3, <2>1 DEF MatesSkipped
<1>4. h \notin f.skipped
  <2>1. h \in Todo(f)
    BY <1>1, NodeFirst
  <2>2. ASSUME NEW m \in Ran(f), MayAsk(f.flow, m, h), Before(f, n, m) PROVE FALSE
    <3>1. m \in NodeIds(f.flow) /\ ~Before(f, m, n)
      BY <2>2, BeforeOnce DEF Ran
    <3>. QED BY <1>1, <1>3, <2>2, <3>1 DEF LeftAlone
  <2>. QED BY <2>1, <2>2 DEF HandlerFree
<1>5. ASSUME NEW s \in Sources(f.flow, h) \cap NodeIds(f.flow), Through(f.flow, s, n),
             LeftAlone(f, s, s, n)
      PROVE  s \notin f.skipped
  <2>1. s \in Ran(f)
    BY <1>2, <1>5, ThroughRan
  <2>2. ASSUME NEW m \in Ran(f), MayAsk(f.flow, m, s) PROVE Before(f, m, s)
    <3>1. m \in NodeIds(f.flow)
      BY DEF Ran
    <3>. QED BY <1>3, <1>5, <2>2, <3>1 DEF LeftAlone
  <2>. QED BY <2>1, <2>2 DEF RanFree
<1>. QED BY <1>1, <1>4, <1>5 DEF Dead

LEMMA AskedHandlersRun ==
  ASSUME UniqueIds, NEW f \in Calls, ~Over(f), Node(f) \in NodeIds(f.flow),
         NEW g \in Calls, NEW line \in {"completed", "failed", "skipped"}, NEW S, NEW U,
         Asked(f, g, line, S, U), line = "skipped" => Dead(f),
         Ordered(f), InTime(g), Recorded(f), HandlerFree(f), RanFree(f), MatesSkipped(f),
         HandlersRun(f)
  PROVE  HandlersRun(g)
<1>. DEFINE n == Node(f)
<1>0. g.flow = f.flow /\ g.order = f.order /\ g.log = [f.log EXCEPT ![n] = line]
  BY DEF Asked
<1>1. /\ n \in Todo(f) /\ f.log[n] = "todo"
      /\ g.log[n] = line /\ \A k \in NodeIds(f.flow) \ {n} : g.log[k] = f.log[k]
  BY <1>0, LineTyped, NodeFirst, LogTyped
<1>2. (\A a, b : Before(g, a, b) <=> Before(f, a, b))
      /\ \A q : Sheltered(g, q) <=> Sheltered(f, q)
  BY <1>0, SameOrder
<1>. SUFFICES ASSUME NEW q \in NodeIds(f.flow), g.log[q] = "failed", Sheltered(f, q),
                     g.log[CatchTarget(f.flow, q)] = "skipped"
              PROVE  FALSE
  BY <1>0, <1>2 DEF HandlersRun
<1>. DEFINE h == CatchTarget(f.flow, q)
<1>3. h \in NodeIds(f.flow)
  BY DEF Sheltered
<1>4. CASE q = n
  <2>1. Before(f, n, h)
    BY <1>0, <1>2, <1>3, <1>4 DEF InTime
  <2>2. h \in Todo(f) /\ h # n
    BY <1>3, <2>1, NodeFirst, BeforeOnce
  <2>. QED BY <1>1, <1>3, <2>2 DEF Todo
<1>5. CASE q # n
  <2>1. f.log[q] = "failed"
    BY <1>1, <1>5
  <2>2. CASE h = n
    BY <1>1, <2>1, <2>2, ShelteredRuns
  <2>3. CASE h # n
    BY <1>1, <1>3, <2>1, <2>3 DEF HandlersRun
  <2>. QED BY <2>2, <2>3
<1>. QED BY <1>4, <1>5

LEMMA PassesAsked ==
  ASSUME UniqueIds, NEW f \in Calls, NEW g, Passes(f, g)
  PROVE  Asked(f, g, "skipped", {}, {})
BY DEF Passes, Asked

LEMMA CompletedAsked ==
  ASSUME UniqueIds, NEW f \in Calls, ~Dead(f), NEW g,
         NEW skip \in SkipChoices(f.flow, Node(f)), Leaves(f, g, "completed", skip, {})
  PROVE  Asked(f, g, "completed", skip, {})
<1>1. \A x \in skip : MayAsk(f.flow, Node(f), x)
  BY DEF MayAsk
<1>. QED BY <1>1 DEF Leaves, Asked

LEMMA CaughtAsked ==
  ASSUME UniqueIds, NEW f \in Calls, Node(f) \in NodeIds(f.flow), ~Dead(f), NEW g,
         Leaves(f, g, "failed", GroupMates(f.flow, Node(f)), {CatchTarget(f.flow, Node(f))})
  PROVE  Asked(f, g, "failed", GroupMates(f.flow, Node(f)),
                     {CatchTarget(f.flow, Node(f))})
<1>1. \A x \in GroupMates(f.flow, Node(f)) \ {CatchTarget(f.flow, Node(f))} :
        MayAsk(f.flow, Node(f), x)
  BY DEF MayAsk
<1>2. {CatchTarget(f.flow, Node(f))} \subseteq Handlers(f.flow)
  BY DEF Handlers
<1>. QED BY <1>1, <1>2 DEF Leaves, Asked

-----------------------------------------------------------------------------
(* Every step of a call keeps it sane.                                     *)

LEMMA SaneSame ==
  ASSUME NEW f, Sane(f), NEW g, g.flow = f.flow, g.order = f.order, g.log = f.log,
         g.skipped = f.skipped, g.seeded = f.seeded, g.cut = f.cut
  PROVE  Sane(g)
<1>1. /\ \A a, b : Before(g, a, b) <=> Before(f, a, b)
      /\ Ordered(g) <=> Ordered(f)
      /\ \A n : Sheltered(g, n) <=> Sheltered(f, n)
  BY SameOrder
<1>2. InTime(g) <=> InTime(f)
  BY <1>1 DEF InTime
<1>3. Todo(g) = Todo(f) /\ Ran(g) = Ran(f)
  BY DEF Todo, Ran
<1>4. HandlerFree(f) => HandlerFree(g)
  BY <1>1, <1>3 DEF HandlerFree
<1>5. RanFree(f) => RanFree(g)
  BY <1>1, <1>3 DEF RanFree
<1>6. MatesSkipped(f) => MatesSkipped(g)
  BY <1>1, <1>3 DEF MatesSkipped
<1>7. (\A e : Closed(g, e) <=> Closed(f, e)) /\ (\A m : Pruned(g, m) <=> Pruned(f, m))
  BY DEF Closed, Pruned
<1>8. Recorded(f) => Recorded(g)
  BY <1>3, <1>7 DEF Recorded
<1>9. HandlersRun(f) => HandlersRun(g)
  BY <1>1 DEF HandlersRun
<1>. QED BY <1>1, <1>2, <1>4, <1>5, <1>6, <1>8, <1>9 DEF Sane

LEMMA SaneFirst ==
  ASSUME UniqueIds, NEW flow \in Flows, NEW depth \in Nat
  PROVE  Sane(NewFrame(flow, depth))
<1>. DEFINE f == NewFrame(flow, depth)
<1>1. /\ f.flow = flow /\ f.skipped = {} /\ f.seeded = {} /\ f.cut = {}
      /\ f.log = [n \in NodeIds(flow) |-> "todo"]
  BY DEF NewFrame
<1>. HIDE DEF f
<1>2. Todo(f) = NodeIds(flow) /\ Ran(f) = {}
  BY <1>1 DEF Todo, Ran
<1>3. HandlerFree(f) /\ RanFree(f) /\ MatesSkipped(f) /\ HandlersRun(f)
  BY <1>1, <1>2 DEF HandlerFree, RanFree, MatesSkipped, HandlersRun
<1>4. \A e \in Edges(flow) : e[1] \notin Todo(f) => ~Closed(f, e)
  BY <1>1, <1>2 DEF Closed
<1>5. Recorded(f)
  BY <1>1, <1>2, <1>4 DEF Recorded
<1>. QED BY <1>3, <1>5 DEF Sane, f

LEMMA SaneAsked ==
  ASSUME UniqueIds, NEW f \in Calls, ~Over(f), Node(f) \in NodeIds(f.flow), Sane(f),
         NEW g \in Calls, NEW line \in {"completed", "failed", "skipped"}, NEW S, NEW U,
         Asked(f, g, line, S, U), line = "skipped" => Dead(f),
         Ordered(f) /\ InTime(g) /\ Recorded(f) => Recorded(g)
  PROVE  Sane(g)
<1>1. HandlerFree(f) /\ RanFree(f) /\ MatesSkipped(f)
  BY DEF Sane
<1>2. HandlerFree(g)
  BY <1>1, AskedHandlerFree
<1>3. RanFree(g)
  BY <1>1, AskedRanFree
<1>4. MatesSkipped(g)
  BY <1>1, AskedMates
<1>5. ASSUME Ordered(g), InTime(g) PROVE Recorded(g) /\ HandlersRun(g)
  <2>1. g.flow = f.flow /\ g.order = f.order
    BY DEF Asked
  <2>2. Ordered(f)
    BY <1>5, <2>1, SameOrder
  <2>3. InTime(f)
    BY <1>5, InTimeBefore
  <2>4. Recorded(f) /\ HandlersRun(f)
    BY <2>2, <2>3 DEF Sane
  <2>5. Recorded(g)
    BY <1>5, <2>2, <2>4
  <2>6. HandlersRun(g)
    BY <1>1, <1>5, <2>2, <2>4, AskedHandlersRun
  <2>. QED BY <2>5, <2>6
<1>. QED BY <1>2, <1>3, <1>4, <1>5 DEF Sane

LEMMA SaneSkipped ==
  ASSUME UniqueIds, NEW f \in Calls, ~Over(f), Node(f) \in NodeIds(f.flow), Sane(f), Dead(f),
         NEW g \in Calls, Passes(f, g)
  PROVE  Sane(g)
<1>1. Asked(f, g, "skipped", {}, {})
  BY PassesAsked
<1>2. Ordered(f) /\ Recorded(f) => Recorded(g)
  BY PassesRecorded
<1>. QED BY <1>1, <1>2, SaneAsked

LEMMA SaneCompleted ==
  ASSUME UniqueIds, NEW f \in Calls, ~Over(f), Node(f) \in NodeIds(f.flow), Sane(f), ~Dead(f),
         NEW g \in Calls, NEW skip \in SkipChoices(f.flow, Node(f)),
         Leaves(f, g, "completed", skip, {})
  PROVE  Sane(g)
<1>1. Asked(f, g, "completed", skip, {})
  BY CompletedAsked
<1>2. Ordered(f) /\ Recorded(f) => Recorded(g)
  <2>1. {} \cap NodeIds(f.flow) \subseteq Todo(g)
    OBVIOUS
  <2>. QED BY <2>1, LeavesRecorded
<1>. QED BY <1>1, <1>2, SaneAsked

LEMMA SaneCaught ==
  ASSUME UniqueIds, NEW f \in Calls, ~Over(f), Node(f) \in NodeIds(f.flow), Sane(f), ~Dead(f),
         NEW g \in Calls,
         Leaves(f, g, "failed", GroupMates(f.flow, Node(f)), {CatchTarget(f.flow, Node(f))})
  PROVE  Sane(g)
<1>. DEFINE n == Node(f)
            U == {CatchTarget(f.flow, n)}
<1>1. Asked(f, g, "failed", GroupMates(f.flow, n), U)
  BY CaughtAsked
<1>2. ASSUME Ordered(f), InTime(g), Recorded(f) PROVE Recorded(g)
  <2>1. g.flow = f.flow /\ g.order = f.order /\ g.log = [f.log EXCEPT ![n] = "failed"]
    BY DEF Leaves
  <2>2. g.log[n] = "failed" /\ Todo(g) = Todo(f) \ {n}
    BY <2>1, LineTyped
  <2>3. ASSUME CatchTarget(f.flow, n) \in NodeIds(f.flow)
        PROVE  CatchTarget(f.flow, n) \in Todo(g)
    <3>1. Before(f, n, CatchTarget(f.flow, n))
      BY <1>2, <2>1, <2>2, <2>3, SameOrder DEF InTime
    <3>. QED BY <2>2, <2>3, <3>1, NodeFirst, BeforeOnce
  <2>4. U \cap NodeIds(f.flow) \subseteq Todo(g)
    BY <2>3
  <2>. QED BY <1>2, <2>4, LeavesRecorded
<1>. QED BY <1>1, <1>2, SaneAsked

-----------------------------------------------------------------------------
(* Stacks of sane calls.                                                   *)

LEMMA EngagedSame ==
  ASSUME NEW f, NEW g, g.flow = f.flow, g.order = f.order, g.at = f.at,
         g.skipped = f.skipped
  PROVE  Engaged(g) <=> Engaged(f)
BY DEF Engaged, Over, Node, Dead

LEMMA SaneTop ==
  ASSUME NEW s \in Seq(Calls), s # <<>>, SaneStack(s), NEW g \in Calls, Sane(g),
         g.result # "none" => Engaged(g)
  PROVE  SaneStack(Append(Front(s), g))
<1>. DEFINE u == Front(s)
            t == Append(u, g)
<1>1. /\ Len(s) \in Nat \ {0} /\ DOMAIN s = 1 .. Len(s) /\ u \in Seq(Calls)
      /\ Len(u) = Len(s) - 1 /\ \A i \in 1 .. Len(s) - 1 : u[i] = s[i]
  BY FrontOf
<1>. HIDE DEF u
<1>2. /\ Len(t) = Len(u) + 1 /\ DOMAIN t = 1 .. Len(u) + 1
      /\ t[Len(u) + 1] = g /\ \A i \in 1 .. Len(u) : t[i] = u[i]
  <2>1. u \in Seq(Calls)
    BY <1>1
  <2>. QED BY <2>1
<1>. HIDE DEF t
<1>3. /\ Len(t) = Len(s) /\ DOMAIN t = 1 .. Len(s) /\ t[Len(s)] = g
      /\ \A i \in 1 .. Len(s) - 1 : t[i] = s[i]
  BY <1>1, <1>2
<1>4. ASSUME NEW i \in DOMAIN t
      PROVE  Sane(t[i]) /\ (i < Len(t) \/ t[i].result # "none" => Engaged(t[i]))
  <2>1. CASE i = Len(s)
    BY <1>1, <1>3, <2>1
  <2>2. CASE i # Len(s)
    <3>1. i \in DOMAIN s /\ i < Len(s) /\ t[i] = s[i]
      BY <1>1, <1>3, <2>2
    <3>. QED BY <3>1 DEF SaneStack
  <2>. QED BY <2>1, <2>2
<1>. QED BY <1>4 DEF SaneStack, t, u

LEMMA SaneEnter ==
  ASSUME NEW s \in Seq(Calls), SaneStack(s), s # <<>> => Engaged(Last(s)),
         NEW g \in Calls, Sane(g), g.result = "none"
  PROVE  SaneStack(Append(s, g))
<1>. DEFINE t == Append(s, g)
<1>1. Len(s) \in Nat /\ DOMAIN s = 1 .. Len(s)
  OBVIOUS
<1>2. /\ Len(t) = Len(s) + 1 /\ DOMAIN t = 1 .. Len(s) + 1
      /\ t[Len(s) + 1] = g /\ \A i \in 1 .. Len(s) : t[i] = s[i]
  OBVIOUS
<1>. HIDE DEF t
<1>3. ASSUME NEW i \in DOMAIN t
      PROVE  Sane(t[i]) /\ (i < Len(t) \/ t[i].result # "none" => Engaged(t[i]))
  <2>1. CASE i = Len(s) + 1
    BY <1>1, <1>2, <2>1
  <2>2. CASE i # Len(s) + 1
    <3>1. i \in DOMAIN s /\ t[i] = s[i]
      BY <1>1, <1>2, <2>2
    <3>2. CASE i = Len(s)
      <4>1. s # <<>> /\ Last(s) = s[i]
        BY <1>1, <3>1, <3>2 DEF Last
      <4>. QED BY <3>1, <4>1 DEF SaneStack
    <3>3. CASE i # Len(s)
      <4>1. i < Len(s)
        BY <1>1, <3>1, <3>3
      <4>. QED BY <3>1, <4>1 DEF SaneStack
    <3>. QED BY <3>2, <3>3
  <2>. QED BY <2>1, <2>2
<1>. QED BY <1>3 DEF SaneStack, t

LEMMA SaneReturn ==
  ASSUME UniqueIds, NEW s \in Seq(Calls), Len(s) > 1, SaneStack(s), NEW r \in {"ok", "error"}
  PROVE  LET caller == s[Len(s) - 1]
         IN SaneStack(Append(Front(Front(s)), [caller EXCEPT !.result = r]))
<1>. DEFINE f == s[Len(s) - 1]
            g == [f EXCEPT !.result = r]
            u == Front(s)
<1>1. /\ Len(s) \in Nat \ {0} /\ DOMAIN s = 1 .. Len(s) /\ u \in Seq(Calls)
      /\ Len(u) = Len(s) - 1 /\ \A i \in 1 .. Len(s) - 1 : u[i] = s[i]
      /\ DOMAIN u = 1 .. Len(s) - 1
  <2>1. s # <<>>
    OBVIOUS
  <2>. QED BY <2>1, FrontOf
<1>2. Len(s) - 1 \in DOMAIN s /\ Len(s) - 1 < Len(s) /\ u # <<>> /\ f \in Calls
  BY <1>1
<1>3. Sane(f) /\ Engaged(f)
  BY <1>2 DEF SaneStack
<1>4. g \in Calls
  BY <1>2, EndedCall
<1>5. /\ g.flow = f.flow /\ g.order = f.order /\ g.at = f.at /\ g.log = f.log
      /\ g.skipped = f.skipped /\ g.seeded = f.seeded /\ g.cut = f.cut
  <2>1. f \in FrameOf(f.flow)
    BY <1>2, CallTyped
  <2>. HIDE DEF f
  <2>. QED BY <2>1 DEF FrameOf
<1>. HIDE DEF f, g
<1>6. Sane(g) /\ Engaged(g)
  BY <1>3, <1>5, SaneSame, EngagedSame
<1>7. SaneStack(u)
  <2>. HIDE DEF u
  <2>. SUFFICES ASSUME NEW i \in DOMAIN u PROVE Sane(u[i]) /\ Engaged(u[i])
    BY DEF SaneStack
  <2>1. i \in DOMAIN s /\ i < Len(s) /\ u[i] = s[i]
    BY <1>1
  <2>. QED BY <2>1 DEF SaneStack
<1>8. SaneStack(Append(Front(u), g))
  <2>. HIDE DEF u
  <2>. QED BY <1>1, <1>2, <1>4, <1>6, <1>7, SaneTop
<1>. QED BY <1>8 DEF f, g

\* A worker that is not in a run has no calls.
SaneInv ==
  /\ pc \in [Workers -> PC]
  /\ \A w \in Workers : (pc[w] # "running" => stack[w] = <<>>) /\ SaneStack(stack[w])

LEMMA SaneEmpty == SaneStack(<<>>)
BY DEF SaneStack

\* What a step of a worker has to show.
LEMMA SaneWorker ==
  ASSUME RunsInv, SaneInv, NEW w \in Workers, NEW place \in PC, NEW t,
         pc' = [pc EXCEPT ![w] = place], stack' = [stack EXCEPT ![w] = t],
         SaneStack(t), place # "running" => t = <<>>
  PROVE  SaneInv'
<1>1. /\ pc' \in [Workers -> PC] /\ pc'[w] = place
      /\ \A v \in Workers \ {w} : pc'[v] = pc[v]
  BY DEF SaneInv
<1>2. stack'[w] = t /\ \A v \in Workers \ {w} : stack'[v] = stack[v]
  BY DEF RunsInv, Stacks
<1>. QED BY <1>1, <1>2 DEF SaneInv

\* The current node of a worker that is due.
LEMMA DueEngaged ==
  ASSUME UniqueIds, RunsInv, SaneInv, NEW w \in Workers, Running(w)
  PROVE  /\ stack[w] \in Seq(Calls) /\ stack[w] # <<>> /\ Top(w) \in Calls
         /\ SaneStack(stack[w]) /\ Sane(Top(w)) /\ pc = [pc EXCEPT ![w] = "running"]
         /\ Top(w).result # "none" => Engaged(Top(w))
         /\ Due(w) <=> Engaged(Top(w))
<1>1. /\ stack[w] \in Seq(Calls) /\ stack[w] # <<>> /\ Top(w) \in Calls
      /\ Len(stack[w]) \in DOMAIN stack[w] /\ Top(w) = stack[w][Len(stack[w])]
  BY TopTyped
<1>2. SaneStack(stack[w]) /\ pc = [pc EXCEPT ![w] = "running"]
  BY DEF SaneInv, Running
<1>3. Sane(Top(w)) /\ (Top(w).result # "none" => Engaged(Top(w)))
  BY <1>1, <1>2 DEF SaneStack
<1>. QED BY <1>1, <1>2, <1>3 DEF Due, Engaged

LEMMA SaneSetTop ==
  ASSUME UniqueIds, RunsInv, SaneInv, NEW w \in Workers, Running(w), NEW g \in Calls,
         Sane(g), g.result # "none" => Engaged(g), SetTop(w, g), UNCHANGED pc
  PROVE  SaneInv'
<1>1. /\ stack[w] \in Seq(Calls) /\ stack[w] # <<>> /\ SaneStack(stack[w])
      /\ pc = [pc EXCEPT ![w] = "running"]
  BY DueEngaged
<1>2. SaneStack(Append(Front(stack[w]), g))
  BY <1>1, SaneTop
<1>3. "running" \in PC
  BY DEF PC
<1>. QED BY <1>1, <1>2, <1>3, SaneWorker DEF SetTop

\* What an attempt or a retry leaves of the call.
LEMMA SameCall ==
  ASSUME UniqueIds, NEW f \in Calls, NEW r
  PROVE  \A g \in {[f EXCEPT !.result = r], [f EXCEPT !.attempt = @ + 1, !.result = r]} :
           /\ g.flow = f.flow /\ g.order = f.order /\ g.at = f.at /\ g.log = f.log
           /\ g.skipped = f.skipped /\ g.seeded = f.seeded /\ g.cut = f.cut /\ g.result = r
<1>1. f \in FrameOf(f.flow)
  BY CallTyped
<1>. QED BY <1>1 DEF FrameOf

LEMMA SaneNode ==
  ASSUME UniqueIds, RunsInv, SaneInv, NEW w \in Workers, NodeStep(w)
  PROVE  SaneInv'
<1>. DEFINE f == Top(w)
            n == Node(Top(w))
<1>0. ASSUME Running(w)
      PROVE  /\ f \in Calls /\ f.flow \in Flows /\ Sane(f)
             /\ stack[w] \in Seq(Calls) /\ stack[w] # <<>> /\ SaneStack(stack[w])
             /\ f.result # "none" => Engaged(f)
             /\ Due(w) <=> Engaged(f)
  BY <1>0, DueEngaged, TopTyped
<1>1. CASE PassUnknown(w)
  <2>. DEFINE g == Advance(f)
  <2>1. Running(w) /\ ~Over(f) /\ n \notin NodeIds(f.flow) /\ SetTop(w, g) /\ UNCHANGED pc
    BY <1>1 DEF PassUnknown
  <2>2. g \in Calls
    <3>1. f \in FrameOf(f.flow)
      BY <1>0, <2>1, CallTyped
    <3>. QED BY <1>0, <2>1, <3>1, LeftCall
  <2>3. /\ g.flow = f.flow /\ g.order = f.order /\ g.result = "none" /\ g.log = f.log
        /\ g.skipped = f.skipped /\ g.seeded = f.seeded /\ g.cut = f.cut
    <3>1. f \in FrameOf(f.flow)
      BY <1>0, <2>1, CallTyped
    <3>. QED BY <3>1, AdvanceFrame
  <2>. HIDE DEF f, g, n
  <2>4. Sane(g)
    BY <1>0, <2>1, <2>3, SaneSame
  <2>. QED BY <2>1, <2>2, <2>3, <2>4, SaneSetTop
<1>2. CASE SkipNode(w)
  <2>. DEFINE g == Advance([f EXCEPT !.skipped = @ \cup {n}, !.log[n] = "skipped"])
  <2>1. Running(w) /\ ~Over(f) /\ n \in NodeIds(f.flow) /\ Dead(f) /\ SetTop(w, g)
        /\ UNCHANGED pc
    BY <1>2 DEF SkipNode
  <2>2. g \in Calls /\ Passes(f, g)
    BY <1>0, <2>1, SkippedCall
  <2>. HIDE DEF g
  <2>3. Sane(g) /\ g.result = "none"
    BY <1>0, <2>1, <2>2, SaneSkipped DEF Passes
  <2>. QED BY <2>1, <2>2, <2>3, SaneSetTop
<1>3. CASE Perform(w)
  <2>1. Running(w) /\ Engaged(f)
    BY <1>0, <1>3 DEF Perform, Due
  <2>2. PICK r \in {"ok", "error"} : SetTop(w, [f EXCEPT !.result = r]) /\ UNCHANGED pc
    <3>1. PICK r \in Results(Kind(f.flow, n), clock[w]) : SetTop(w, [f EXCEPT !.result = r])
      BY <1>3 DEF Perform
    <3>2. r \in {"ok", "error"}
      BY DEF Results
    <3>. QED BY <1>3, <3>1, <3>2 DEF Perform
  <2>. DEFINE g == [f EXCEPT !.result = r]
  <2>3. g \in Calls
    BY <1>0, <2>1, EndedCall
  <2>4. /\ g.flow = f.flow /\ g.order = f.order /\ g.at = f.at /\ g.log = f.log
        /\ g.skipped = f.skipped /\ g.seeded = f.seeded /\ g.cut = f.cut
    BY <1>0, <2>1, SameCall
  <2>. HIDE DEF f, g
  <2>5. Sane(g) /\ Engaged(g)
    BY <1>0, <2>1, <2>4, SaneSame, EngagedSame
  <2>. QED BY <2>1, <2>2, <2>3, <2>5, SaneSetTop DEF g
<1>4. CASE EnterSub(w)
  <2>. DEFINE called == Conf(f.flow, n).workflow
              g == NewFrame(called, Depth(f) + 1)
  <2>1. Running(w) /\ n \in NodeIds(f.flow) /\ Kind(f.flow, n) = "execute_sub_workflow"
        /\ Due(w) /\ EnterRun(w, called, Depth(f) + 1) /\ UNCHANGED pc
    BY <1>4 DEF EnterSub, Due, Kind
  <2>2. called \in Flows /\ Depth(f) + 1 \in Nat
    BY <1>0, <2>1, DefinitionsAssumption DEF Depth
  <2>3. g \in Calls /\ Sane(g) /\ g.result = "none"
    BY <2>2, FirstCall, SaneFirst DEF NewFrame
  <2>4. stack' = [stack EXCEPT ![w] = Append(stack[w], g)]
    BY <2>1 DEF EnterRun
  <2>. HIDE DEF g, called
  <2>5. Engaged(Last(stack[w]))
    BY <1>0, <2>1 DEF Top
  <2>6. SaneStack(Append(stack[w], g))
    BY <1>0, <2>1, <2>3, <2>5, SaneEnter
  <2>7. pc' = [pc EXCEPT ![w] = "running"] /\ "running" \in PC
    BY <2>1, DueEngaged DEF PC
  <2>. QED BY <2>4, <2>6, <2>7, SaneWorker
<1>5. CASE SubRefused(w)
  <2>. DEFINE g == [f EXCEPT !.result = "error"]
  <2>1. Running(w) /\ Engaged(f) /\ SetTop(w, g) /\ UNCHANGED pc
    BY <1>0, <1>5 DEF SubRefused, Due
  <2>3. g \in Calls
    BY <1>0, <2>1, EndedCall
  <2>4. /\ g.flow = f.flow /\ g.order = f.order /\ g.at = f.at /\ g.log = f.log
        /\ g.skipped = f.skipped /\ g.seeded = f.seeded /\ g.cut = f.cut
    BY <1>0, <2>1, SameCall
  <2>. HIDE DEF f, g
  <2>5. Sane(g) /\ Engaged(g)
    BY <1>0, <2>1, <2>4, SaneSame, EngagedSame
  <2>. QED BY <2>1, <2>3, <2>5, SaneSetTop
<1>6. CASE CompleteNode(w)
  <2>1. Running(w) /\ ~Over(f) /\ n \in NodeIds(f.flow) /\ ~Dead(f) /\ UNCHANGED pc
    BY <1>6 DEF CompleteNode, Due
  <2>2. PICK skip \in SkipChoices(f.flow, n) :
          SetTop(w, Advance(Ask([f EXCEPT !.log[n] = "completed"], skip)))
    BY <1>6 DEF CompleteNode
  <2>. DEFINE g == Advance(Ask([f EXCEPT !.log[n] = "completed"], skip))
  <2>3. g \in Calls /\ Leaves(f, g, "completed", skip, {})
    BY <1>0, <2>1, CompletedCall
  <2>. HIDE DEF g
  <2>4. Sane(g) /\ g.result = "none"
    BY <1>0, <2>1, <2>3, SaneCompleted DEF Leaves
  <2>. QED BY <2>1, <2>2, <2>3, <2>4, SaneSetTop DEF g
<1>7. CASE Retry(w)
  <2>. DEFINE g == [f EXCEPT !.attempt = @ + 1, !.result = "none"]
  <2>1. Running(w) /\ ~Over(f) /\ AttemptsLeft(f) /\ SetTop(w, g) /\ UNCHANGED pc
    BY <1>7 DEF Retry, Due
  <2>2. g \in Calls
    BY <1>0, <2>1, RetriedCall
  <2>3. /\ g.flow = f.flow /\ g.order = f.order /\ g.log = f.log /\ g.result = "none"
        /\ g.skipped = f.skipped /\ g.seeded = f.seeded /\ g.cut = f.cut
    BY <1>0, <2>1, SameCall
  <2>. HIDE DEF f, g
  <2>4. Sane(g)
    BY <1>0, <2>1, <2>3, SaneSame
  <2>. QED BY <2>1, <2>2, <2>3, <2>4, SaneSetTop
<1>8. CASE Catch(w)
  <2>. DEFINE g == Advance(CatchSkips([f EXCEPT !.log[n] = "failed"], n))
  <2>1. Running(w) /\ ~Over(f) /\ n \in NodeIds(f.flow) /\ ~Dead(f) /\ SetTop(w, g)
        /\ UNCHANGED pc
    BY <1>8 DEF Catch, Failed, Due
  <2>2. g \in Calls /\ Leaves(f, g, "failed", GroupMates(f.flow, n), {CatchTarget(f.flow, n)})
    BY <1>0, <2>1, CaughtCall
  <2>. HIDE DEF g
  <2>3. Sane(g) /\ g.result = "none"
    BY <1>0, <2>1, <2>2, SaneCaught DEF Leaves
  <2>. QED BY <2>1, <2>2, <2>3, SaneSetTop
<1>9. ASSUME Running(w), NEW r \in {"ok", "error"}, Return(w, r) PROVE SaneInv'
  <2>1. CASE stack' = [stack EXCEPT ![w] = <<>>] /\ Goto(w, "recording")
    <3>1. "recording" \in PC
      BY DEF PC
    <3>. QED BY <2>1, <3>1, SaneEmpty, SaneWorker DEF Goto
  <2>2. CASE /\ Len(stack[w]) > 1 /\ UNCHANGED pc
             /\ stack' = [stack EXCEPT ![w] =
                            Append(Front(Front(stack[w])),
                                   [stack[w][Len(stack[w]) - 1] EXCEPT !.result = r])]
    <3>. DEFINE t == Append(Front(Front(stack[w])),
                            [stack[w][Len(stack[w]) - 1] EXCEPT !.result = r])
    <3>1. SaneStack(t)
      BY <1>0, <1>9, <2>2, SaneReturn
    <3>. HIDE DEF t
    <3>2. pc' = [pc EXCEPT ![w] = "running"] /\ "running" \in PC
      BY <1>9, <2>2, DueEngaged DEF PC
    <3>3. stack' = [stack EXCEPT ![w] = t]
      BY <2>2 DEF t
    <3>. QED BY <3>1, <3>2, <3>3, SaneWorker
  <2>. QED BY <1>9, <2>1, <2>2 DEF Return
<1>10. CASE Abort(w)
  BY <1>9, <1>10 DEF Abort, Failed, Due
<1>11. CASE EndRun(w)
  BY <1>9, <1>11 DEF EndRun
<1>. QED BY <1>1, <1>2, <1>3, <1>4, <1>5, <1>6, <1>7, <1>8, <1>10, <1>11 DEF NodeStep

LEMMA SaneInit ==
  ASSUME Init
  PROVE  SaneInv
<1>1. pc = [w \in Workers |-> "idle"] /\ stack = [w \in Workers |-> <<>>]
  BY DEF Init
<1>2. "idle" \in PC
  BY DEF PC
<1>. QED BY <1>1, <1>2, SaneEmpty DEF SaneInv

LEMMA SaneUnmoved ==
  ASSUME SaneInv, UNCHANGED <<pc, stack>>
  PROVE  SaneInv'
BY DEF SaneInv, SaneStack

\* A worker without calls moves on.
LEMMA SaneElsewhere ==
  ASSUME RunsInv, SaneInv, NEW w \in Workers, NEW place \in PC, pc[w] # "running",
         Goto(w, place), UNCHANGED stack
  PROVE  SaneInv'
<1>1. stack[w] = <<>> /\ stack' = [stack EXCEPT ![w] = <<>>]
  BY DEF SaneInv, RunsInv, Stacks
<1>. QED BY <1>1, SaneEmpty, SaneWorker DEF Goto

LEMMA SaneBegin ==
  ASSUME UniqueIds, RunsInv, SaneInv, NEW w \in Workers, pc[w] = "loading",
         EnterRun(w, root, 0), Goto(w, "running")
  PROVE  SaneInv'
<1>. DEFINE g == NewFrame(root, 0)
<1>1. root \in Flows /\ stack[w] = <<>> /\ <<>> \in Seq(Calls)
  BY DEF RunsInv, SaneInv
<1>2. g \in Calls /\ Sane(g) /\ g.result = "none"
  BY <1>1, FirstCall, SaneFirst DEF NewFrame
<1>3. stack' = [stack EXCEPT ![w] = Append(<<>>, g)]
  BY <1>1 DEF EnterRun
<1>. HIDE DEF g
<1>4. SaneStack(Append(<<>>, g))
  BY <1>1, <1>2, SaneEmpty, SaneEnter
<1>5. "running" \in PC
  BY DEF PC
<1>. QED BY <1>3, <1>4, <1>5, SaneWorker DEF Goto

LEMMA SaneReset ==
  ASSUME RunsInv, SaneInv, NEW w \in Workers, Reset(w)
  PROVE  SaneInv'
<1>1. "idle" \in PC
  BY DEF PC
<1>. QED BY <1>1, SaneEmpty, SaneWorker DEF Reset, Goto

LEMMA SaneStep ==
  ASSUME UniqueIds, RunsInv, SaneInv, [Next]_vars
  PROVE  SaneInv'
<1>0. {"loading", "nacking", "acking"} \subseteq PC
  BY DEF PC
<1>1. CASE Execute \/ ExecutePushFails \/ ReapDead \/ ReapLive
  BY <1>1, SaneUnmoved DEF Execute, ExecutePushFails, ReapDead, ReapLive, worker
<1>2. ASSUME NEW w \in Workers, WorkerStep(w) PROVE SaneInv'
  <2>1. CASE Take(w)
    BY <1>0, <2>1, SaneElsewhere DEF Take
  <2>2. CASE Begin(w)
    BY <2>2, SaneBegin DEF Begin
  <2>3. CASE NodeStep(w)
    BY <2>3, SaneNode
  <2>4. CASE Record(w)
    BY <1>0, <2>4, SaneElsewhere DEF Record
  <2>5. CASE AckJob(w) \/ NackJob(w)
    BY <2>5, SaneReset DEF AckJob, NackJob
  <2>. QED BY <1>2, <2>1, <2>2, <2>3, <2>4, <2>5 DEF WorkerStep
<1>3. ASSUME NEW w \in Workers, FaultStep(w) PROVE SaneInv'
  <2>1. CASE BeginUnmarked(w)
    BY <2>1, SaneBegin DEF BeginUnmarked
  <2>2. CASE LoadFails(w)
    BY <1>0, <2>2, SaneElsewhere DEF LoadFails
  <2>3. CASE RecordFails(w)
    BY <1>0, <2>3, SaneElsewhere DEF RecordFails
  <2>4. CASE Expire(w) \/ Shutdown(w)
    BY <2>4, SaneUnmoved DEF Expire, Shutdown
  <2>5. CASE Crash(w)
    BY <2>5, SaneReset DEF Crash
  <2>. QED BY <1>3, <2>1, <2>2, <2>3, <2>4, <2>5 DEF FaultStep
<1>4. CASE UNCHANGED vars
  BY <1>4, SaneUnmoved DEF vars, worker
<1>. QED BY <1>1, <1>2, <1>3, <1>4 DEF Next

LEMMA SaneAlways == UniqueIds => (Spec => [](RunsInv /\ SaneInv))
<1>. SUFFICES ASSUME UniqueIds PROVE Spec => [](RunsInv /\ SaneInv)
  OBVIOUS
<1>1. Init => RunsInv /\ SaneInv
  BY RunsInit, SaneInit
<1>2. RunsInv /\ SaneInv /\ [Next]_vars => RunsInv' /\ SaneInv'
  BY RunsStep, SaneStep
<1>. QED BY <1>1, <1>2, PTL DEF Spec

\* Whatever the definitions, if each lists a node id once, and as long as the
\* order respects the edges and no failure came behind its own handler: a
\* handler that only its own failure decides about runs. The failure un-skips
\* it, whoever could ask to skip it again is skipped with the group, and one of
\* its predecessors ran (engine.go: RunWorkflow, the catch of a failed node).
THEOREM CaughtIsHandledTheorem == UniqueIds => (Spec => []CaughtIsHandled)
<1>. SUFFICES ASSUME UniqueIds PROVE Spec => []CaughtIsHandled
  OBVIOUS
<1>1. RunsInv /\ SaneInv => CaughtIsHandled
  <2>. SUFFICES ASSUME RunsInv, SaneInv, NEW f \in Frames, Ordered(f), InTime(f),
                       NEW n \in NodeIds(f.flow), f.log[n] = "failed", Sheltered(f, n)
                PROVE  f.log[CatchTarget(f.flow, n)] # "skipped"
    BY DEF CaughtIsHandled
  <2>1. PICK w \in Workers : \E i \in DOMAIN stack[w] : f = stack[w][i]
    BY DEF Frames, ToSet
  <2>2. Sane(f)
    BY <2>1 DEF SaneInv, SaneStack
  <2>. QED BY <2>2 DEF Sane, HandlersRun
<1>. QED BY <1>1, SaneAlways, PTL

\* Whose frames a step can change, and how.
LEMMA FramesMoved ==
  ASSUME UniqueIds, RunsInv, [Next]_vars, NEW w \in Workers, Running(w), Running(w)'
  PROVE  stack'[w] = stack[w] \/ NodeStep(w)
<1>0. stack \in [Workers -> Seq(Calls)] /\ pc[w] = "running" /\ stack'[w] # <<>>
  BY DEF RunsInv, Stacks, Running
<1>1. ASSUME NEW v \in Workers, \E t : stack' = [stack EXCEPT ![v] = t], v # w
      PROVE  stack'[w] = stack[w]
  BY <1>0, <1>1
<1>2. CASE Execute \/ ExecutePushFails \/ ReapDead \/ ReapLive \/ UNCHANGED vars
  BY <1>2 DEF Execute, ExecutePushFails, ReapDead, ReapLive, vars, worker
<1>3. ASSUME NEW v \in Workers, WorkerStep(v) PROVE stack'[w] = stack[w] \/ NodeStep(w)
  <2>1. CASE Take(v) \/ Record(v)
    BY <2>1 DEF Take, Record
  <2>2. CASE Begin(v)
    BY <1>0, <1>1, <2>2 DEF Begin, EnterRun
  <2>3. CASE NodeStep(v) /\ v # w
    <3>1. \E t : stack' = [stack EXCEPT ![v] = t]
      BY <2>3 DEF NodeStep, PassUnknown, SkipNode, Perform, EnterSub, SubRefused,
                  CompleteNode, Retry, Catch, Abort, EndRun, SetTop, EnterRun, Return
    <3>. QED BY <1>1, <2>3, <3>1
  <2>4. CASE AckJob(v) \/ NackJob(v)
    <3>1. stack' = [stack EXCEPT ![v] = <<>>]
      BY <2>4 DEF AckJob, NackJob, Reset
    <3>. QED BY <1>0, <3>1
  <2>. QED BY <1>3, <2>1, <2>2, <2>3, <2>4 DEF WorkerStep
<1>4. ASSUME NEW v \in Workers, FaultStep(v) PROVE stack'[w] = stack[w]
  <2>1. CASE BeginUnmarked(v)
    BY <1>0, <1>1, <2>1 DEF BeginUnmarked, EnterRun
  <2>2. CASE LoadFails(v) \/ RecordFails(v) \/ Expire(v) \/ Shutdown(v)
    BY <2>2 DEF LoadFails, RecordFails, Expire, Shutdown
  <2>3. CASE Crash(v)
    <3>1. stack' = [stack EXCEPT ![v] = <<>>]
      BY <2>3 DEF Crash, Reset
    <3>. QED BY <1>0, <3>1
  <2>. QED BY <1>4, <2>1, <2>2, <2>3 DEF FaultStep
<1>. QED BY <1>2, <1>3, <1>4 DEF Next

LEMMA TopMoved ==
  ASSUME UniqueIds, RunsInv, NEW w \in Workers, Running(w), NEW g, SetTop(w, g)
  PROVE  Top(w)' = g
<1>. DEFINE u == Front(stack[w])
<1>1. stack \in Stacks /\ stack[w] \in Seq(Calls) /\ stack[w] # <<>>
  BY TopTyped DEF RunsInv
<1>2. u \in Seq(Calls)
  BY <1>1, FrontOf
<1>3. stack'[w] = Append(u, g)
  BY <1>1 DEF SetTop, Stacks
<1>. HIDE DEF u
<1>4. Len(Append(u, g)) = Len(u) + 1 /\ Append(u, g)[Len(u) + 1] = g
  BY <1>2
<1>. QED BY <1>3, <1>4 DEF Top, Last

\* What a step makes of the current node.
LEMMA NodeMoved ==
  ASSUME UniqueIds, RunsInv, SaneInv, NEW w \in Workers, NodeStep(w), ~Over(Top(w)),
         Node(Top(w)) \in NodeIds(Top(w).flow), Running(w), Running(w)',
         Len(stack'[w]) = Len(stack[w])
  PROVE  /\ Top(w)'.log[Node(Top(w))] = "skipped" => Dead(Top(w))
         /\ Top(w)'.result # "none" => ~Dead(Top(w))
<1>. DEFINE f == Top(w)
            n == Node(f)
            g == Top(w)'
<1>0. /\ f \in Calls /\ stack[w] \in Seq(Calls) /\ stack[w] # <<>> /\ stack \in Stacks
      /\ f \in FrameOf(f.flow)
  BY TopTyped DEF RunsInv
<1>1. f.log[n] # "skipped"
  <2>1. n \in Todo(f)
    BY <1>0, NodeFirst
  <2>. QED BY <2>1 DEF Todo
<1>2. CASE ~Dead(f) /\ \E r : SetTop(w, [f EXCEPT !.result = r])
  <2>1. PICK r : SetTop(w, [f EXCEPT !.result = r])
    BY <1>2
  <2>. DEFINE h == [f EXCEPT !.result = r]
  <2>2. h.log = f.log
    BY <1>0, SameCall
  <2>. HIDE DEF h
  <2>3. g = h
    BY <2>1, TopMoved DEF h
  <2>. QED BY <1>1, <1>2, <2>2, <2>3
<1>3. CASE PassUnknown(w)
  BY <1>3 DEF PassUnknown
<1>4. CASE SkipNode(w)
  <2>. DEFINE h == Advance([f EXCEPT !.skipped = @ \cup {n}, !.log[n] = "skipped"])
  <2>1. Dead(f) /\ SetTop(w, h)
    BY <1>4 DEF SkipNode
  <2>2. h.result = "none"
    BY <1>0, SkippedCall DEF Passes
  <2>3. g = h
    BY <2>1, TopMoved
  <2>. QED BY <2>1, <2>2, <2>3
<1>5. CASE Perform(w)
  BY <1>2, <1>5 DEF Perform, Due
<1>6. CASE SubRefused(w)
  BY <1>2, <1>6 DEF SubRefused, Due
<1>7. CASE EnterSub(w)
  <2>1. PICK h : stack' = [stack EXCEPT ![w] = Append(stack[w], h)]
    BY <1>7 DEF EnterSub, EnterRun
  <2>2. stack'[w] = Append(stack[w], h)
    BY <1>0, <2>1 DEF Stacks
  <2>3. Len(Append(stack[w], h)) = Len(stack[w]) + 1 /\ Len(stack[w]) \in Nat
    BY <1>0
  <2>. QED BY <2>2, <2>3
<1>8. CASE CompleteNode(w)
  <2>1. PICK skip \in SkipChoices(f.flow, n) :
          SetTop(w, Advance(Ask([f EXCEPT !.log[n] = "completed"], skip)))
    BY <1>8 DEF CompleteNode
  <2>. DEFINE h == Advance(Ask([f EXCEPT !.log[n] = "completed"], skip))
  <2>2. Leaves(f, h, "completed", skip, {}) /\ h \in Calls
    BY <1>0, CompletedCall
  <2>. HIDE DEF h
  <2>3. h.log[n] = "completed" /\ h.result = "none"
    BY <1>0, <2>2, LineTyped DEF Leaves
  <2>4. g = h
    BY <2>1, TopMoved DEF h
  <2>. QED BY <2>3, <2>4
<1>9. CASE Retry(w)
  <2>. DEFINE h == [f EXCEPT !.attempt = @ + 1, !.result = "none"]
  <2>1. SetTop(w, h)
    BY <1>9 DEF Retry
  <2>2. h.log = f.log /\ h.result = "none"
    BY <1>0, SameCall
  <2>. HIDE DEF h
  <2>3. g = h
    BY <2>1, TopMoved
  <2>. QED BY <1>1, <2>2, <2>3
<1>10. CASE Catch(w)
  <2>. DEFINE h == Advance(CatchSkips([f EXCEPT !.log[n] = "failed"], n))
  <2>1. SetTop(w, h)
    BY <1>10 DEF Catch
  <2>2. Leaves(f, h, "failed", GroupMates(f.flow, n), {CatchTarget(f.flow, n)}) /\ h \in Calls
    BY <1>0, CaughtCall
  <2>. HIDE DEF h
  <2>3. h.log[n] = "failed" /\ h.result = "none"
    BY <1>0, <2>2, LineTyped DEF Leaves
  <2>4. g = h
    BY <2>1, TopMoved
  <2>. QED BY <2>3, <2>4
<1>11. ASSUME NEW r, Return(w, r) PROVE FALSE
  <2>1. CASE pc' = [pc EXCEPT ![w] = "recording"]
    <3>1. pc'[w] = "recording"
      BY <2>1 DEF SaneInv
    <3>. QED BY <3>1 DEF Running
  <2>2. CASE \E x : /\ Len(stack[w]) > 1
                    /\ stack' = [stack EXCEPT ![w] = Append(Front(Front(stack[w])), x)]
    <3>1. PICK x : stack' = [stack EXCEPT ![w] = Append(Front(Front(stack[w])), x)]
      BY <2>2
    <3>. DEFINE u == Front(stack[w])
                v == Front(u)
    <3>2. u \in Seq(Calls) /\ Len(u) = Len(stack[w]) - 1 /\ Len(stack[w]) \in Nat
      BY <1>0, FrontOf
    <3>3. v \in Seq(Calls) /\ Len(v) = Len(u) - 1
      <4>. HIDE DEF u
      <4>1. u # <<>>
        BY <2>2, <3>2
      <4>. QED BY <3>2, <4>1, FrontOf
    <3>4. stack'[w] = Append(v, x)
      BY <1>0, <3>1 DEF Stacks
    <3>. HIDE DEF u, v
    <3>5. Len(Append(v, x)) = Len(v) + 1
      BY <3>3
    <3>6. Len(Append(v, x)) = Len(stack[w]) - 1
      BY <3>2, <3>3, <3>5
    <3>. QED BY <3>2, <3>4, <3>6
  <2>. QED BY <1>11, <2>1, <2>2 DEF Return, Goto
<1>12. CASE Abort(w) \/ EndRun(w)
  BY <1>11, <1>12 DEF Abort, EndRun
<1>. QED BY <1>3, <1>4, <1>5, <1>6, <1>7, <1>8, <1>9, <1>10, <1>12 DEF NodeStep

\* Whatever the definitions, if each lists a node id once: as long as the order
\* respects the edges and no failure came behind its own handler, the loop skips
\* the nodes no path of taken branches reaches, and attempts the others only.
\* The map of skipped nodes says of every predecessor of the current node
\* whether it was skipped or asked for too late (Recorded); along the order, that
\* is reachability (engine.go: RunWorkflow).
THEOREM PrunesDeadBranchesTheorem == UniqueIds => (Spec => PrunesDeadBranches)
<1>. SUFFICES ASSUME UniqueIds PROVE Spec => PrunesDeadBranches
  OBVIOUS
<1>. DEFINE Prunes(w) ==
       LET f == Top(w) g == Top(w)' n == Node(f) IN
       (/\ Running(w) /\ Running(w)' /\ Len(stack'[w]) = Len(stack[w])
        /\ ~Over(f) /\ n \in NodeIds(f.flow) /\ Ordered(f) /\ InTime(f))
       => /\ g.log[n] = "skipped" => n \notin LiveNodes(f)
          /\ g.result # "none" => n \in LiveNodes(f)
<1>1. ASSUME RunsInv, SaneInv, [Next]_vars, NEW w \in Workers PROVE Prunes(w)
  <2>. DEFINE f == Top(w)
              n == Node(f)
  <2>. SUFFICES ASSUME Running(w), Running(w)', Len(stack'[w]) = Len(stack[w]), ~Over(f),
                       n \in NodeIds(f.flow), Ordered(f), InTime(f)
                PROVE  /\ Top(w)'.log[n] = "skipped" => n \notin LiveNodes(f)
                       /\ Top(w)'.result # "none" => n \in LiveNodes(f)
    OBVIOUS
  <2>1. f \in Calls /\ Sane(f) /\ (f.result # "none" => Engaged(f))
    BY <1>1, DueEngaged
  <2>2. n \in LiveNodes(f) <=> ~Dead(f)
    BY <2>1, LiveNode DEF Sane
  <2>3. CASE stack'[w] = stack[w]
    <3>1. Top(w)' = f
      BY <2>3 DEF Top
    <3>2. f.log[n] # "skipped"
      BY <2>1, NodeFirst DEF Todo
    <3>. QED BY <2>1, <2>2, <3>1, <3>2 DEF Engaged
  <2>4. CASE NodeStep(w)
    BY <1>1, <2>2, <2>4, NodeMoved
  <2>. QED BY <1>1, <2>3, <2>4, FramesMoved
<1>2. RunsInv /\ SaneInv /\ [Next]_vars => [\A w \in Workers : Prunes(w)]_vars
  BY <1>1
<1>3. Spec => [][\A w \in Workers : Prunes(w)]_vars
  <2>. HIDE DEF Prunes
  <2>. QED BY <1>2, SaneAlways, PTL DEF Spec
<1>. QED BY <1>3 DEF PrunesDeadBranches
-----------------------------------------------------------------------------
(* No execution is forgotten.                                              *)

Final == {"completed", "failed"}

HeldTypes ==
  /\ QueueTypeOK
  /\ row \in Status /\ pushed \in BOOLEAN
  /\ pc \in [Workers -> PC]
  /\ lease \in [Workers -> Lease \cup {NoLease}]

\* Every busy worker has a receipt of its own, and one that loads the workflow
\* has its copy on the processing list.
Receipts ==
  /\ \A l \in leased : l.no <= deliveries
  /\ \A w \in Workers : lease[w].no <= deliveries
  /\ \A w \in Workers : pc[w] # "idle" <=> lease[w] # NoLease
  /\ \A v, w \in Workers : pc[v] # "idle" /\ lease[v] = lease[w] => v = w
  /\ \A w \in Workers : pc[w] = "loading" => lease[w] \in leased
  /\ row = "none" => ~pushed

HeldInv == HeldTypes /\ Receipts /\ ExecutionHeld

LEMMA LeaseFacts ==
  /\ MaxRetries \in Nat \ {0} /\ 0 \in 0 .. MaxRetries - 1
  /\ NoLease \notin Lease /\ NoLease.no = 0
  /\ NoLease.retries \in 0 .. MaxRetries - 1
  /\ \A l \in Lease : l.no \in Nat \ {0} /\ l.retries \in 0 .. MaxRetries - 1
BY RetriesAssumption DEF Lease, NoLease

\* A copy that is given back waits again, or is dead-lettered.
LEMMA NackHolds ==
  ASSUME QueueTypeOK, NEW l \in Lease \cup {NoLease}, Nack(l)
  PROVE  /\ QueueTypeOK'
         /\ leased' = leased \ {l} /\ deliveries' = deliveries
         /\ dead' > 0 \/ \E r \in 0 .. MaxRetries - 1 : waiting'[r] > 0
<1>1. l.retries \in 0 .. MaxRetries - 1 /\ l.retries \in Nat /\ MaxRetries \in Nat
  BY LeaseFacts
<1>2. leased' = leased \ {l} /\ deliveries' = deliveries
  BY DEF Nack
<1>3. CASE l.retries + 1 < MaxRetries
  <2>1. l.retries + 1 \in 0 .. MaxRetries - 1
    BY <1>1, <1>3
  <2>2. waiting' = [waiting EXCEPT ![l.retries + 1] = @ + 1] /\ dead' = dead
    BY <1>1, <1>3 DEF Nack
  <2>3. /\ waiting' \in [0 .. MaxRetries - 1 -> Nat]
        /\ waiting'[l.retries + 1] > 0
    BY <2>1, <2>2 DEF QueueTypeOK
  <2>. QED BY <1>2, <2>1, <2>2, <2>3 DEF QueueTypeOK
<1>4. CASE l.retries + 1 = MaxRetries
  <2>1. dead' = dead + 1 /\ waiting' = waiting
    BY <1>1, <1>4 DEF Nack
  <2>. QED BY <1>2, <2>1 DEF QueueTypeOK
<1>. QED BY <1>1, <1>3, <1>4 DEF Nack

\* The worker goes on with the job it has.
LEMMA HeldGoesOn ==
  ASSUME HeldInv, NEW w \in Workers, pc[w] # "idle",
         NEW p \in PC \ {"idle", "loading"}, Goto(w, p),
         UNCHANGED <<pushed, queue, lease>>, row' \in Status,
         \/ row' \in Final
         \/ p # "acking" /\ row' = row
         \/ p # "acking" /\ row' # "none" /\ pc[w] = "loading"
  PROVE  HeldInv'
<1>1. pc' = [pc EXCEPT ![w] = p] /\ UNCHANGED <<waiting, leased, dead, deliveries>>
  BY DEF Goto, queue
<1>2. HeldTypes'
  BY <1>1 DEF HeldInv, HeldTypes, QueueTypeOK
<1>3. \A v \in Workers : pc'[v] = IF v = w THEN p ELSE pc[v]
  BY <1>1 DEF HeldInv, HeldTypes
<1>4. row' = "none" => ~pushed'
  BY DEF HeldInv, Receipts, Final
<1>5. Receipts'
  BY <1>1, <1>3, <1>4 DEF HeldInv, Receipts
<1>6. ExecutionHeld'
  <2>1. CASE row' \in Final
    BY <2>1 DEF ExecutionHeld, Final
  <2>2. CASE p # "acking" /\ row' = row
    BY <1>1, <1>3, <2>2 DEF HeldInv, ExecutionHeld
  <2>3. CASE p # "acking" /\ pc[w] = "loading"
    <3>1. lease[w] \in leased
      BY <2>3 DEF HeldInv, Receipts
    <3>2. \A v \in Workers : lease[v] = lease[w] => v = w
      BY DEF HeldInv, Receipts
    <3>. QED BY <1>1, <1>3, <2>3, <3>1, <3>2 DEF ExecutionHeld
  <2>. QED BY <2>1, <2>2, <2>3
<1>. QED BY <1>2, <1>5, <1>6 DEF HeldInv

\* A copy goes back, and with it perhaps the worker that held it; who loads the
\* workflow from it is not meant.
LEMMA HeldNack ==
  ASSUME HeldInv, NEW l \in Lease \cup {NoLease}, Nack(l),
         UNCHANGED <<row, pushed>>,
         NEW w \in Workers,
         \/ /\ UNCHANGED <<pc, lease>>
            /\ \A v \in Workers : lease[v] = l => pc[v] # "loading"
         \/ /\ pc[w] = "nacking" /\ l = lease[w] /\ Reset(w)
  PROVE  HeldInv'
<1>1. QueueTypeOK'
  BY NackHolds DEF HeldInv, HeldTypes
<1>2. leased' = leased \ {l} /\ deliveries' = deliveries
  BY NackHolds DEF HeldInv, HeldTypes
<1>3. ExecutionHeld'
  BY NackHolds DEF HeldInv, HeldTypes, ExecutionHeld
<1>4. CASE /\ UNCHANGED <<pc, lease>>
           /\ \A v \in Workers : lease[v] = l => pc[v] # "loading"
  BY <1>1, <1>2, <1>3, <1>4 DEF HeldInv, HeldTypes, Receipts
<1>5. CASE pc[w] = "nacking" /\ l = lease[w] /\ Reset(w)
  <2>1. /\ pc' = [pc EXCEPT ![w] = "idle"] /\ lease' = [lease EXCEPT ![w] = NoLease]
    BY <1>5 DEF Reset, Goto
  <2>2. HeldTypes'
    BY <1>1, <2>1 DEF HeldInv, HeldTypes, PC
  <2>3. \A v \in Workers : /\ pc'[v] = IF v = w THEN "idle" ELSE pc[v]
                           /\ lease'[v] = IF v = w THEN NoLease ELSE lease[v]
    BY <2>1 DEF HeldInv, HeldTypes
  <2>4. \A v \in Workers : v # w => lease[v] # l
    BY <1>5 DEF HeldInv, Receipts
  <2>5. Receipts'
    <3>1. NoLease.no <= deliveries'
      BY <1>2, LeaseFacts DEF HeldInv, HeldTypes, QueueTypeOK
    <3>2. \A v \in Workers : lease'[v].no <= deliveries'
      BY <1>2, <2>3, <3>1 DEF HeldInv, Receipts
    <3>3. \A v \in Workers : pc'[v] # "idle" <=> lease'[v] # NoLease
      BY <2>3 DEF HeldInv, Receipts
    <3>4. \A u, v \in Workers : pc'[u] # "idle" /\ lease'[u] = lease'[v] => u = v
      BY <2>3, <3>3 DEF HeldInv, Receipts
    <3>5. \A v \in Workers : pc'[v] = "loading" => lease'[v] \in leased'
      BY <1>2, <2>3, <2>4 DEF HeldInv, Receipts
    <3>. QED BY <1>2, <3>2, <3>3, <3>4, <3>5 DEF HeldInv, Receipts
  <2>. QED BY <1>3, <2>2, <2>5 DEF HeldInv
<1>. QED BY <1>4, <1>5

LEMMA HeldTake ==
  ASSUME HeldInv, NEW w \in Workers, Take(w)
  PROVE  HeldInv'
<1>1. PICK r \in 0 .. MaxRetries - 1 :
        Pop(r) /\ lease' = [lease EXCEPT ![w] = NextLease(r)]
  BY DEF Take
<1>. DEFINE n == NextLease(r)
<1>2. n \in Lease /\ n.no = deliveries + 1 /\ deliveries \in Nat
  BY DEF HeldInv, HeldTypes, QueueTypeOK, NextLease, Lease
<1>3. /\ leased' = leased \cup {n} /\ deliveries' = deliveries + 1 /\ dead' = dead
      /\ pc' = [pc EXCEPT ![w] = "loading"] /\ lease' = [lease EXCEPT ![w] = n]
      /\ UNCHANGED <<row, pushed>>
  BY <1>1 DEF Pop, Take, Goto
<1>4. waiting' \in [0 .. MaxRetries - 1 -> Nat]
  <2>1. waiting[r] - 1 \in Nat
    BY <1>1 DEF HeldInv, HeldTypes, QueueTypeOK, Pop
  <2>. QED BY <1>1, <2>1 DEF HeldInv, HeldTypes, QueueTypeOK, Pop
<1>. HIDE DEF n
<1>5. HeldTypes'
  BY <1>2, <1>3, <1>4 DEF HeldInv, HeldTypes, QueueTypeOK, PC
<1>6. \A v \in Workers : /\ pc'[v] = IF v = w THEN "loading" ELSE pc[v]
                         /\ lease'[v] = IF v = w THEN n ELSE lease[v]
  BY <1>3 DEF HeldInv, HeldTypes
<1>7. \A v \in Workers : lease[v] # n
  <2>1. \A v \in Workers : lease[v].no \in Nat /\ lease[v].no <= deliveries
    BY LeaseFacts DEF HeldInv, HeldTypes, Receipts
  <2>. QED BY <1>2, <2>1
<1>8. n # NoLease
  BY <1>2, LeaseFacts
<1>9. Receipts'
  <2>1. \A l \in leased' : l.no <= deliveries'
    <3>1. \A l \in leased : l.no \in Nat /\ l.no <= deliveries
      BY LeaseFacts DEF HeldInv, HeldTypes, QueueTypeOK, Receipts
    <3>. QED BY <1>2, <1>3, <3>1
  <2>2. \A v \in Workers : lease'[v].no <= deliveries'
    <3>1. \A v \in Workers : lease[v].no \in Nat /\ lease[v].no <= deliveries
      BY LeaseFacts DEF HeldInv, HeldTypes, Receipts
    <3>. QED BY <1>2, <1>3, <1>6, <3>1
  <2>3. \A v \in Workers : pc'[v] # "idle" <=> lease'[v] # NoLease
    BY <1>6, <1>8 DEF HeldInv, Receipts
  <2>4. \A u, v \in Workers : pc'[u] # "idle" /\ lease'[u] = lease'[v] => u = v
    BY <1>6, <1>7 DEF HeldInv, Receipts
  <2>5. \A v \in Workers : pc'[v] = "loading" => lease'[v] \in leased'
    BY <1>3, <1>6 DEF HeldInv, Receipts
  <2>. QED BY <1>3, <2>1, <2>2, <2>3, <2>4, <2>5 DEF HeldInv, Receipts
<1>10. ExecutionHeld'
  <2>1. n \in leased' /\ \A v \in Workers : lease'[v] = n => pc'[v] # "acking"
    BY <1>3, <1>6, <1>7
  <2>. QED BY <2>1 DEF ExecutionHeld
<1>. QED BY <1>5, <1>9, <1>10 DEF HeldInv

\* The worker is gone, and with it perhaps the copy it had a last write for.
LEMMA HeldReset ==
  ASSUME HeldInv, NEW w \in Workers, Reset(w), UNCHANGED <<row, pushed>>,
         \/ UNCHANGED queue
         \/ pc[w] = "acking" /\ Ack(lease[w])
  PROVE  HeldInv'
<1>1. /\ pc' = [pc EXCEPT ![w] = "idle"] /\ lease' = [lease EXCEPT ![w] = NoLease]
  BY DEF Reset, Goto
<1>2. /\ UNCHANGED <<waiting, dead, deliveries>> /\ leased' \subseteq leased
      /\ leased \ {lease[w]} \subseteq leased'
      /\ leased' # leased => pc[w] = "acking"
  BY DEF Ack, queue
<1>3. HeldTypes'
  BY <1>1, <1>2 DEF HeldInv, HeldTypes, QueueTypeOK, PC
<1>4. \A v \in Workers : /\ pc'[v] = IF v = w THEN "idle" ELSE pc[v]
                         /\ lease'[v] = IF v = w THEN NoLease ELSE lease[v]
  BY <1>1 DEF HeldInv, HeldTypes
<1>5. Receipts'
  <2>1. NoLease.no <= deliveries'
    BY <1>2, LeaseFacts DEF HeldInv, HeldTypes, QueueTypeOK
  <2>2. \A v \in Workers : lease'[v].no <= deliveries'
    BY <1>2, <1>4, <2>1 DEF HeldInv, Receipts
  <2>3. \A v \in Workers : pc'[v] # "idle" <=> lease'[v] # NoLease
    BY <1>4 DEF HeldInv, Receipts
  <2>4. \A u, v \in Workers : pc'[u] # "idle" /\ lease'[u] = lease'[v] => u = v
    BY <1>4, <2>3 DEF HeldInv, Receipts
  <2>5. \A v \in Workers : pc'[v] = "loading" => lease'[v] \in leased'
    <3>. SUFFICES ASSUME NEW v \in Workers, pc'[v] = "loading"
                  PROVE  lease'[v] \in leased'
      OBVIOUS
    <3>1. v # w /\ pc[v] = "loading" /\ lease'[v] = lease[v]
      BY <1>4
    <3>2. lease[v] # lease[w] /\ lease[v] \in leased
      BY <3>1 DEF HeldInv, Receipts
    <3>. QED BY <1>2, <3>1, <3>2
  <2>. QED BY <1>2, <2>2, <2>3, <2>4, <2>5 DEF HeldInv, Receipts
<1>6. ExecutionHeld'
  <2>. SUFFICES ASSUME pushed', row' \notin {"completed", "failed"}, ~(dead' > 0),
                       ~\E r \in 0 .. MaxRetries - 1 : waiting'[r] > 0
                PROVE  \E l \in leased' : \A v \in Workers : lease'[v] = l => pc'[v] # "acking"
    BY DEF ExecutionHeld
  <2>1. PICK l \in leased : \A v \in Workers : lease[v] = l => pc[v] # "acking"
    BY <1>2 DEF HeldInv, ExecutionHeld
  <2>2. l \in leased'
    BY <1>2, <2>1
  <2>. QED BY <1>4, <2>1, <2>2
<1>. QED BY <1>3, <1>5, <1>6 DEF HeldInv

LEMMA HeldSame ==
  ASSUME HeldInv, UNCHANGED <<row, pushed, queue, pc, lease>>
  PROVE  HeldInv'
BY DEF HeldInv, HeldTypes, QueueTypeOK, Receipts, ExecutionHeld, queue

LEMMA HeldStep ==
  ASSUME HeldInv, [Next]_vars
  PROVE  HeldInv'
<1>0. /\ \A w \in Workers : lease[w] \in Lease \cup {NoLease}
      /\ \A l \in leased : l \in Lease
      /\ row \in Status
  BY DEF HeldInv, HeldTypes, QueueTypeOK
<1>1. CASE Execute
  <2>1. /\ waiting' = [waiting EXCEPT ![0] = @ + 1] /\ UNCHANGED <<leased, dead, deliveries>>
        /\ row' = "pending" /\ pushed' = TRUE /\ UNCHANGED <<pc, lease>>
    BY <1>1 DEF Execute, Push, worker
  <2>2. waiting' \in [0 .. MaxRetries - 1 -> Nat] /\ waiting'[0] > 0
    BY <2>1, LeaseFacts DEF HeldInv, HeldTypes, QueueTypeOK
  <2>3. HeldTypes'
    BY <2>1, <2>2 DEF HeldInv, HeldTypes, QueueTypeOK, Status
  <2>. QED BY <2>1, <2>2, <2>3, LeaseFacts DEF HeldInv, Receipts, ExecutionHeld
<1>2. CASE ExecutePushFails
  <2>1. row = "none" /\ row' = "pending" /\ UNCHANGED <<pushed, queue, pc, lease>>
    BY <1>2 DEF ExecutePushFails, worker
  <2>. QED BY <2>1 DEF HeldInv, HeldTypes, QueueTypeOK, Receipts, ExecutionHeld, queue, Status
<1>3. ASSUME NEW w \in Workers, WorkerStep(w) PROVE HeldInv'
  <2>1. CASE Take(w)
    BY <2>1, HeldTake
  <2>2. CASE Begin(w)
    BY <2>2, HeldGoesOn DEF Begin, PC, Status
  <2>3. CASE NodeStep(w)
    <3>1. pc[w] = "running" /\ UNCHANGED <<row, pushed, queue, lease>>
      BY <2>3 DEF NodeStep, PassUnknown, SkipNode, Perform, EnterSub, SubRefused, CompleteNode,
                  Retry, Catch, Abort, EndRun, Inner, Due, Failed, Running
    <3>2. pc' = pc \/ Goto(w, "recording")
      BY <2>3 DEF NodeStep, PassUnknown, SkipNode, Perform, EnterSub, SubRefused, CompleteNode,
                  Retry, Catch, Abort, EndRun, Return
    <3>3. CASE pc' = pc
      BY <3>1, <3>3, HeldSame
    <3>4. CASE Goto(w, "recording")
      BY <1>0, <3>1, <3>4, HeldGoesOn DEF PC
    <3>. QED BY <3>2, <3>3, <3>4
  <2>4. CASE Record(w)
    <3>1. row' \in Final /\ row' \in Status
      BY <2>4 DEF Record, Final, Status
    <3>. QED BY <2>4, <3>1, HeldGoesOn DEF Record, PC
  <2>5. CASE AckJob(w)
    BY <2>5, HeldReset DEF AckJob
  <2>6. CASE NackJob(w)
    BY <1>0, <2>6, HeldNack DEF NackJob
  <2>. QED BY <1>3, <2>1, <2>2, <2>3, <2>4, <2>5, <2>6 DEF WorkerStep
<1>4. ASSUME NEW w \in Workers, FaultStep(w) PROVE HeldInv'
  <2>1. CASE BeginUnmarked(w)
    BY <1>0, <2>1, HeldGoesOn DEF BeginUnmarked, PC
  <2>2. CASE LoadFails(w)
    <3>1. row' \in Final /\ row' \in Status
      BY <2>2 DEF LoadFails, Final, Status
    <3>. QED BY <2>2, <3>1, HeldGoesOn DEF LoadFails, PC
  <2>3. CASE RecordFails(w)
    BY <1>0, <2>3, HeldGoesOn DEF RecordFails, PC
  <2>4. CASE Expire(w) \/ Shutdown(w)
    BY <2>4, HeldSame DEF Expire, Shutdown
  <2>5. CASE Crash(w)
    BY <2>5, HeldReset DEF Crash
  <2>. QED BY <1>4, <2>1, <2>2, <2>3, <2>4, <2>5 DEF FaultStep
<1>5. CASE ReapDead
  <2>1. PICK l \in leased : ~Held(l) /\ Nack(l)
    BY <1>5 DEF ReapDead
  <2>2. l \in Lease /\ \A v \in Workers : lease[v] # l
    BY <1>0, <2>1 DEF Held
  <2>3. UNCHANGED <<row, pushed, pc, lease>>
    BY <1>5 DEF ReapDead, worker
  <2>4. QueueTypeOK' /\ leased' \subseteq leased /\ leased \ {l} \subseteq leased'
        /\ deliveries' = deliveries
    BY <2>1, <2>2, NackHolds DEF HeldInv, HeldTypes
  <2>5. ExecutionHeld'
    BY <2>1, <2>2, NackHolds DEF HeldInv, HeldTypes, ExecutionHeld
  <2>6. Receipts'
    BY <2>2, <2>3, <2>4 DEF HeldInv, Receipts
  <2>. QED BY <2>3, <2>4, <2>5, <2>6 DEF HeldInv, HeldTypes
<1>6. CASE ReapLive
  <2>1. PICK w \in Workers : pc[w] # "loading" /\ lease[w] \in leased /\ Nack(lease[w])
    BY <1>6 DEF ReapLive
  <2>2. pc[w] # "idle"
    BY <1>0, <2>1, LeaseFacts DEF HeldInv, Receipts
  <2>3. \A v \in Workers : lease[v] = lease[w] => v = w
    BY <2>2 DEF HeldInv, Receipts
  <2>4. UNCHANGED <<row, pushed, pc, lease>>
    BY <1>6 DEF ReapLive, worker
  <2>. QED BY <1>0, <2>1, <2>3, <2>4, HeldNack
<1>7. CASE UNCHANGED vars
  BY <1>7, HeldSame DEF vars, worker
<1>. QED BY <1>1, <1>2, <1>3, <1>4, <1>5, <1>6, <1>7 DEF Next

\* Whatever crashes, is shut down, fails to be written or is reaped: a copy of
\* the job that was pushed goes only behind a last write of the execution
\* (worker/executions.go: the Ack behind UpdateExecution), so an execution that
\* is not over is not forgotten, for any number of workers and retries.
THEOREM ExecutionHeldTheorem == Spec => []ExecutionHeld
<1>1. Init => HeldInv
  <2>. SUFFICES ASSUME Init PROVE HeldInv
    OBVIOUS
  <2>1. HeldTypes
    BY DEF Init, QueueInit, HeldTypes, QueueTypeOK, Status, PC
  <2>2. Receipts
    BY LeaseFacts DEF Init, QueueInit, Receipts
  <2>. QED BY <2>1, <2>2 DEF Init, HeldInv, ExecutionHeld
<1>2. HeldInv /\ [Next]_vars => HeldInv'
  BY HeldStep
<1>3. HeldInv => ExecutionHeld
  BY DEF HeldInv
<1>. QED BY <1>1, <1>2, <1>3, PTL DEF Spec
=============================================================================
