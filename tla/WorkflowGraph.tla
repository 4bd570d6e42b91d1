--------------------------- MODULE WorkflowGraph ---------------------------
(***************************************************************************)
(* The definitions of workflows and what internal/workflows/engine.go      *)
(* computes from one before it runs it: the order of its nodes, its        *)
(* try/catch scopes, whether it has a cycle.                               *)
(*                                                                         *)
(* A definition has a list of nodes and a list of edges, both in the order *)
(* they are stored in; an edge may name a node that does not exist. Of a   *)
(* node's configuration only what steers the run is kept.                  *)
(***************************************************************************)
EXTENDS Naturals, Sequences, SequencesExt, FiniteSetsExt

CONSTANTS Flows,           \* ids of workflows
          Def,             \* their definitions
          NoNode           \* an empty node id in a configuration

\* [kind, and per kind: trueBranch, falseBranch | cases, default |
\*  tryNodes, catchTarget | workflow]
Conf(flow, n) == Def[flow].conf[n]
Kind(flow, n) == Conf(flow, n).kind

NodeList(flow) == Def[flow].nodes
NodeIds(flow)  == ToSet(NodeList(flow))
EdgeList(flow) == Def[flow].edges
Edges(flow)    == ToSet(EdgeList(flow))

\* adj and incoming of RunWorkflow.
Successors(flow, n) == {e[2] : e \in {d \in Edges(flow) : d[1] = n}}
Sources(flow, n)    == {e[1] : e \in {d \in Edges(flow) : d[2] = n}}

\* Edges between nodes that exist.
KnownEdges(flow) ==
  {e \in Edges(flow) : e[1] \in NodeIds(flow) /\ e[2] \in NodeIds(flow)}

\* HasCycle peels off nodes without incoming edges until none is left; what
\* remains sits on or behind a cycle. Unknown ids are ignored.
HasCycle(flow) ==
  LET peel[k \in 0 .. Len(NodeList(flow))] ==
        IF k = 0 THEN NodeIds(flow)
        ELSE LET left == peel[k - 1]
             IN {n \in left :
                   \E e \in KnownEdges(flow) : e[2] = n /\ e[1] \in left}
  IN peel[Len(NodeList(flow))] # {}

\* What a stored definition is: lists, and calls of workflows that exist (the
\* call of another one is refused, see SubRefused).
ASSUME DefinitionsAssumption ==
  \A flow \in Flows :
    /\ NodeList(flow) \in Seq(NodeIds(flow))
    /\ EdgeList(flow) \in Seq(Edges(flow))
    /\ Def[flow].retries \in Nat
    /\ \A n \in NodeIds(flow) :
         Kind(flow, n) = "execute_sub_workflow" => Conf(flow, n).workflow \in Flows

\* Create and Update of the handler refuse a definition with a cycle.
ASSUME AcyclicAssumption == \A flow \in Flows : ~HasCycle(flow)

-----------------------------------------------------------------------------
(* topoSort: Kahn's queue, in the order of the lists.                      *)

Ids(flow) == NodeIds(flow) \cup {e[2] : e \in Edges(flow)}

InDegree(flow, n) ==
  Cardinality({i \in DOMAIN EdgeList(flow) : EdgeList(flow)[i][2] = n})

\* inDegree[next]--, and enqueue when it is zero
Relax(s, next) ==
  [s EXCEPT !.degree[next] = @ - 1,
            !.queue = IF s.degree[next] = 1 THEN Append(@, next) ELSE @]

\* for next in adj[curr], which holds the edges of curr in their order
Visit(flow, s) ==
  IF s.queue = <<>> THEN s ELSE
  LET curr == Head(s.queue)
      edge == EdgeList(flow)
      after[i \in 0 .. Len(edge)] ==
        IF i = 0 THEN [s EXCEPT !.queue = Tail(@), !.order = Append(@, curr)]
        ELSE IF edge[i][1] = curr THEN Relax(after[i - 1], edge[i][2])
        ELSE after[i - 1]
  IN after[Len(edge)]

\* The nodes of a list that are in S, in its order.
Among(list, S) ==
  LET some[i \in 0 .. Len(list)] ==
        IF i = 0 THEN <<>>
        ELSE IF list[i] \in S THEN Append(some[i - 1], list[i])
        ELSE some[i - 1]
  IN some[Len(list)]

\* Broken: nodes keep the order they are stored in.
TopoSortStored(flow) == NodeList(flow)

\* Nodes that never reach in-degree zero come last, in their stored order.
TopoSort(flow) ==
  LET free  == {n \in NodeIds(flow) : InDegree(flow, n) = 0}
      start == [queue  |-> Among(NodeList(flow), free),
                order  |-> <<>>,
                degree |-> [n \in Ids(flow) |-> InDegree(flow, n)]]
      run[k \in 0 .. Cardinality(Ids(flow))] ==
        IF k = 0 THEN start ELSE LET s == run[k - 1] IN Visit(flow, s)
      order == run[Cardinality(Ids(flow))].order
  IN order \o Among(NodeList(flow), NodeIds(flow) \ ToSet(order))

Order == [flow \in Flows |-> TopoSort(flow)]

-----------------------------------------------------------------------------
(* try/catch scopes.                                                       *)

\* Positions of the try_catch nodes that list n among their tryNodes.
Tries(flow, n) ==
  {i \in DOMAIN NodeList(flow) :
     LET c == Conf(flow, NodeList(flow)[i])
     IN c.kind = "try_catch" /\ n \in c.tryNodes}

\* tryCatchScope: the last try_catch that lists n wins.
CatchTarget(flow, n) ==
  IF Tries(flow, n) = {} THEN NoNode
  ELSE Conf(flow, NodeList(flow)[Max(Tries(flow, n))]).catchTarget

\* The other nodes of every group n belongs to.
GroupMates(flow, n) ==
  UNION {Conf(flow, NodeList(flow)[i]).tryNodes : i \in Tries(flow, n)} \ {n}

-----------------------------------------------------------------------------
(* What a node that completes may skip, over the data it may see.          *)

IfSkips(c) == {{c.falseBranch} \ {NoNode}, {c.trueBranch} \ {NoNode}}

SwitchSkips(c) ==
  LET targets == c.cases \ {NoNode}
  IN {targets \ {t} : t \in targets}
     \cup {IF c.default # NoNode THEN targets \ {c.default} ELSE {}}

FilterSkips(flow, n) == {{}, Successors(flow, n)}

SkipChoices(flow, n) ==
  LET c == Conf(flow, n) IN
  CASE c.kind = "if_condition" -> IfSkips(c)
    [] c.kind = "switch"       -> SwitchSkips(c)
    [] c.kind = "filter"       -> FilterSkips(flow, n)
    [] c.kind = "try_catch"    -> {{c.catchTarget} \ {NoNode}}
    [] OTHER                   -> {{}}

\* isNonIdempotent: messages, charges, created users.
IsNonIdempotent(flow, n) == Kind(flow, n) = "send"

\* Broken: every node is retried.
MaxAttemptsAll(flow, n) == Def[flow].retries + 1

MaxAttempts(flow, n) ==
  IF IsNonIdempotent(flow, n) THEN 1 ELSE Def[flow].retries + 1
=============================================================================
