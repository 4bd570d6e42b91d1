--------------------------- MODULE MCWorkflowRuns ---------------------------
EXTENDS WorkflowRuns, TLC

Action == [kind |-> "action"]
Send   == [kind |-> "send"]
Call(f) == [kind |-> "execute_sub_workflow", workflow |-> f]

\* A condition whose branches meet again, stored in another order than they run;
\* the branch of b ends in a filter.
Branches ==
  [nodes |-> <<"m", "c", "d", "a", "b", "if">>,
   edges |-> <<<<"if", "a">>, <<"if", "b">>, <<"a", "c">>, <<"b", "d">>,
               <<"c", "m">>, <<"d", "m">>>>,
   retries |-> 0,
   conf |-> [n \in {"a", "c", "m"} |-> [kind |-> "merge"]]
            @@ ("if" :> [kind |-> "if_condition", trueBranch |-> "a",
                         falseBranch |-> "b"])
            @@ ("b" :> [kind |-> "filter"])
            @@ ("d" :> Send)]

\* A switch with a default, a case without a target and a wait on one branch.
Switched ==
  [nodes |-> <<"sw", "x", "y", "z">>,
   edges |-> <<<<"sw", "x">>, <<"sw", "y">>, <<"sw", "z">>, <<"x", "z">>>>,
   retries |-> 1,
   conf |-> ("sw" :> [kind |-> "switch", cases |-> {"x", "y", NoNode},
                      default |-> "y"])
            @@ ("x" :> [kind |-> "wait"]) @@ ("y" :> Send)
            @@ ("z" :> [kind |-> "stop_and_error"])]

\* The handler is behind the whole group.
Tried ==
  [nodes |-> <<"try", "t1", "t2", "h">>,
   edges |-> <<<<"try", "t1">>, <<"t1", "t2">>, <<"try", "h">>, <<"t2", "h">>>>,
   retries |-> 1,
   conf |-> ("try" :> [kind |-> "try_catch", tryNodes |-> {"t1", "t2"},
                       catchTarget |-> "h"])
            @@ ("t1" :> Action) @@ ("t2" :> Send) @@ ("h" :> Send)]

\* The handler hangs off the try node and comes before the second node.
TriedEarly ==
  [Tried EXCEPT !.edges = <<<<"try", "t1">>, <<"t1", "t2">>, <<"try", "h">>>>]

\* The first node of the group has led on to a and d when the second fails.
TriedLate ==
  [nodes |-> <<"try", "t1", "t2", "a", "d", "h">>,
   edges |-> <<<<"try", "t1">>, <<"t1", "a">>, <<"t1", "t2">>, <<"a", "d">>,
               <<"t1", "h">>, <<"t2", "h">>>>,
   retries |-> 0,
   conf |-> [n \in {"a", "d", "h"} |-> [kind |-> "merge"]]
            @@ ("try" :> [kind |-> "try_catch", tryNodes |-> {"t1", "t2"},
                          catchTarget |-> "h"])
            @@ ("t1" :> Action) @@ ("t2" :> Action)]

\* A call that is retried, of a workflow that calls itself.
Calls ==
  [nodes |-> <<"s">>, edges |-> <<>>, retries |-> 1,
   conf |-> "s" :> Call("again")]

Again ==
  [nodes |-> <<"mail", "s">>, edges |-> <<<<"mail", "s">>>>, retries |-> 0,
   conf |-> ("mail" :> Send) @@ ("s" :> Call("again"))]

\* Edges from and to nodes that do not exist.
Dangling ==
  [nodes |-> <<"b", "a", "c">>,
   edges |-> <<<<"gone", "a">>, <<"a", "b">>, <<"c", "lost">>>>,
   retries |-> 0,
   conf |-> ("a" :> [kind |-> "filter"]) @@ ("b" :> Action) @@ ("c" :> Send)]

MCDef == ("branches" :> Branches) @@ ("switched" :> Switched)
         @@ ("tried" :> Tried) @@ ("early" :> TriedEarly) @@ ("late" :> TriedLate)
         @@ ("calls" :> Calls) @@ ("again" :> Again)
         @@ ("dangling" :> Dangling)
=============================================================================
