---------------------------- MODULE WorkflowRuns ----------------------------
(***************************************************************************)
(* One execution of a workflow: workflows/service.go (Execute,             *)
(* UpdateExecution, SubWorkflowRunner), workflows/engine.go (RunWorkflow,  *)
(* executeNode) and worker/executions.go.                                  *)
(*                                                                         *)
(* Execute inserts the row of the execution and pushes a job. Every worker *)
(* the queue gives the job to runs the whole workflow, node after node in  *)
(* the order TopoSort fixed, and writes the row at the end. A node that    *)
(* runs a sub-workflow runs it inside its own step, so a worker has a      *)
(* stack of frames, one for each call of RunWorkflow it is in.             *)
(*                                                                         *)
(* What a node sends, reads or answers is left out: an attempt succeeds or *)
(* fails, and a failed one may have had its effect (a lost answer). The    *)
(* branch a condition takes depends on data, so it is any of its branches. *)
(***************************************************************************)
EXTENDS WorkflowGraph, WorkerQueue

CONSTANTS Workers,         \* executions workers
          Roots,           \* workflows that callers execute
          MaxDepth,        \* maxSubWorkflowDepth
          MaxSubs,         \* maxSubExecutions
          Slow,            \* bound: workflows that may outlast their lease
          MaxFaults        \* bound on crashes, shutdowns, failed statements

ASSUME RunsAssumption ==
  /\ Roots \subseteq Flows /\ Roots # {}
  /\ MaxDepth \in Nat /\ MaxSubs \in Nat /\ MaxFaults \in Nat
  /\ IsFiniteSet(Flows) /\ Slow \subseteq Flows

VARIABLES root,            \* the workflow being executed
          row,             \* status in workflow_executions, or "none"
          pushed,          \* whether Execute's Push succeeded
          pc,              \* where each worker is
          lease,           \* the receipt of each worker
          clock,           \* its run's context: live, expired or cancelled
          stack,           \* its frames, the innermost last
          subs,            \* subExecCount of its run
          outcome,         \* what RunWorkflow returned
          performed,       \* per workflow and node: effects so far
          entered,         \* per workflow: calls of RunWorkflow so far
          early,           \* leases of live workers that were reaped
          faults           \* faults so far

worker  == <<pc, lease, clock, stack, subs, outcome>>
history == <<performed, entered>>
bounds  == <<early, faults>>
vars    == <<root, row, pushed, queue, worker, history, bounds>>

Status  == {"none", "pending", "running", "completed", "failed"}
PC      == {"idle", "loading", "running", "recording", "acking", "nacking"}
NoLease == [no |-> 0, retries |-> 0]

\* A call of RunWorkflow. skipped is the code's map; depth is where
\* SubWorkflowRunner left it, under "trigger"; result is that of the last
\* attempt at the current node. seeded and cut only record, for the properties,
\* what nodes asked for: the nodes to skip that were still to do, and the edges
\* that lead on to such nodes from others that were asked for too late.
NewFrame(flow, depth) ==
  [flow |-> flow, order |-> Order[flow], at |-> 1, attempt |-> 1,
   result |-> "none", skipped |-> {}, seeded |-> {}, cut |-> {}, depth |-> depth,
   log |-> [n \in NodeIds(flow) |-> "todo"]]

Frame(flow) ==
  [flow : {flow}, order : Seq(Ids(flow)), at : Nat \ {0},
   attempt : 1 .. Def[flow].retries + 1, result : {"none", "ok", "error"},
   skipped : SUBSET Ids(flow), seeded : SUBSET NodeIds(flow),
   cut : SUBSET Edges(flow), depth : 0 .. MaxSubs,
   log : [NodeIds(flow) -> {"todo", "completed", "failed", "skipped"}]]

TypeOK ==
  /\ QueueTypeOK
  /\ root \in Roots /\ row \in Status /\ pushed \in BOOLEAN
  /\ pc \in [Workers -> PC]
  /\ lease \in [Workers -> Lease \cup {NoLease}]
  /\ clock \in [Workers -> {"live", "expired", "cancelled"}]
  /\ \A w \in Workers : \A i \in DOMAIN stack[w] :
       stack[w][i] \in Frame(stack[w][i].flow)
  /\ subs \in [Workers -> Nat]
  /\ outcome \in [Workers -> {"none", "ok", "error"}]
  /\ \A f \in Flows : entered[f] \in Nat /\ performed[f] \in [NodeIds(f) -> Nat]
  /\ early \in 0 .. MaxEarly /\ faults \in 0 .. MaxFaults

Init ==
  /\ QueueInit
  /\ root \in Roots /\ row = "none" /\ pushed = FALSE
  /\ pc = [w \in Workers |-> "idle"]
  /\ lease = [w \in Workers |-> NoLease]
  /\ clock = [w \in Workers |-> "live"]
  /\ stack = [w \in Workers |-> <<>>]
  /\ subs = [w \in Workers |-> 0]
  /\ outcome = [w \in Workers |-> "none"]
  /\ performed = [f \in Flows |-> [n \in NodeIds(f) |-> 0]]
  /\ entered = [f \in Flows |-> 0]
  /\ early = 0 /\ faults = 0

Fault == faults < MaxFaults /\ faults' = faults + 1 /\ UNCHANGED early

-----------------------------------------------------------------------------
(* workflows.Service.Execute                                               *)

Execute ==
  /\ row = "none"
  /\ row' = "pending" /\ pushed' = TRUE
  /\ Push
  /\ UNCHANGED <<root, worker, history, bounds>>

\* The error of Push is dropped: the row stays pending.
ExecutePushFails ==
  /\ Fault
  /\ row = "none"
  /\ row' = "pending"
  /\ UNCHANGED <<root, pushed, queue, worker, history>>

-----------------------------------------------------------------------------
(* A worker takes the job.                                                 *)

Goto(w, place) == pc' = [pc EXCEPT ![w] = place]

\* The worker forgets the run and the receipt.
Reset(w) ==
  /\ Goto(w, "idle")
  /\ lease' = [lease EXCEPT ![w] = NoLease]
  /\ clock' = [clock EXCEPT ![w] = "live"]
  /\ stack' = [stack EXCEPT ![w] = <<>>]
  /\ subs' = [subs EXCEPT ![w] = 0]
  /\ outcome' = [outcome EXCEPT ![w] = "none"]

Take(w) ==
  /\ pc[w] = "idle"
  /\ \E r \in 0 .. MaxRetries - 1 :
       Pop(r) /\ lease' = [lease EXCEPT ![w] = NextLease(r)]
  /\ Goto(w, "loading")
  /\ UNCHANGED <<root, row, pushed, clock, stack, subs, outcome, history, bounds>>

EnterRun(w, flow, depth) ==
  /\ stack' = [stack EXCEPT ![w] = Append(@, NewFrame(flow, depth))]
  /\ entered' = [entered EXCEPT ![flow] = @ + 1]

\* process: load the workflow, mark the execution running, run it.
Begin(w) ==
  /\ pc[w] = "loading"
  /\ row' = "running"
  /\ EnterRun(w, root, 0)
  /\ Goto(w, "running")
  /\ UNCHANGED <<root, pushed, queue, lease, clock, subs, outcome, performed,
                 bounds>>

\* The write of "running" fails, which the worker ignores.
BeginUnmarked(w) ==
  /\ Fault
  /\ pc[w] = "loading"
  /\ EnterRun(w, root, 0)
  /\ Goto(w, "running")
  /\ UNCHANGED <<root, row, pushed, queue, lease, clock, subs, outcome, performed>>

\* GetByID fails: the execution is failed and the job goes back.
LoadFails(w) ==
  /\ Fault
  /\ pc[w] = "loading"
  /\ row' = "failed"
  /\ Goto(w, "nacking")
  /\ UNCHANGED <<root, pushed, queue, lease, clock, stack, subs, outcome, history>>

-----------------------------------------------------------------------------
(* RunWorkflow, on the innermost frame of a worker.                        *)

Top(w) == Last(stack[w])

SetTop(w, f) == stack' = [stack EXCEPT ![w] = Append(Front(@), f)]

\* Only the stack changes.
Inner == UNCHANGED <<root, row, pushed, queue, lease, clock, bounds>>

Running(w) == pc[w] = "running" /\ stack[w] # <<>>
Over(f)    == f.at > Len(f.order)
Node(f)    == f.order[f.at]

\* Broken: one skipped predecessor is enough to skip a node.
DeadWithAny(f) ==
  \/ Node(f) \in f.skipped
  \/ \E n \in Sources(f.flow, Node(f)) : n \in f.skipped

\* A node is skipped when a branch asked for it or all edges into it come from
\* skipped nodes.
Dead(f) ==
  \/ Node(f) \in f.skipped
  \/ /\ Sources(f.flow, Node(f)) # {}
     /\ Sources(f.flow, Node(f)) \subseteq f.skipped

\* The current node is there and is to run.
Due(w) ==
  /\ Running(w)
  /\ ~Over(Top(w))
  /\ Node(Top(w)) \in NodeIds(Top(w).flow)
  /\ ~Dead(Top(w))

Advance(f) == [f EXCEPT !.at = @ + 1, !.attempt = 1, !.result = "none"]

\* The loop passes over an id that no node has.
PassUnknown(w) ==
  /\ Running(w) /\ ~Over(Top(w))
  /\ Node(Top(w)) \notin NodeIds(Top(w).flow)
  /\ SetTop(w, Advance(Top(w)))
  /\ Inner /\ UNCHANGED <<pc, subs, outcome, history>>

SkipNode(w) ==
  /\ Running(w) /\ ~Over(Top(w))
  /\ LET f == Top(w) n == Node(Top(w)) IN
     /\ n \in NodeIds(f.flow)
     /\ Dead(f)
     /\ SetTop(w, Advance([f EXCEPT !.skipped = @ \cup {n},
                                    !.log[n] = "skipped"]))
  /\ Inner /\ UNCHANGED <<pc, subs, outcome, history>>

\* What an attempt may return. Conditions and the like compute; a wait ends
\* early only with its context.
Results(kind, clk) ==
  CASE kind \in {"action", "send"} -> {"ok", "error"}
    [] kind = "stop_and_error"     -> {"error"}
    [] kind = "wait"               -> IF clk = "live" THEN {"ok"} ELSE {"error"}
    [] OTHER                       -> {"ok"}

\* executeNode, except for sub-workflows. Only the effects that must not be
\* repeated are counted; a failed attempt may have had its effect.
Perform(w) ==
  /\ Due(w)
  /\ LET f == Top(w) n == Node(Top(w)) k == Kind(f.flow, n) IN
     /\ f.result = "none"
     /\ k # "execute_sub_workflow"
     /\ \E r \in Results(k, clock[w]) :
          /\ SetTop(w, [f EXCEPT !.result = r])
          /\ performed' \in
               IF ~IsNonIdempotent(f.flow, n) THEN {performed}
               ELSE {[performed EXCEPT ![f.flow][n] = @ + 1]}
                    \cup IF r = "error" THEN {performed} ELSE {}
  /\ Inner /\ UNCHANGED <<pc, subs, outcome, entered>>

\* execCtx["__depth__"]: the runner stored the depth in the trigger data, which
\* RunWorkflow keeps under "trigger", so the key is never there.
Depth(f) == 0

SubsLeft(w) == subs[w] + 1 <= MaxSubs

\* execute_sub_workflow under the two caps: RunWorkflow, one frame up.
EnterSub(w) ==
  /\ Due(w)
  /\ LET f == Top(w) c == Conf(Top(w).flow, Node(Top(w))) IN
     /\ f.result = "none"
     /\ c.kind = "execute_sub_workflow"
     /\ SubsLeft(w) /\ Depth(f) < MaxDepth
     /\ subs' = [subs EXCEPT ![w] = @ + 1]
     /\ EnterRun(w, c.workflow, Depth(f) + 1)
  /\ Inner /\ UNCHANGED <<pc, outcome, performed>>

\* A cap is reached, or the sub-workflow cannot be loaded.
SubRefused(w) ==
  /\ Due(w)
  /\ LET f == Top(w) IN
     /\ f.result = "none"
     /\ Kind(f.flow, Node(f)) = "execute_sub_workflow"
     /\ subs' = [subs EXCEPT ![w] = @ + 1]
     /\ SetTop(w, [f EXCEPT !.result = "error"])
  /\ Inner /\ UNCHANGED <<pc, outcome, history>>

Todo(f) == {n \in NodeIds(f.flow) : f.log[n] = "todo"}

\* skipped[t] = true, for t in S
Ask(f, S) ==
  [f EXCEPT !.skipped = @ \cup S,
            !.seeded = @ \cup (S \cap Todo(f)),
            !.cut = @ \cup {e \in Edges(f.flow) :
                              e[1] \in S \ Todo(f) /\ e[2] \in Todo(f)}]

\* delete(skipped, t)
Unask(f, t) ==
  [f EXCEPT !.skipped = @ \ {t},
            !.seeded = @ \ {t},
            !.cut = {e \in @ : e[1] = t => e[2] \notin Todo(f)}]

CompleteNode(w) ==
  /\ Due(w) /\ Top(w).result = "ok"
  /\ LET f == Top(w) n == Node(Top(w)) IN
     \E skip \in SkipChoices(f.flow, n) :
       SetTop(w, Advance(Ask([f EXCEPT !.log[n] = "completed"], skip)))
  /\ Inner /\ UNCHANGED <<pc, subs, outcome, history>>

AttemptsLeft(f) == f.attempt < MaxAttempts(f.flow, Node(f))

\* The pause between two attempts ends before the context does.
Retry(w) ==
  /\ Due(w) /\ Top(w).result = "error"
  /\ AttemptsLeft(Top(w)) /\ clock[w] = "live"
  /\ SetTop(w, [Top(w) EXCEPT !.attempt = @ + 1, !.result = "none"])
  /\ Inner /\ UNCHANGED <<pc, subs, outcome, history>>

\* The node failed for good, but the run goes on or ends with it.
Failed(w) ==
  Due(w) /\ Top(w).result = "error" /\ (~AttemptsLeft(Top(w)) \/ clock[w] # "live")

Caught(w) ==
  clock[w] = "live" /\ CatchTarget(Top(w).flow, Node(Top(w))) # NoNode

\* Broken: the failure of a try node leaves its handler skipped.
CatchKeepsSkip(f, n) == Ask(f, GroupMates(f.flow, n))

\* Skip the rest of the group, un-skip the handler.
CatchSkips(f, n) == Unask(Ask(f, GroupMates(f.flow, n)), CatchTarget(f.flow, n))

Catch(w) ==
  /\ Failed(w) /\ Caught(w)
  /\ LET f == Top(w) n == Node(Top(w)) IN
     SetTop(w, Advance(CatchSkips([f EXCEPT !.log[n] = "failed"], n)))
  /\ Inner /\ UNCHANGED <<pc, subs, outcome, history>>

\* RunWorkflow returns: to the worker, or to the node that called it.
Return(w, r) ==
  \/ /\ Len(stack[w]) = 1
     /\ stack' = [stack EXCEPT ![w] = <<>>]
     /\ outcome' = [outcome EXCEPT ![w] = r]
     /\ Goto(w, "recording")
  \/ /\ Len(stack[w]) > 1
     /\ LET caller == stack[w][Len(stack[w]) - 1] IN
        stack' = [stack EXCEPT ![w] =
                    Append(Front(Front(@)), [caller EXCEPT !.result = r])]
     /\ UNCHANGED <<pc, outcome>>

\* Nothing catches the failure, or the context is done.
Abort(w) ==
  /\ Failed(w) /\ ~Caught(w)
  /\ Return(w, "error")
  /\ Inner /\ UNCHANGED <<subs, history>>

EndRun(w) ==
  /\ Running(w) /\ Over(Top(w))
  /\ Return(w, "ok")
  /\ Inner /\ UNCHANGED <<subs, history>>

-----------------------------------------------------------------------------
(* The worker ends the job.                                                *)

\* The last UpdateExecution, whatever the row says now.
Record(w) ==
  /\ pc[w] = "recording" /\ clock[w] # "cancelled"
  /\ row' = IF outcome[w] = "ok" THEN "completed" ELSE "failed"
  /\ Goto(w, "acking")
  /\ UNCHANGED <<root, pushed, queue, lease, clock, stack, subs, outcome,
                 history, bounds>>

\* Broken: an error of the last write is ignored as the others are.
RecordFailsAcks(w) ==
  /\ pc[w] = "recording"
  /\ \/ Fault
     \/ clock[w] = "cancelled" /\ UNCHANGED bounds
  /\ Goto(w, "acking")
  /\ UNCHANGED <<root, row, pushed, queue, lease, clock, stack, subs, outcome, history>>

\* It fails; under a worker that is shutting down it must.
RecordFails(w) ==
  /\ pc[w] = "recording"
  /\ \/ Fault
     \/ clock[w] = "cancelled" /\ UNCHANGED bounds
  /\ Goto(w, "nacking")
  /\ UNCHANGED <<root, row, pushed, queue, lease, clock, stack, subs, outcome, history>>

AckJob(w) ==
  /\ pc[w] = "acking"
  /\ Ack(lease[w]) /\ Reset(w)
  /\ UNCHANGED <<root, row, pushed, history, bounds>>

NackJob(w) ==
  /\ pc[w] = "nacking"
  /\ Nack(lease[w]) /\ Reset(w)
  /\ UNCHANGED <<root, row, pushed, history, bounds>>

-----------------------------------------------------------------------------
(* Time and faults.                                                        *)

\* executionTimeout passes.
Expire(w) ==
  /\ pc[w] = "running" /\ clock[w] = "live"
  /\ clock' = [clock EXCEPT ![w] = "expired"]
  /\ UNCHANGED <<root, row, pushed, queue, pc, lease, stack, subs, outcome,
                 history, bounds>>

\* The worker is told to stop in the middle of a run.
Shutdown(w) ==
  /\ Fault
  /\ pc[w] = "running"
  /\ clock' = [clock EXCEPT ![w] = "cancelled"]
  /\ UNCHANGED <<root, row, pushed, queue, pc, lease, stack, subs, outcome, history>>

\* The worker dies; its copy stays on the processing list.
Crash(w) ==
  /\ Fault
  /\ pc[w] # "idle"
  /\ Reset(w)
  /\ UNCHANGED <<root, row, pushed, queue, history>>

Held(l) == \E w \in Workers : lease[w] = l

\* The reaper takes the copy of a worker that is gone ...
ReapDead ==
  /\ \E l \in leased : ~Held(l) /\ Nack(l)
  /\ UNCHANGED <<root, row, pushed, worker, history, bounds>>

\* ... or of one that runs longer than the visibility timeout, five minutes as
\* executionTimeout is; a worker that still loads the workflow is not that late.
ReapLive ==
  /\ root \in Slow
  /\ early < MaxEarly /\ early' = early + 1
  /\ \E w \in Workers :
       pc[w] # "loading" /\ lease[w] \in leased /\ Nack(lease[w])
  /\ UNCHANGED <<root, row, pushed, worker, history, faults>>

-----------------------------------------------------------------------------
NodeStep(w) ==
  \/ PassUnknown(w) \/ SkipNode(w) \/ Perform(w) \/ EnterSub(w) \/ SubRefused(w)
  \/ CompleteNode(w) \/ Retry(w) \/ Catch(w) \/ Abort(w) \/ EndRun(w)

\* What a worker does unless something goes wrong.
WorkerStep(w) ==
  \/ Take(w) \/ Begin(w) \/ NodeStep(w) \/ Record(w) \/ AckJob(w) \/ NackJob(w)

FaultStep(w) ==
  BeginUnmarked(w) \/ LoadFails(w) \/ RecordFails(w) \/ Expire(w) \/ Shutdown(w)
  \/ Crash(w)

Next ==
  \/ Execute \/ ExecutePushFails
  \/ \E w \in Workers : WorkerStep(w) \/ FaultStep(w)
  \/ ReapDead \/ ReapLive

Spec == Init /\ [][Next]_vars

\* A worker keeps stepping, and so does one that is shutting down (its last
\* write fails by itself); the reaper's ticker never stops.
Fairness ==
  /\ \A w \in Workers :
       WF_vars(WorkerStep(w) \/ (clock[w] = "cancelled" /\ RecordFails(w)))
  /\ WF_vars(ReapDead)

FairSpec == Spec /\ Fairness

-----------------------------------------------------------------------------
(* Properties.                                                             *)

Frames == UNION {ToSet(stack[w]) : w \in Workers}

Clean(flow) == KnownEdges(flow) = Edges(flow)

\* A node is decided (run or skipped) only after every node with an edge into
\* it, which is what lets the loop of RunWorkflow look at predecessors only
\* (engine.go: "Topological order guarantees every predecessor's skip status is
\* already decided here"). It needs edges that name existing nodes: behind an
\* edge from a missing node the stored order decides.
DependenciesFirst ==
  \A f \in Frames : Clean(f.flow) =>
    \A e \in Edges(f.flow) : f.log[e[1]] = "todo" => f.log[e[2]] = "todo"

\* The order of the call puts n in front of m.
Before(f, n, m) ==
  \E i, j \in DOMAIN f.order : i < j /\ f.order[i] = n /\ f.order[j] = m

\* The order respects the edges between nodes that exist. (Behind an edge from a
\* missing node the stored order decides.)
Ordered(f) == \A e \in KnownEdges(f.flow) : Before(f, e[1], e[2])

\* No failure un-skipped a handler that was decided before it.
InTime(f) ==
  \A n \in NodeIds(f.flow) :
    f.log[n] = "failed" /\ CatchTarget(f.flow, n) \in NodeIds(f.flow)
      => Before(f, n, CatchTarget(f.flow, n))

\* The nodes that do without predecessors or have one among near (one that does
\* not exist is never skipped by itself), unless a branch, a filter or a
\* try/catch asked to skip the node, or its predecessor when that had run.
Reached(f, near) ==
  {n \in NodeIds(f.flow) \ f.seeded :
     \/ Sources(f.flow, n) = {}
     \/ \E e \in Edges(f.flow) \ f.cut :
          e[2] = n /\ (e[1] \in NodeIds(f.flow) => e[1] \in near)}

\* The nodes some path of taken branches reaches.
LiveNodes(f) ==
  LET reach[k \in 0 .. Len(f.order)] ==
        Reached(f, IF k = 0 THEN {} ELSE reach[k - 1])
  IN reach[Len(f.order)]

\* Looking at direct predecessors only, the loop computes reachability: a node
\* is skipped exactly when no path of taken branches leads to it, and what a
\* merge keeps alive runs (engine.go: "This propagates a not-taken branch to its
\* whole transitive subtree").
PrunesDeadBranches ==
  [][\A w \in Workers :
       LET f == Top(w) g == Top(w)' n == Node(f) IN
       (/\ Running(w) /\ Running(w)' /\ Len(stack'[w]) = Len(stack[w])
        /\ ~Over(f) /\ n \in NodeIds(f.flow) /\ Ordered(f) /\ InTime(f))
       => /\ g.log[n] = "skipped" => n \notin LiveNodes(f)
          /\ g.result # "none" => n \in LiveNodes(f)]_vars

\* No path leads to n but through s.
Through(flow, s, n) ==
  \E B \in SUBSET NodeIds(flow) :
    /\ s \in B /\ n \in B
    /\ \A m \in B \ {s} : Sources(flow, m) # {} /\ Sources(flow, m) \subseteq B

\* m may ask to skip x: one of its branches, its handler, a node of its group.
MayAsk(flow, m, x) ==
  \/ x \in UNION SkipChoices(flow, m)
  \/ x \in GroupMates(flow, m) /\ x # CatchTarget(flow, m)

Handlers(flow) == {CatchTarget(flow, n) : n \in NodeIds(flow)}

\* Once y has run and n has failed, no node asks to skip x: those that may come
\* before y, or are what the failure of n skips.
LeftAlone(f, x, y, n) ==
  \A m \in NodeIds(f.flow) : MayAsk(f.flow, m, x) =>
    \/ Before(f, m, y)
    \/ Before(f, n, m) /\ m \in GroupMates(f.flow, n) \ Handlers(f.flow)

\* Nothing but a failure of n decides about its handler: no other node can have
\* it skipped, and it has no predecessors or one that ran if n did.
Sheltered(f, n) ==
  LET h == CatchTarget(f.flow, n) IN
  /\ h \in NodeIds(f.flow) /\ LeftAlone(f, h, n, n)
  /\ \/ Sources(f.flow, h) = {}
     \/ \E s \in Sources(f.flow, h) \cap NodeIds(f.flow) :
          Through(f.flow, s, n) /\ LeftAlone(f, s, s, n)

\* A caught failure is handled: unless the order put a handler in front of a
\* node that failed, the handler of a failed node is not skipped.
CaughtIsHandled ==
  \A f \in Frames : Ordered(f) /\ InTime(f) =>
    \A n \in NodeIds(f.flow) :
      f.log[n] = "failed" /\ Sheltered(f, n)
        => f.log[CatchTarget(f.flow, n)] # "skipped"

HandlerSkipped(f) ==
  \E n \in NodeIds(f.flow) :
    /\ f.log[n] = "failed"
    /\ f.log[CatchTarget(f.flow, n)] = "skipped"

\* execTryCatch: "on implied failure, tryNodes are skipped and catchTarget is
\* executed".
CatchTargetExecuted == \A f \in Frames : ~HandlerSkipped(f)

\* A message is sent, a card charged, a user created at most once for each time
\* the workflow was run, however many retries the workflow asks for and whatever
\* attempts failed after they had their effect. (A run is repeated when its job
\* is delivered again or a parent retries the sub-workflow.)
EffectsOncePerRun ==
  \A f \in Flows : \A n \in NodeIds(f) :
    IsNonIdempotent(f, n) => performed[f][n] <= entered[f]

\* An execution whose job was pushed ends up completed or failed and stays so,
\* through crashes, shutdowns and second deliveries; else its job is
\* dead-lettered.
ExecutionSettles == <>[](pushed => row \in {"completed", "failed"} \/ dead > 0)

\* The part of it that needs no fairness, and has no exception: a copy of the
\* job that was pushed goes only behind a last write, so that an execution that
\* is not over has one that waits, or one whose worker is not done.
ExecutionHeld ==
  pushed /\ row \notin {"completed", "failed"} =>
    \/ dead > 0
    \/ \E r \in 0 .. MaxRetries - 1 : waiting[r] > 0
    \/ \E l \in leased : \A w \in Workers : lease[w] = l => pc[w] # "acking"
=============================================================================
