--------------------------- MODULE ContinuationWorkflow ---------------------------
(***************************************************************************)
(* programmable/continuation.WorkflowRuntime: executors that share a store *)
(* reconcile one durable parent call whose nodes form a DAG.               *)
(*                                                                         *)
(* The parent is the stored snapshot with its node states.  Its lease is   *)
(* the lease record of ContinuationStore: a live lease names the stored    *)
(* revision and fence (LeaseCoversRecord there), and an executor has one   *)
(* claim at a time, so holding the lease is what Transition compares.      *)
(* A reconciliation works on a private copy of the nodes; the calls it     *)
(* makes outside (Attach, StartCall, the node handlers, Transition) are    *)
(* its steps, interleaved with the other executors, the children, clients  *)
(* and the clock.                                                          *)
(***************************************************************************)
EXTENDS Integers, Sequences, FiniteSets, FiniteSetsExt, SequencesExt

CONSTANTS
  Size,            \* nodes of a workflow
  Executors,       \* WorkflowRuntime instances sharing the store
  Deployments,     \* a definition (WorkflowNodeSpecs in canonical order), the
                   \* machine nodes each executor has a handler for, and what
                   \* the handlers may return
  NoOwner,         \* the empty lease owner
  LeaseDuration,   \* ticks a claim or a renewal lasts
  PollInterval,    \* ticks between two looks at waiting children
  MaxNodeActions,  \* commands one reconciliation may execute
  Horizon,         \* the last instant of the modelled clock
  ChildEvents,     \* which of "prune" and "collect" may happen to a child
  MaxFailures      \* bound: crashes, shutdowns and stalled heartbeats

(* A node is known by its place in the canonical order. *)
Node == 1..Size

ASSUME WorkflowAssumption ==
  /\ \A deployment \in Deployments :
       LET D == deployment.definition
       IN /\ DOMAIN D = Node
          /\ \A n \in Node :
               /\ D[n].dependsOn \subseteq 1..(n - 1)
               /\ D[n].kind \in {"machine", "timer", "child", "join"}
               /\ D[n].kind = "timer" => D[n].delay \in 1..(Horizon - 1)
          /\ deployment.handlers \in [Executors -> SUBSET Node]
          /\ deployment.results \subseteq {"succeeded", "failed", "invalid"}
  /\ LeaseDuration \in Nat \ {0} /\ PollInterval \in Nat \ {0}
  /\ MaxNodeActions \in Nat \ {0}

VARIABLES
  parent,    \* the stored parent: status, wake-up time and node states
  lease,     \* the parent's lease: owner and time left
  children,  \* the child call of every child node
  given,     \* the definition, and what each executor's handlers return
  executed,  \* attempts with which each machine node's handler was called
  exec,      \* the state of every executor
  failures,  \* failures so far
  now        \* the clock of the store and of the runtimes

wfVars == <<parent, lease, children, given, executed, exec, failures, now>>

SpecOf(n) == given.definition[n]

KindOf(n) == SpecOf(n).kind

OfKind(kind) == {n \in Node : KindOf(n) = kind}

(* What the deterministic handler of a machine node returns on executor e:  *)
(* a result, one that validateWorkflowNodeResult rejects ("invalid"), or    *)
(* "none" when e was deployed without the handler.                          *)
Verdict(e, n) == given.verdicts[e][n]

NodeTerminal(status) == status \in {"succeeded", "failed", "skipped"}

Terminal(status) == status \in {"completed", "failed", "canceled", "expired"}

(* childCallID is the attempt from which DeriveChildCallID made it, 0 when  *)
(* the node has none.  A failure class of a handler's own counts as         *)
(* HANDLER_ERROR.                                                           *)
NodeState == [status : {"pending", "waiting", "succeeded", "failed", "skipped"},
              attempt : 0..1, readyAt : 0..Horizon, childCallID : 0..1,
              failure : {"", "DEPENDENCY_FAILED", "HANDLER_ERROR",
                         "CHILD_TERMINAL_FAILURE"}]

NewNode == [status |-> "pending", attempt |-> 0, readyAt |-> 0, childCallID |-> 0,
            failure |-> ""]

NoNodes == [n \in Node |-> NewNode]

NoChild == [status |-> "absent", pruned |-> FALSE, collected |-> FALSE]

NoLease == [owner |-> NoOwner, ttl |-> 0]

(* pc: "idle" between two polls, "refresh" while waiting children are      *)
(* attached, "execute" while commands are executed, "attach" after a child *)
(* was started, "commit" before Transition, "down" once Run has returned.  *)
(* ctx: "live", "canceled" when the caller's context has ended, "lost"     *)
(* when the heartbeat has canceled the reconciliation.                     *)
Idle == [pc |-> "idle", ctx |-> "live", nodes |-> NoNodes, wake |-> 0,
         look |-> {}, commands |-> << >>, actions |-> 0,
         next |-> "", readyAt |-> 0]

TypeOKWorkflow ==
  /\ parent.status \in {"absent", "accepted", "running", "suspended",
                        "cancel_requested", "completed", "failed", "canceled",
                        "expired"}
  /\ parent.readyAt \in 0..Horizon
  /\ parent.readyAt # 0 => parent.status = "suspended"
  /\ parent.nodes \in [Node -> NodeState]
  /\ lease \in [owner : Executors \cup {NoOwner}, ttl : 0..LeaseDuration]
  /\ lease.owner # NoOwner => parent.status \in {"running", "cancel_requested"}
  /\ now \in 1..Horizon
  /\ \A e \in Executors :
       /\ exec[e].nodes \in [Node -> NodeState]
       /\ exec[e].actions \in 0..MaxNodeActions
       /\ exec[e].pc = "attach" => exec[e].look # {}

Init ==
  /\ parent = [status |-> "absent", readyAt |-> 0, nodes |-> NoNodes]
  /\ lease = NoLease
  /\ children = [n \in Node |-> NoChild]
  /\ \E deployment \in Deployments :
       LET D == deployment.definition
           machines == {n \in Node : D[n].kind = "machine"}
       IN \E v \in [machines -> deployment.results] :
            given = [definition |-> D,
                     verdicts |-> [e \in Executors |-> [n \in machines |->
                       IF n \in deployment.handlers[e] THEN v[n] ELSE "none"]]]
  /\ executed = [n \in Node |-> {}]
  /\ exec = [e \in Executors |-> Idle]
  /\ failures = 0
  /\ now = 1

-----------------------------------------------------------------------------
(* The planner. *)
DepStatus(nodes, n) == {nodes[d].status : d \in SpecOf(n).dependsOn}

EvaluateWorkflowJoin(policy, states) ==
  IF policy = "all"
  THEN IF states \cap {"failed", "skipped"} # {} THEN "failed"
       ELSE IF states = {"succeeded"} THEN "succeeded"
       ELSE "pending"
  ELSE IF "succeeded" \in states THEN "succeeded"
       ELSE IF \A s \in states : NodeTerminal(s) THEN "failed"
       ELSE "pending"

(* What is due for a pending node: "run", a final status, or nothing yet.  *)
(* Mutant: a fail-fast node runs once its dependencies have ended. *)
DueIgnoresFailure(nodes, n) ==
  LET states == DepStatus(nodes, n)
  IN IF KindOf(n) = "join" THEN EvaluateWorkflowJoin(SpecOf(n).join, states)
     ELSE IF \A s \in states : NodeTerminal(s) THEN "run" ELSE "pending"

Due(nodes, n) ==
  LET states == DepStatus(nodes, n)
  IN IF KindOf(n) = "join" THEN EvaluateWorkflowJoin(SpecOf(n).join, states)
     ELSE IF SpecOf(n).policy = "fail_fast" /\ "failed" \in states THEN "failed"
     ELSE IF states \subseteq {"succeeded"} THEN "run"
     ELSE IF SpecOf(n).policy = "continue" /\ \A s \in states : NodeTerminal(s)
          THEN "run"
     ELSE "pending"

planWorkflow(nodes) ==
  LET planned == SetToSortSeq({n \in Node : /\ nodes[n].status = "pending"
                                            /\ Due(nodes, n) # "pending"}, <)
  IN [i \in DOMAIN planned |-> [id |-> planned[i], due |-> Due(nodes, planned[i])]]

Sinks == {n \in Node : \A m \in Node : n \notin SpecOf(m).dependsOn}

(* workflowDefinitionOutcome: "" while some sink is not terminal. *)
Outcome(nodes) ==
  IF \E n \in Sinks : ~NodeTerminal(nodes[n].status) THEN ""
  ELSE IF \E n \in Sinks : nodes[n].status = "failed" THEN "failed"
  ELSE "completed"

SkipNonTerminal(nodes) ==
  [n \in Node |-> IF NodeTerminal(nodes[n].status) THEN nodes[n]
                  ELSE [nodes[n] EXCEPT !.status = "skipped"]]

TimersWaiting(nodes) ==
  {n \in OfKind("timer") : nodes[n].status = "waiting"}

(* Wake-ups at or past the horizon count as due at the horizon. *)
AtMostHorizon(t) == IF t < Horizon THEN t ELSE Horizon

nextWakeAt(nodes) ==
  Min({AtMostHorizon(now + PollInterval)}
        \cup {nodes[n].readyAt : n \in TimersWaiting(nodes)})

(* Mutants: a timer fires only after its deadline, its deadline is cleared
   when it fires. *)
FireTimersAfter(nodes, wake) ==
  [n \in Node |-> IF n \in TimersWaiting(nodes) /\ wake > nodes[n].readyAt
                  THEN [nodes[n] EXCEPT !.status = "succeeded"] ELSE nodes[n]]

FireTimersClears(nodes, wake) ==
  [n \in Node |-> IF n \in TimersWaiting(nodes) /\ wake # 0 /\ wake >= nodes[n].readyAt
                  THEN [nodes[n] EXCEPT !.status = "succeeded", !.readyAt = 0]
                  ELSE nodes[n]]

(* Timers fire by the wake-up time the snapshot was stored with. *)
FireTimers(nodes, wake) ==
  [n \in Node |-> IF n \in TimersWaiting(nodes) /\ wake # 0 /\ wake >= nodes[n].readyAt
                  THEN [nodes[n] EXCEPT !.status = "succeeded"] ELSE nodes[n]]

-----------------------------------------------------------------------------
(* RunOnce and Run.  An error ends Run, after a release that a canceled    *)
(* context makes ineffective.                                              *)
Become(e, local) == exec' = [exec EXCEPT ![e] = local]

Holds(e) == lease.owner = e /\ lease.ttl > 0

Stop(e, released) ==
  /\ Become(e, [Idle EXCEPT !.pc = "down"])
  /\ lease' = IF released /\ lease.owner = e THEN NoLease ELSE lease

ReturnError(e) == Stop(e, exec[e].ctx # "canceled")

Ready == {"accepted", "running", "suspended", "cancel_requested"}

Start ==
  /\ parent.status = "absent"
  /\ parent' = [parent EXCEPT !.status = "accepted"]
  /\ UNCHANGED <<lease, children, given, executed, exec, failures, now>>

WakeDue == parent.readyAt = 0 \/ now >= parent.readyAt

(* ListReady and Claim.  A claim is granted only on the revision that was  *)
(* listed, so the wake-up time the candidate was listed with is the stored *)
(* one; every refused claim is skipped.                                    *)
Claim(e) ==
  /\ exec[e].pc = "idle"
  /\ parent.status \in Ready
  /\ WakeDue
  /\ lease.ttl = 0
  /\ lease' = [owner |-> e, ttl |-> LeaseDuration]
  /\ IF parent.status = "cancel_requested"
     THEN /\ Become(e, [Idle EXCEPT !.pc = "commit", !.next = "canceled",
                                    !.nodes = SkipNonTerminal(parent.nodes)])
          /\ UNCHANGED parent
     ELSE /\ Become(e, [Idle EXCEPT !.pc = "refresh", !.nodes = parent.nodes,
                          !.wake = parent.readyAt,
                          !.look = {n \in OfKind("child") :
                                      parent.nodes[n].status = "waiting"}])
          /\ parent' = [parent EXCEPT !.status = "running", !.readyAt = 0]
  /\ UNCHANGED <<children, given, executed, failures, now>>

(* The reconciliation has run out of commands or of its budget. *)
Decided(w) ==
  LET outcome == Outcome(w.nodes)
  IN [w EXCEPT !.pc = "commit", !.commands = << >>,
        !.nodes = IF outcome = "" THEN @ ELSE SkipNonTerminal(@),
        !.next = IF outcome = "" THEN "suspended" ELSE outcome,
        !.readyAt = IF outcome = "" THEN nextWakeAt(w.nodes) ELSE 0]

(* The two loops of reconcile: commands left of this plan, a new plan, or  *)
(* the end.                                                                *)
Proceed(w) ==
  LET commands == IF w.commands # << >> THEN w.commands ELSE planWorkflow(w.nodes)
  IN IF w.actions >= MaxNodeActions \/ commands = << >> THEN Decided(w)
     ELSE [w EXCEPT !.pc = "execute", !.commands = commands]

(* refreshChild: what Attach(child, 0, 1) tells about a waiting child. *)
AttachFails(e, n) == exec[e].ctx # "live" \/ children[n].pruned

Refreshed(nodes, n) ==
  IF ~Terminal(children[n].status) THEN nodes
  ELSE IF children[n].status = "completed"
       THEN [nodes EXCEPT ![n].status = "succeeded"]
       ELSE [nodes EXCEPT ![n].status = "failed",
                          ![n].failure = "CHILD_TERMINAL_FAILURE"]

Refresh(e, n) ==
  /\ exec[e].pc = "refresh"
  /\ n \in exec[e].look
  /\ IF AttachFails(e, n) THEN ReturnError(e)
     ELSE /\ Become(e, [exec[e] EXCEPT !.look = @ \ {n},
                                       !.nodes = Refreshed(@, n)])
          /\ UNCHANGED lease
  /\ UNCHANGED <<parent, children, given, executed, failures, now>>

BeginPlan(e) ==
  /\ exec[e].pc = "refresh"
  /\ exec[e].look = {}
  /\ Become(e, Proceed([exec[e] EXCEPT !.nodes = FireTimers(@, exec[e].wake)]))
  /\ UNCHANGED <<parent, lease, children, given, executed, failures, now>>

(* The command is done and counted. *)
Done(w, nodes) ==
  Proceed([w EXCEPT !.nodes = nodes, !.look = {}, !.commands = Tail(@),
                    !.actions = @ + 1])

Command(e) == Head(exec[e].commands)

Executing(e, kinds) ==
  /\ exec[e].pc = "execute"
  /\ KindOf(Command(e).id) \in kinds

(* A node the plan already decided: a join, or a dependency that failed. *)
ExecuteComplete(e) ==
  /\ exec[e].pc = "execute"
  /\ Command(e).due # "run"
  /\ LET n == Command(e).id
         failure == IF Command(e).due = "failed" THEN "DEPENDENCY_FAILED" ELSE ""
     IN Become(e, Done(exec[e], [exec[e].nodes EXCEPT ![n].status = Command(e).due,
                                                      ![n].failure = failure]))
  /\ UNCHANGED <<parent, lease, children, given, executed, failures, now>>

(* The deadline counts from the workflow's start, which is instant 1. *)
TimerDeadline(n) == 1 + SpecOf(n).delay

ExecuteTimer(e) ==
  /\ Executing(e, {"timer"}) /\ Command(e).due = "run"
  /\ LET n == Command(e).id
     IN Become(e, Done(exec[e], [exec[e].nodes EXCEPT
          ![n].status = "waiting", ![n].attempt = @ + 1,
          ![n].readyAt = TimerDeadline(n)]))
  /\ UNCHANGED <<parent, lease, children, given, executed, failures, now>>

ChildStarted(nodes, n) ==
  LET attempt == nodes[n].attempt + 1
  IN [nodes EXCEPT ![n].status = "waiting", ![n].attempt = attempt,
                   ![n].childCallID = attempt]

(* Mutant: every reconciliation starts a child of its own. *)
StartChildAnew(e) ==
  /\ Executing(e, {"child"}) /\ Command(e).due = "run" /\ exec[e].ctx = "live"
  /\ LET n == Command(e).id
     IN /\ children' = [children EXCEPT ![n] = [NoChild EXCEPT !.status = "running"]]
        /\ Become(e, [exec[e] EXCEPT !.pc = "attach", !.look = {n},
                       !.nodes = ChildStarted(@, n)])
  /\ UNCHANGED <<parent, lease, given, executed, failures, now>>

(* StartCall: a child that exists already is the one to wait for. *)
StartChild(e) ==
  /\ Executing(e, {"child"}) /\ Command(e).due = "run"
  /\ LET n == Command(e).id
     IN IF exec[e].ctx # "live" THEN ReturnError(e) /\ UNCHANGED children
        ELSE /\ children' = [children EXCEPT ![n] =
                  IF @.status = "absent" THEN [@ EXCEPT !.status = "running"] ELSE @]
             /\ Become(e, [exec[e] EXCEPT !.pc = "attach", !.look = {n},
                            !.nodes = ChildStarted(@, n)])
             /\ UNCHANGED lease
  /\ UNCHANGED <<parent, given, executed, failures, now>>

AttachStarted(e) ==
  /\ exec[e].pc = "attach"
  /\ LET n == Command(e).id
     IN IF AttachFails(e, n) THEN ReturnError(e)
        ELSE /\ Become(e, Done(exec[e], Refreshed(exec[e].nodes, n)))
             /\ UNCHANGED lease
  /\ UNCHANGED <<parent, children, given, executed, failures, now>>

(* The handler runs to its end, whether or not its context has ended; it   *)
(* may report the end of its context as its own failure.                   *)
HandlerResults(e, n) ==
  {Verdict(e, n)} \cup (IF exec[e].ctx = "live" THEN {} ELSE {"failed"})

(* A result that is not valid ends the reconciliation after the handler ran. *)
ExecuteMachine(e) ==
  /\ Executing(e, {"machine"}) /\ Command(e).due = "run"
  /\ LET n == Command(e).id
         attempt == exec[e].nodes[n].attempt + 1
     IN IF Verdict(e, n) = "none" THEN ReturnError(e) /\ UNCHANGED executed
        ELSE /\ executed' = [executed EXCEPT ![n] = @ \cup {attempt}]
             /\ \E result \in HandlerResults(e, n) :
                  IF result = "invalid" THEN ReturnError(e)
                  ELSE /\ Become(e, Done(exec[e], [exec[e].nodes EXCEPT
                            ![n].status = result, ![n].attempt = attempt,
                            ![n].failure = IF result = "failed" THEN "HANDLER_ERROR"
                                           ELSE ""]))
                       /\ UNCHANGED lease
  /\ UNCHANGED <<parent, children, given, failures, now>>

(* validateWorkflowState.  The planner demands it of its input, as well;    *)
(* SuccessorsAccepted shows that it is never refused.                       *)
ValidState(nodes) ==
  \A n \in Node :
    LET node == nodes[n]
    IN /\ node.readyAt # 0 => KindOf(n) = "timer"
       /\ node.childCallID # 0 => KindOf(n) = "child"
       /\ node.status = "waiting" /\ KindOf(n) = "timer" => node.readyAt # 0
       /\ node.status = "waiting" /\ KindOf(n) = "child" => node.childCallID # 0
       /\ node.failure # "" => node.status = "failed"

(* validateWorkflowSuccessor on one node. *)
NodeSuccessor(from, to) ==
  /\ to.attempt \in from.attempt..(from.attempt + 1)
  /\ from.childCallID # 0 => to.childCallID = from.childCallID
  /\ from.readyAt # 0 => to.readyAt = from.readyAt
  /\ NodeTerminal(from.status) => to.status = from.status
  /\ from.status = "waiting" => to.status # "pending"

ValidSuccessor(current, next) ==
  /\ ValidState(current) /\ ValidState(next)
  /\ \A n \in Node : NodeSuccessor(current[n], next[n])

(* Mutant: the commit is made under a context of its own. *)
CommitDetached(e) == Holds(e) /\ exec[e].ctx # "lost"

(* Mutant: the commit does not compare the lease. *)
CommitUnfenced(e) == exec[e].ctx = "live"

(* Transition looks at the context and at the lease.  A heartbeat that lost *)
(* the lease discards the result before.                                    *)
CommitGranted(e) == Holds(e) /\ exec[e].ctx = "live"

Commit(e) ==
  /\ exec[e].pc = "commit"
  /\ IF CommitGranted(e) /\ ValidSuccessor(parent.nodes, exec[e].nodes)
     THEN /\ parent' = [status |-> exec[e].next, readyAt |-> exec[e].readyAt,
                        nodes |-> exec[e].nodes]
          /\ lease' = NoLease
          /\ Become(e, Idle)
     ELSE ReturnError(e) /\ UNCHANGED parent
  /\ UNCHANGED <<children, given, executed, failures, now>>

Reconciling(e) == exec[e].pc \in {"refresh", "execute", "attach"}

(* The heartbeat of reconcileWithHeartbeat. *)
Renew(e) ==
  /\ Reconciling(e) /\ exec[e].ctx = "live"
  /\ IF Holds(e)
     THEN lease' = [lease EXCEPT !.ttl = LeaseDuration] /\ UNCHANGED exec
     ELSE Become(e, [exec[e] EXCEPT !.ctx = "lost"]) /\ UNCHANGED lease
  /\ UNCHANGED <<parent, children, given, executed, failures, now>>

-----------------------------------------------------------------------------
(* Failures of executors.  Each one counts against MaxFailures. *)
Fail == failures < MaxFailures /\ failures' = failures + 1

Crash(e) ==
  /\ exec[e].pc \notin {"idle", "down"}
  /\ Fail
  /\ Stop(e, FALSE)
  /\ UNCHANGED <<parent, children, given, executed, now>>

(* The context given to Run ends. *)
Shutdown(e) ==
  /\ exec[e].pc # "down" /\ exec[e].ctx = "live"
  /\ Fail
  /\ IF exec[e].pc = "idle" THEN Stop(e, FALSE)
     ELSE Become(e, [exec[e] EXCEPT !.ctx = "canceled"]) /\ UNCHANGED lease
  /\ UNCHANGED <<parent, children, given, executed, now>>

(* External: a supervisor starts Run again after it returned. *)
Restart(e) ==
  /\ exec[e].pc = "down"
  /\ Become(e, Idle)
  /\ UNCHANGED <<parent, lease, children, given, executed, failures, now>>

-----------------------------------------------------------------------------
(* External: the child calls, run by a Runtime on the children's store. *)
ChildFinish(n) ==
  /\ children[n].status = "running"
  /\ \E outcome \in {"completed", "failed"} :
       children' = [children EXCEPT ![n].status = outcome]
  /\ UNCHANGED <<parent, lease, given, executed, exec, failures, now>>

(* Administration of a terminal child: its frames are pruned past the      *)
(* first, or it is collected after its retention, which is remembered.     *)
ChildAdmin(n) ==
  /\ Terminal(children[n].status)
  /\ \/ /\ "prune" \in ChildEvents
        /\ children' = [children EXCEPT ![n].pruned = TRUE]
     \/ /\ "collect" \in ChildEvents
        /\ children' = [children EXCEPT ![n] = [NoChild EXCEPT !.collected = TRUE]]
  /\ UNCHANGED <<parent, lease, given, executed, exec, failures, now>>

(* A client or an administrator ends the parent, and its lease with it. *)
RequestCancel ==
  /\ parent.status \in {"accepted", "running", "suspended"}
  /\ parent' = [parent EXCEPT !.status = "cancel_requested", !.readyAt = 0]
  /\ lease' = NoLease
  /\ UNCHANGED <<children, given, executed, exec, failures, now>>

Expire ==
  /\ parent.status \in Ready
  /\ parent' = [parent EXCEPT !.status = "expired", !.readyAt = 0]
  /\ lease' = NoLease
  /\ UNCHANGED <<children, given, executed, exec, failures, now>>

(* Time passes once the workflow has started.  HeartbeatInterval is below  *)
(* LeaseDuration, so a reconciliation's lease runs out only when its       *)
(* heartbeat stalls.                                                       *)
Endangered(e) == Holds(e) /\ lease.ttl = 1 /\ exec[e].pc # "down" /\ exec[e].pc # "idle"

Tick ==
  /\ parent.status # "absent"
  /\ now < Horizon \/ lease.ttl > 0
  /\ now' = AtMostHorizon(now + 1)
  /\ lease' = [lease EXCEPT !.ttl = IF @ > 0 THEN @ - 1 ELSE 0]
  /\ IF \E e \in Executors : Endangered(e) THEN Fail ELSE UNCHANGED failures
  /\ UNCHANGED <<parent, children, given, executed, exec>>

Work(e) ==
  \/ Claim(e) \/ BeginPlan(e)
  \/ \E n \in Node : Refresh(e, n)
  \/ ExecuteComplete(e) \/ ExecuteTimer(e) \/ ExecuteMachine(e)
  \/ StartChild(e) \/ AttachStarted(e)
  \/ Commit(e)

Next ==
  \/ Start
  \/ \E e \in Executors : Work(e) \/ Renew(e) \/ Crash(e) \/ Shutdown(e) \/ Restart(e)
  \/ \E n \in Node : ChildFinish(n) \/ ChildAdmin(n)
  \/ RequestCancel
  \/ Expire
  \/ Tick

Spec == Init /\ [][Next]_wfVars

(* Executors are scheduled and restarted, children finish and time passes; *)
(* nobody has to start, cancel, expire or fail anything.                   *)
Fairness ==
  /\ \A e \in Executors : WF_wfVars(Work(e) \/ Restart(e))
  /\ \A n \in Node : WF_wfVars(ChildFinish(n))
  /\ WF_wfVars(Tick)

FairSpec == Spec /\ Fairness

-----------------------------------------------------------------------------
ChildrenCollected == \E n \in Node : children[n].collected
ChildrenPruned == \E n \in Node : children[n].pruned

(* Every executor was deployed with all the handlers, which keep to the     *)
(* results WorkflowNodeResult allows.                                       *)
FullyDeployed ==
  \A e \in Executors, n \in OfKind("machine") : Verdict(e, n) \in {"succeeded", "failed"}

Satisfied(n) ==
  LET states == DepStatus(parent.nodes, n)
  IN IF SpecOf(n).policy = "continue" THEN \A s \in states : NodeTerminal(s)
     ELSE states \subseteq {"succeeded"}

(* A stored node that was scheduled had its dependencies met by what is
   stored with it, and a stored join agrees with its dependencies: no mix of
   two reconciliations, of which one lost its lease, is ever stored. *)
DependenciesMet ==
  \A n \in Node :
     LET node == parent.nodes[n]
     IN /\ KindOf(n) # "join" /\ node.attempt = 1 => Satisfied(n)
        /\ KindOf(n) = "join" /\ node.status \in {"succeeded", "failed"} =>
             node.status = EvaluateWorkflowJoin(SpecOf(n).join,
                             {IF s = "skipped" THEN "waiting" ELSE s :
                                s \in DepStatus(parent.nodes, n)})
        /\ node.failure = "DEPENDENCY_FAILED" => node.attempt = 0

(* A finished workflow reports the fate of its sinks: completed exactly when
   all of them succeeded, failed when one of them failed, and no node of it
   is left unfinished. *)
OutcomeOfSinks ==
  /\ parent.status = "completed" =>
       \A n \in Sinks : parent.nodes[n].status = "succeeded"
  /\ parent.status = "failed" => \E n \in Sinks : parent.nodes[n].status = "failed"
  /\ parent.status \in {"completed", "failed", "canceled"} =>
       \A n \in Node : NodeTerminal(parent.nodes[n].status)

(* No timer is reported before its deadline, counted from the start of the
   workflow, whichever executor finds it due and by whichever wake-up. *)
TimersNotEarly ==
  \A n \in OfKind("timer") :
     parent.nodes[n].status = "succeeded" => now >= TimerDeadline(n)

(* A machine node stored as failed by its handler is one whose handler does
   fail: an executor that is told to stop while a handler runs does not
   record the interruption as the node's result. *)
FailureIsGenuine ==
  \A n \in OfKind("machine") :
     parent.nodes[n].failure = "HANDLER_ERROR" =>
       \E e \in Executors : Verdict(e, n) = "failed"

(* However often a node is executed again after crashes and lost leases, it
   is under the same attempt, so workflowExecutionID gives the handler one
   identity to deduplicate by and DeriveChildCallID one child. *)
StableAttempt == \A n \in OfKind("machine") : executed[n] \subseteq {1}

(* What a handler did is never disowned: a node whose handler was called is
   not reported as failed for its dependencies, although the reconciliation
   that called it may have been lost with everything it had found out.  The
   child it depended on must not be collected before the parent is stored. *)
ExecutedNotDisowned ==
  \A n \in OfKind("machine") :
     executed[n] # {} /\ ~ChildrenCollected => parent.nodes[n].failure # "DEPENDENCY_FAILED"

(* The states a reconciliation plans from pass validateWorkflowState, and
   what it hands to Apply passes validateWorkflowSuccessor, as long as the
   snapshot it started from is still the stored one: otherwise the same
   reconciliation would fail forever. *)
SuccessorsAccepted ==
  \A e \in Executors :
     /\ Reconciling(e) => ValidState(exec[e].nodes)
     /\ exec[e].pc = "commit" /\ Holds(e) =>
          ValidSuccessor(parent.nodes, exec[e].nodes)

(* A stored terminal node keeps its state, a stored child or timer keeps
   waiting for the same thing, and an ended workflow does not change. *)
NodesAreFinal ==
  [][/\ \A n \in Node : NodeSuccessor(parent.nodes[n], parent'.nodes[n])
     /\ Terminal(parent.status) => parent' = parent]_wfVars

(* Every started workflow ends: no combination of crashes, lost leases,
   missed wake-ups and exhausted budgets leaves it suspended for good while
   its children finish and its handlers return valid results.  It does need
   what operators are in charge of: all executors have the handlers, a Run
   that returned is started again, and no child is pruned or collected under
   a workflow that still waits for it. *)
WorkflowEnds ==
  parent.status = "accepted" /\ FullyDeployed ~>
    (Terminal(parent.status) \/ ChildrenPruned \/ ChildrenCollected)

(* What holds of the stored parent at every moment: its nodes agree with each
   other, with the clock and with its status. *)
WorkflowInv ==
  TypeOKWorkflow /\ DependenciesMet /\ OutcomeOfSinks /\ TimersNotEarly /\ StableAttempt
=============================================================================
