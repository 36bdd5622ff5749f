-------------------------- MODULE MCContinuationWorkflow --------------------------
(* Small instances of ContinuationWorkflow: every kind of node, both join   *)
(* policies and both failure policies.                                      *)
EXTENDS ContinuationWorkflow

CONSTANTS A, B

NodeSpec(kind, deps) ==
  [kind |-> kind, dependsOn |-> deps, join |-> "", delay |-> 0, policy |-> "fail_fast"]

Call(kind, deps, policy) == [NodeSpec(kind, deps) EXCEPT !.policy = policy]
Timer(deps, delay) == [NodeSpec("timer", deps) EXCEPT !.delay = delay]
Join(deps, policy) == [NodeSpec("join", deps) EXCEPT !.join = policy]

(* A child and the machine that depends on it, raced by a timer. *)
Race == <<Call("child", {}, "fail_fast"), Timer({}, 2),
          Call("machine", {1}, "fail_fast"), Join({2, 3}, "any")>>

(* A machine that cleans up however the child ended, and a strict join. *)
Cleanup == <<Call("child", {}, "fail_fast"), Timer({1}, 1),
             Call("machine", {1}, "continue"), Join({1, 2}, "all")>>

(* A machine that runs after a child and a timer, however they end. *)
Meet == <<Call("child", {}, "fail_fast"), Timer({}, 1),
          Call("machine", {1, 2}, "continue")>>

AllHandlers == [e \in Executors |-> Node]

ValidResults == {"succeeded", "failed"}

(* The clean-up graph is deployed without its machine's handler on B, and   *)
(* that handler may return a result that is not valid.                      *)
MCDeployments ==
  {[definition |-> Race, handlers |-> AllHandlers, results |-> ValidResults],
   [definition |-> Cleanup, handlers |-> [AllHandlers EXCEPT ![B] = Node \ {3}],
    results |-> ValidResults \cup {"invalid"}]}

EndsDeployments ==
  {[definition |-> Meet, handlers |-> AllHandlers, results |-> ValidResults]}
=============================================================================
