# A formal model of keelith

keelith is a Go framework for services: durable calls that survive their
executors, sagas, an outbox and an inbox, workers, leases, and around them the
machinery of a service (lifecycle, configuration, governance, caches, topology,
transports). This directory holds TLA+ modules translated from its source, TLC
configurations that check them on small instances, and TLAPS proofs of the
properties everything else rests on. `PROJECT.json` maps every definition to the
lines it models.

    tlasany M.tla                        parse a module
    tlc -workers 2 -config X.cfg M       one of the runs below
    tlapm ContinuationStoreProofs.tla    check the proofs (about four minutes)
    tlapm DurableCallProofs.tla

## 1. The system

| Part | State it keeps | Operations | Interacts with |
|---|---|---|---|
| continuation store (`programmable/continuation/memory`) | a snapshot per call (status, revision, fence, sequence, log of frames, accepted commands, timer), a lease per call, a retention deadline per ended call | Create, Claim, Acquire, Renew, Release, Transition, SubmitSignal, RequestCancel, ListReady, PruneFrames, Expire, DeleteExpired | executors, clients, administrators |
| continuation runtime (`programmable/continuation`) | what a goroutine holds between two store calls: its claim, its snapshot, its step count | RunOnce, Run, StartCallInline, Attach, Cancel, Expire, Prune, Collect | the store, machines |
| durable workflow | the states of the nodes of a graph inside the snapshot of a parent | definition checks; reconcile, refresh children, execute commands, commit | the store, child calls, node handlers |
| HTTP and gRPC readers | a cursor on either side, events in flight | Attach, pump, Recv, Call | Attach pages of the runtime |
| coordination | a lease and a growing fence per key | TryAcquire, Release, loss | saga engine, owned scheduler |
| saga | a record: status, next step, compensation index, attempt, revision | Run: load or create, act, compensate, save | coordination, repository, handlers |
| outbox | rows with owner, lease, attempts, state | Start, claim a batch, publish, complete, retry, fail, Stop | repository, broker |
| inbox | processed keys and the effects committed with them | Handle | broker, transactional executor |
| worker | lifecycle state, in-flight group | Start, Stop, dispatch, rollback, shutdown | consumer or scheduler source |
| owned scheduler | one run per trigger and the lease under which it runs | runOwned | coordination, job handler |
| application lifecycle (`app`) | state, started servers, active hooks | Run, Stop | servers, registry, health |
| configuration, secrets, features | current snapshot, watchers | Start, Stop, watch, publish | sources, subscribers |
| governance | breaker windows, bulkhead queues, limiter tokens, idempotency claims, hedged attempts | admit, complete | every call of a client or server |
| cache | entries, generations, versions | Get, Set, Invalidate, ObserveInvalidation | backend, loader, other replicas |
| projection | owner feed, generations, checkpoints | publish, apply, read, resume | stores, transport |
| topology | epochs, leases, traffic weights; observed and applied revision | Stage, MarkReady, Drain, Stop; Apply, Run | components, plan sources |
| registry, selector, client | instances, watchers, connection sets | register, watch, pick | transports |
| everything else | no protocol of its own: value types, policy tables, observability, transports as codecs, generators and the command line | | |

What is hard in it:

* executors lose a lease without noticing and go on with data that is out of date;
* a process stops between an effect and the record of that effect;
* commands arrive in the middle of a step, twice, or after the end;
* readers reconnect with a cursor into a log that is growing or being pruned;
* a message is published and not settled, or applied and not acknowledged;
* Start, Stop and a running handler meet in any order;
* 64-bit counters end, and leases end by the clock and not by an event.

`PROJECT.json` lists these hazards at the lines where they arise, each with
the properties that would show it going wrong.

## 2. The modules

Every module starts with a comment that says what it models and how its state
corresponds to the code. Variables and actions carry the source's names.

| Module | Models | Extends |
|---|---|---|
| `ContinuationState` | `Apply`, `PruneSnapshot`, `validateSnapshot`: the pure functions on snapshots | |
| `ContinuationStore` | the memory store; each method one action under its mutex | `ContinuationState` |
| `DurableCall` | abstract: what a client is promised about a call | |
| `ContinuationStoreProofs`, `DurableCallProofs` | theorems about the store | `ContinuationStore` |
| `ContinuationRuntime` | executor loops, inline attempts, heartbeats, administrators | `ContinuationStore` |
| `ContinuationAttach` | one page of a call's log | `ContinuationStore` |
| `ContinuationHTTP`, `ContinuationGRPC` | the two ways a reader follows a call | `ContinuationAttach` |
| `WorkflowDefinition` | validation and canonical order of a workflow graph | |
| `ContinuationWorkflow` | executors that reconcile one workflow parent | |
| `Coordination` | leases with fences | |
| `Saga` | engines that run one saga | `Coordination` |
| `OwnedScheduler` | replicas of a scheduled job | `Coordination` |
| `Broker` | external: an at-least-once queue | |
| `Outbox` | dispatchers over a repository | `Broker` |
| `Inbox` | processors over a transactional executor | `Broker` |
| `MessageDelivery` | outbox and inbox composed by the broker | `Outbox`, `Inbox` |
| `Worker` | one worker, its callers and its handlers | |

`MC...` modules and the `.cfg` files give the constants their values.

How the code became actions. A method that runs under one mutex is one action.
A goroutine is a record with a control state `pc`; each of its steps makes at
most one call to shared state, so that others interleave where the code gives
up the lock or waits. Local data survive between the steps and may be out of
date, which is what the properties are about. Clocks are either a counter with
a horizon (continuation, workflow) or an action that ends a lease at any time
it has not been renewed (coordination, outbox). Payloads, names and
messages are model values.

External parts are the ones the code reaches through an interface: the outbox
`Repository` and `Publisher`, the inbox `Executor`, the broker, machines and
node handlers, the adapters of a worker. They do what their interface comments
ask of them, and any call to them may fail before or after it took effect.
Dispatchers that share a repository have different `Config.Owner` values, which
the code does not enforce. The attempts of an outbox row count claims: a claim
that is lost uses one up although nothing was published.
The `store` run applies transitions to the stored snapshot only; executors that
act on an older one are part of `runtime` and are checked there, against the
store's specification.

## 3. The runs

| Run | Instance | What it shows |
|---|---|---|
| `store` | one call, two owners, two commands, two instants | the invariants the store's methods rely on in each other; that terminal calls are final, leases exclude, logs grow only at the end, cancellation sticks; that the store implements `DurableCall` |
| `runtime` | a loop and an inline attempt of one process, an administrator | every step of an executor is a step of the store; an accepted command is never lost; ended calls can be collected |
| `progress` | two loops, one failure | under fairness every call settles and every cancellation takes effect, whatever stops in between |
| `retry` (violation) | two loops | a step that runs again does so under another revision |
| `readers` | one reader over SSE with one broken connection, or one over gRPC | the reader sees the log, accepts every page, returns the outcome of the call, and returns |
| `http_silent` (violation) | machines that end a call without a frame | the reader never returns |
| `workflow` | two executors; two graphs (a child and its successor raced by a timer; a child with clean-up nodes, one executor without the handler and a handler whose result may be invalid); cancel and expire; children pruned and collected | nodes start when their dependencies are met, timers are not early, interruptions are not failures, a node has one identity, what is planned from and committed passes the state's own validation, nodes are final and the outcome is that of the sinks |
| `workflow_ends` | a machine after a child and a timer, one failure, fair | the workflow ends |
| `saga` | two engines, four steps, a handler may have taken effect when it reports an error, fair | a compensated saga undid what it did, in reverse; an action or compensation first takes effect only at the step the record is at; the record moves one way; every saga ends |
| `outbox` | two dispatchers with different batch sizes, fair | published rows were sent, given-up rows used their claims, a dispatcher settles only what it holds; every row is settled; Stop returns |
| `delivery` | one dispatcher, two processors, one message of any of three kinds, fair | an effect happens once and an acknowledged message had its effect; a stored message takes effect or is given up; the queue drains |
| `components` | one of three parts at a time: every graph of three nodes; a worker with two Stops and three handlers of which one ignores cancellation; two replicas of a job with four fences | dependencies come first, cycles are found, equal graphs are equal; nothing runs after a drain, a clean Stop is clean, one shutdown, every Stop returns; an acknowledged run held its lease, leases are given back, and two replicas run at once only when one lost its lease |

The state invariants of a component that belong together are the conjuncts of
one invariant (`IInv`, `RuntimeInv`, `StreamInv`, `GrpcInv`, `WorkflowInv`,
`SagaInv`, `OutboxInv`, `InboxInv`, `DefinitionInv`, `WorkerInv`, `OwnedInv`), of
which the type invariant is the first; each conjunct has its own definition and
comment. Action properties, refinements and liveness are properties of their own.

`readers` and `components` choose in their initial state which part runs
(`transport`, `focus`); the others stay where they start.

### Bounds

Every bound is a constant, named in the module, that appears in a guard.
`MaxUint64` is the last value of the 64-bit counters: with 5 to 12 the
saturation guards are reached in the same run as everything else, which is what
the code does at 2^64-1. `MaxTime` and `Horizon` of two or three ticks with
leases of one tick let a lease run out, be taken over and run out again.
`MaxFailures`, `MaxFaults`, `MaxBreaks` and `MaxIncidents` bound the crashes,
failed calls and lost leases: one fault gives every single-fault
schedule, and two or three the faults that meet (a lease lost while the
takeover crashes). Two executors, engines or dispatchers show every pairwise
interleaving, and the protocols hand over between two parties only. The saga
has four steps because a step without compensation must lie on both sides of one
with it. `MaxRows` bounds the messages enqueued in one behaviour,
`ChildEvents` names what may befall a child call, and `Deployments` are the
workflow graphs with the handlers each executor was deployed with and the results
these may return. Pages of two frames (`PageSize`) and two events or messages in
flight (`MaxWire`) let a gRPC page be split into several messages while the call
moves on, and let a reader be more than a page behind. No run uses symmetry.

### Fairness

Fairness is assumed of what the Go scheduler and the clock guarantee: a
goroutine that can take a step takes it, time passes, a lease that is not
renewed ends, a stopped loop is started again by its supervisor. It is not
assumed of clients, administrators, failures or of handlers that may block: a
handler must end only where the code cancels its context and the handler is not
one that ignores it. `Publish` returns by its timeout, and `WorkflowEnds` is
about handlers that return valid results. The broker delivers again what is in its queue. Deadlock is
checked in the runs of the store, the outbox and the delivery, where some action
(the clock, a poll) is always possible; the other systems really come to
rest.

## 4. The proofs

`ContinuationStoreProofs` proves, for any set of calls, owners, commands and
payloads, any set of typed transitions and any `MaxUint64 >= 2`, `Retention`,
`LeaseDuration` and `MaxTime`:

* `StoreSafety`: `Spec => []IInv`, with
  `IInv == TypeOK /\ LeaseCoversRecord /\ PrunedIsTerminal /\ ExpiryIsTerminal`.
  No conjunct is inductive alone. A commit keeps the lease of a running call, so
  it needs the lease to name the record before; pruning changes the log under
  a lease unless pruned calls are terminal and terminal calls have no lease;
  collection is safe because deadlines belong to terminal calls.
* `StoreTypeOK`, `LeaseCoversRecordHolds`: parts of it.
* `StoredValidHolds`: every stored snapshot passes `validateSnapshot`. The lemmas
  `ApplyValid`, `PruneValid` and `NewSnapshotValid` show it of the pure functions
  and `StoredValidStep` of the store.
* `TerminalIsFinalHolds`, `LeaseExcludesHolds`, `CancelIsStickyHolds`,
  `LogAppendOnlyHolds`: the action properties (of the first and the last TLC
  checks what `DurableCall` says: the log, and the phase and version of an ended
  call). They rest on one lemma,
  `StepOfRecord`, which says that a step of the store changes the record of a
  call in one of a few ways.

`DurableCallProofs` proves `StoreImplementsDurableCall`: under the mapping
`View`, which forgets leases, fences, commands and clocks, every step of the
store is a step of `DurableCall` or leaves it unchanged.

The proofs use the assumptions declared in `ContinuationState` and
`ContinuationStore` and nothing else; the runs evaluate them. What is only
model-checked: all liveness (fairness and ENABLED are outside the prover), the
executors, readers, workflows, sagas, outbox, inbox, worker and scheduler.

## 5. Findings

Two places where the code and its comments disagree, each with a run that
shows it; `PROJECT.json` quotes the lines.

1. `retry`: a step that is run again has another revision, although the comments
   offer call and revision as its idempotency identity.
2. `http_silent`: `Call` does not return when a call ends without a frame.

Three more behaviours that a reader of the comments may not expect. The models
have them and the properties are stated so as to allow for them.

* The gRPC stream of an ended call ends after one page, whatever is left of the
  log (`PageSent`); the SSE pump goes on to the last frame.
* `WorkflowRuntime.Run` returns on a refused commit, for instance after a
  cancellation, although its context lives (`ReturnError`).
* A saga action that takes effect and still reports an error, as one that
  succeeds after its timeout does, is not compensated: `CompensatedUndoesAll`
  and `ReverseOrder` except the step at which the saga turned. Such an action may
  even come after the turn. The resource of a step rejects a fence older than the
  last it accepted, and when the new owner's handler failed before it reached
  the resource, the old owner's pending action is still accepted
  (`EffectAtRecord` shows that it can be of no other step).

## 6. The plan

In this order; each module with its runs before the next.

1. `AppLifecycle` (app, drain, registration, health): no server left running,
   order of stops, Stop always answered; `ConfigRuntime` (config/runtime.go):
   Start and Stop in any order.
2. `Breaker`, `Bulkhead`, `Hedging`, `Idempotency`, then the limiters and the
   backoff arithmetic, with reference definitions.
3. `Cache` with several replicas and versioned invalidation, against an abstract
   register with bounded staleness.
4. `TopologyManager` (epochs and leases) and `TopologyControl` (revisions) over
   it.
5. `Projection`: owner feed, applier, checkpoints, resume.
6. Registry watchers, selectors, server lifecycles of the transports, WebSocket
   sessions, and the ordering algorithms of component and injection graphs.
7. Proofs, in the order of what they protect: that no handler runs after a
   drained worker, that a dispatcher settles only its claim, that an effect
   is applied once, the lease argument of the saga, the epoch manager, the
   breaker's generations and the bulkhead's slot count.

## 7. What is not modelled

Formatting, codecs, protobuf and JSON conversions, HTTP routing, TLS,
authentication and authorization, logging, metrics and traces: they hold no state
the properties depend on. Generated code (`api`), the generators, scaffolds and
command line (`internal`, `cmd`) produce text in one thread. Floating-point
load estimates are outside TLA+'s integers. The fingerprint of a workflow
definition and the normalisation of a worker's result are not modelled. Restoring a store from an encoded
backup and the paging of administrative lists are not modelled. The components
of the plan are listed in `PROJECT.json` as not modelled until their module is
here.
