---------------------------- MODULE ContinuationRuntime ----------------------------
(***************************************************************************)
(* The executors of programmable/continuation over one store: the loops of *)
(* Runtime.Run, the synchronous attempts of Runtime.StartCallInline, their *)
(* heartbeats, and the clients and administrators that change a call       *)
(* behind an executor's back.                                              *)
(*                                                                         *)
(* A thread is one goroutine; threads with the same Owner share a process  *)
(* and its executorID.  Between two store calls a thread holds only local  *)
(* data, in particular current, the snapshot it got from its claim or its  *)
(* last commit, which may be out of date when it is used.  Every step below *)
(* makes at most one store call, so the threads interleave exactly where   *)
(* the code releases the store's mutex.                                    *)
(***************************************************************************)
EXTENDS ContinuationStore

CONSTANTS
  Threads,         \* executor goroutines
  Owner,           \* the executorID of every thread's process
  Inline,          \* the threads that serve StartCallInline
  Moves,           \* the transitions a machine returns
  Registered,      \* pairs <<thread, call>> whose registry holds the machine
  Floors,          \* frame floors an administrator asks for
  BatchSize,       \* RuntimeConfig.BatchSize
  MaxTransitions,  \* RuntimeConfig.MaxTransitions and InlineBudget's
  MaxDetours,      \* bound: machine results that do not end the call
  MaxFailures      \* bound: crashes, shutdowns, budgets running out, stalls

ASSUME RuntimeAssumption ==
  /\ Owner \in [Threads -> Owners]
  /\ Inline \subseteq Threads
  /\ Registered \subseteq Threads \X CallIDs
  /\ Moves \subseteq Transitions
  /\ Floors \subseteq 1..MaxUint64
  /\ BatchSize \in Nat \ {0}
  /\ MaxTransitions \in Nat \ {0}

VARIABLES
  threads,   \* the local state of every thread
  detours,   \* machine results so far that did not end a call
  failures   \* failures so far

runtimeVars == <<records, leases, expires, now, threads, detours, failures>>

(* What Machine.Advance returns: a transition or a classified error. *)
Results == [kind : {"move"}, move : Moves]
             \cup [kind : {"retryable", "terminal", "internal"}]

Idle == [pc |-> "idle", ctx |-> "live", batch |-> {}, call |-> 0,
         current |-> NoSnapshot, step |-> 0]

(* RunOnce and StartCallInline return; a loop that got an error ends Run. *)
Returned(t) == IF t \in Inline THEN Idle ELSE [Idle EXCEPT !.pc = "stopped"]

TypeOKRuntime ==
  /\ TypeOK
  /\ threads \in [Threads ->
       [pc : {"idle", "batch", "claim", "advance", "load", "release", "stopped"},
        ctx : {"live", "canceled", "exhausted"},
        batch : SUBSET [call : CallIDs, revision : 0..MaxUint64],
        call : CallIDs \cup {0}, current : Snapshot, step : 0..MaxTransitions - 1]]
  /\ detours \in 0..MaxDetours
  /\ failures \in 0..MaxFailures

RuntimeInit ==
  /\ Init
  /\ threads = [t \in Threads |-> Idle]
  /\ detours = 0
  /\ failures = 0

Live(t) == threads[t].ctx = "live"

Become(t, local) == threads' = [threads EXCEPT ![t] = local]

-----------------------------------------------------------------------------
(* RunOnce: list a batch, then claim its candidates in order. *)
InBatch(batch) == [Idle EXCEPT !.pc = IF batch = {} THEN "idle" ELSE "batch",
                               !.batch = batch]

Poll(t) ==
  /\ t \notin Inline /\ threads[t].pc = "idle" /\ Live(t)
  /\ Become(t, InBatch({[call |-> c, revision |-> records[c].revision] :
                          c \in ListReady(BatchSize)}))
  /\ UNCHANGED <<vars, detours, failures>>

(* Run and RunOnce look at the context before every poll and candidate. *)
EndRun(t) ==
  /\ threads[t].pc \in {"idle", "batch"} /\ ~Live(t)
  /\ Become(t, Returned(t))
  /\ UNCHANGED <<vars, detours, failures>>

First(batch) == CHOOSE b \in batch : \A d \in batch : b.call <= d.call

(* Resolve the machine of the claimed call and give it the snapshot. *)
Begin(t, c, batch, snapshot) ==
  Become(t, [threads[t] EXCEPT
    !.pc = IF <<t, c>> \in Registered THEN "advance" ELSE "release",
    !.batch = batch, !.call = c, !.current = snapshot, !.step = 0])

ClaimNext(t) ==
  /\ threads[t].pc = "batch" /\ threads[t].batch # {} /\ Live(t)
  /\ LET b == First(threads[t].batch)
         rest == threads[t].batch \ {b}
     IN \/ /\ Claim(b.call, Owner[t], b.revision)
           /\ Begin(t, b.call, rest, records'[b.call])
        \/ /\ ClaimRepeated(b.call, Owner[t], b.revision)
           /\ Begin(t, b.call, rest, records[b.call])
           /\ UNCHANGED vars
        \/ /\ ClaimOvertaken(b.call, Owner[t], b.revision)
           /\ Become(t, InBatch(rest))
           /\ UNCHANGED vars
        \/ /\ ~ClaimGranted(b.call, b.revision)
           /\ ~ClaimRepeated(b.call, Owner[t], b.revision)
           /\ ~ClaimOvertaken(b.call, Owner[t], b.revision)
           /\ Become(t, Returned(t))
           /\ UNCHANGED vars
  /\ UNCHANGED <<detours, failures>>

-----------------------------------------------------------------------------
(* StartCallInline: create the call, then claim it at once. *)
StartCallInline(t) ==
  /\ t \in Inline /\ threads[t].pc = "idle"
  /\ \E c \in CallIDs, input \in Payloads :
       /\ Create(c, NewSnapshotWithInput(input))
       /\ Become(t, [Idle EXCEPT !.pc = "claim", !.call = c,
                                 !.current = NewSnapshotWithInput(input)])
  /\ UNCHANGED <<detours, failures>>

ClaimInline(t) ==
  /\ threads[t].pc = "claim"
  /\ LET c == threads[t].call
         revision == threads[t].current.revision
     IN \/ /\ Live(t)
           /\ Claim(c, Owner[t], revision)
           /\ Begin(t, c, {}, records'[c])
        \/ /\ Live(t) /\ ClaimRepeated(c, Owner[t], revision)
           /\ Begin(t, c, {}, records[c])
           /\ UNCHANGED vars
        \/ /\ Live(t) => /\ ~ClaimGranted(c, revision)
                         /\ ~ClaimRepeated(c, Owner[t], revision)
           /\ Become(t, Idle)
           /\ UNCHANGED vars
  /\ UNCHANGED <<detours, failures>>

-----------------------------------------------------------------------------
(* advance: the machine runs while its heartbeat renews the lease.  A       *)
(* failed heartbeat cancels the machine, and its error replaces whatever    *)
(* the machine returns.                                                     *)
Heartbeat(t) ==
  LET s == threads[t].current
      c == threads[t].call
  IN /\ threads[t].pc = "advance" /\ Live(t)
     /\ \/ /\ Renew(c, Owner[t], s.revision, s.fence)
           /\ UNCHANGED threads
        \/ /\ ~RenewGranted(c, Owner[t], s.revision, s.fence)
           /\ Become(t, [threads[t] EXCEPT !.pc = "release"])
           /\ UNCHANGED vars
     /\ UNCHANGED <<detours, failures>>

(* commitMachineError: the transition a classified error turns into. *)
ErrorMove(s, kind) ==
  IF kind = "terminal" THEN Move("failed", s.fence, <<NewFrame("failed", NoPayload)>>)
  ELSE Move(IF s.status = "cancel_requested" THEN "cancel_requested" ELSE "suspended",
            s.fence, <<NewFrame("suspended", NoPayload)>>)

Outcome(s, result) ==
  IF result.kind = "move" THEN result.move ELSE ErrorMove(s, result.kind)

(* Machines end a call with a bounded number of other results before. *)
Detour(s, result) ==
  IF result.kind # "internal" /\ LET t == Outcome(s, result)
                                 IN Terminal(t.status) /\ Accepts(s, t)
  THEN UNCHANGED detours
  ELSE detours < MaxDetours /\ detours' = detours + 1

(* Mutant: terminal commits set no deadline. *)
NeverExpires(next) == NoExpiry

(* commitRequest: a terminal snapshot is committed with its deadline. *)
ExpiresAt(next) == IF Terminal(next.status) THEN Retention ELSE NoExpiry

(* Apply accepts the result and the store will accept the commit. *)
Committable(t, result) ==
  LET s == threads[t].current
  IN /\ Live(t)
     /\ result.kind # "internal"
     /\ Accepts(s, Outcome(s, result))
     /\ TransitionGranted(threads[t].call, Owner[t], s, Apply(s, Outcome(s, result)))

(* The machine returns and its result is committed. *)
Commit(t, result) ==
  LET local == threads[t]
      next == Apply(local.current, Outcome(local.current, result))
  IN /\ local.pc = "advance" /\ Committable(t, result)
     /\ Detour(local.current, result)
     /\ Transition(local.call, Owner[t], local.current, next, ExpiresAt(next))
     /\ Become(t, IF next.status # "running"
                  THEN IF t \in Inline THEN Idle ELSE InBatch(local.batch)
                  ELSE IF local.step = MaxTransitions - 1
                  THEN [local EXCEPT !.pc = "release", !.current = next]
                  ELSE [local EXCEPT !.step = @ + 1, !.current = next])
     /\ UNCHANGED failures

(* Every other end of an attempt releases the lease on its way out; an      *)
(* inline attempt whose budget ran out first loads the latest snapshot.     *)
Abandon(t, result) ==
  /\ threads[t].pc = "advance" /\ ~Committable(t, result)
  /\ Detour(threads[t].current, result)
  /\ Become(t, [threads[t] EXCEPT
       !.pc = IF threads[t].ctx = "exhausted" THEN "load" ELSE "release"])
  /\ UNCHANGED <<vars, failures>>

LoadInline(t) ==
  /\ threads[t].pc = "load"
  /\ Become(t, [threads[t] EXCEPT !.pc = "release",
       !.current = IF Exists(threads[t].call) THEN records[threads[t].call] ELSE @])
  /\ UNCHANGED <<vars, detours, failures>>

(* A loop releases with its own context, so after a shutdown the store      *)
(* refuses; an inline attempt releases with a fresh one.                    *)
ReleaseLease(t) ==
  LET s == threads[t].current
      c == threads[t].call
      effective == /\ t \in Inline \/ Live(t)
                   /\ ReleaseGranted(c, Owner[t], s.revision, s.fence)
  IN /\ threads[t].pc = "release"
     /\ IF effective THEN Release(c, Owner[t], s.revision, s.fence) ELSE UNCHANGED vars
     /\ Become(t, Returned(t))
     /\ UNCHANGED <<detours, failures>>

-----------------------------------------------------------------------------
(* Clients.  SubmitSignal, RequestCancel, Admin.Cancel and Admin.Expire     *)
(* load the call and submit against the revision they saw; the store takes  *)
(* the submission only if that revision is still stored, so what succeeds   *)
(* is what one atomic call on the stored revision does.                     *)
StartCall(c, input) ==
  /\ Create(c, NewSnapshotWithInput(input))
  /\ UNCHANGED <<threads, detours, failures>>

SubmitCommand(c) ==
  /\ \/ \E id \in Commands, p \in Payloads : SubmitSignal(c, id, p, records[c].revision)
     \/ \E id \in Commands : RequestCancel(c, id, NoPayload, records[c].revision)
     \/ Expire(c, records[c].revision)
  /\ UNCHANGED <<threads, detours, failures>>

Administer ==
  /\ \/ \E c \in CallIDs, floor \in Floors : PruneFrames(c, floor)
     \/ \E limit \in Limits : DeleteExpired(limit)
  /\ UNCHANGED <<threads, detours, failures>>

-----------------------------------------------------------------------------
(* Failures.  Each one counts against MaxFailures. *)
Fail == failures < MaxFailures /\ failures' = failures + 1

(* The process of owner o dies: all its threads lose their local state. *)
Crash(o) ==
  /\ \E t \in Threads : Owner[t] = o /\ threads[t].pc \notin {"idle", "stopped"}
  /\ Fail
  /\ threads' = [t \in Threads |->
       IF Owner[t] = o THEN Returned(t) ELSE threads[t]]
  /\ UNCHANGED <<vars, detours>>

(* A loop's context is cancelled; an inline attempt's budget runs out. *)
CancelContext(t) ==
  /\ Live(t) /\ threads[t].pc # "stopped" /\ (t \in Inline => threads[t].pc # "idle")
  /\ Fail
  /\ \E ctx \in IF t \in Inline THEN {"canceled", "exhausted"} ELSE {"canceled"} :
       Become(t, [threads[t] EXCEPT !.ctx = ctx])
  /\ UNCHANGED <<vars, detours>>

(* External: a supervisor starts Run again after it returned. *)
Restart(t) ==
  /\ threads[t].pc = "stopped"
  /\ Become(t, Idle)
  /\ UNCHANGED <<vars, detours, failures>>

(* The thread executes under an active lease that the next tick ends. *)
Endangered(t) ==
  LET local == threads[t]
  IN /\ local.pc = "advance" /\ Live(t)
     /\ LeaseNames(local.call, Owner[t], local.current.revision, local.current.fence)
     /\ leases[local.call].ttl = 1

(* Time passes.  HeartbeatInterval is below LeaseDuration, so a lease under *)
(* execution runs out only when its heartbeat stalls.                       *)
Time ==
  /\ Tick
  /\ IF \E t \in Threads : Endangered(t) THEN Fail ELSE UNCHANGED failures
  /\ UNCHANGED <<threads, detours>>

Step(t) ==
  \/ Poll(t) \/ EndRun(t) \/ ClaimNext(t)
  \/ ClaimInline(t)
  \/ \E result \in Results : Commit(t, result) \/ Abandon(t, result)
  \/ LoadInline(t) \/ ReleaseLease(t)

RuntimeNext ==
  \/ \E t \in Threads :
       Step(t) \/ StartCallInline(t) \/ Heartbeat(t) \/ CancelContext(t) \/ Restart(t)
  \/ \E c \in CallIDs : \/ \E input \in Payloads : StartCall(c, input)
                        \/ SubmitCommand(c)
  \/ Administer
  \/ \E o \in Owners : Crash(o)
  \/ Time

RuntimeSpec == RuntimeInit /\ [][RuntimeNext]_runtimeVars

-----------------------------------------------------------------------------
(***************************************************************************)
(* Fairness.  The goroutines of a loop are scheduled, the clock runs, a     *)
(* stopped loop is started again.  Clients, administrators and failures     *)
(* need not act.                                                            *)
(***************************************************************************)
Fairness ==
  /\ \A t \in Threads : WF_runtimeVars(Step(t)) /\ WF_runtimeVars(Restart(t))
  /\ WF_runtimeVars(Time)

FairSpec == RuntimeSpec /\ Fairness

(* The executors, whatever they still hold from before a lease ran out, an
   administrator intervened or a call was collected and created anew under
   the same identity, use the store only as ContinuationStore allows: every
   commit that goes through is Apply of the snapshot stored at that moment. *)
ImplementsStore == Spec

(* An accepted signal or cancellation stays recorded until the call is
   collected: no executor's commit, however old the snapshot it was computed
   from, writes the command table back to what it was before. *)
CommandsKept ==
  [][\A c \in CallIDs, id \in Commands : records[c].commands[id] # NoRecord =>
       \/ records'[c] = NoSnapshot
       \/ records'[c].commands[id] = records[c].commands[id]]_runtimeVars

(* Every way a call ends (a machine's decision, a classified error, an
   administrator) sets its retention deadline, so that Admin.Collect finds
   every terminal call. *)
TerminalHasExpiry ==
  \A c \in CallIDs : Terminal(records[c].status) => expires[c] # NoExpiry

(* RunOnce: "Another executor will then run the same revision again", and
   Machine: "Every external effect must therefore use CallID and Revision as
   an idempotency identity": when a machine is given a step that another
   thread's machine was given and did not commit, it is given the same
   revision of it. *)
RetrySameRevision ==
  [][\A t, u \in Threads :
       /\ threads[u].pc = "advance" /\ threads[u].current = records[threads[u].call]
       /\ threads[t].pc \in {"batch", "claim"} /\ threads'[t].pc = "advance"
       /\ threads'[t].call = threads[u].call
       => threads'[t].current.revision = threads[u].current.revision]_runtimeVars

(* Whatever crashes, stalls, shutdowns and lost leases came before, a call
   ends up terminal or waiting for a signal. *)
CallsSettle ==
  \A c \in CallIDs :
     Exists(c) ~> (~Exists(c) \/ Terminal(records[c].status)
                             \/ records[c].status = "waiting")

(* A recorded cancellation is carried out. *)
CancelTakesEffect ==
  \A c \in CallIDs :
     records[c].status = "cancel_requested" ~>
       (~Exists(c) \/ Terminal(records[c].status))

(* What holds at every moment of the executors and the calls they end. *)
RuntimeInv == TypeOKRuntime /\ TerminalHasExpiry
=============================================================================
