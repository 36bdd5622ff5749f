----------------------------------- MODULE Saga -----------------------------------
(***************************************************************************)
(* saga.Engine with saga/memory.Repository: engines that may run the same  *)
(* saga instance, the lease that keeps them apart, and the durable record  *)
(* they advance.                                                           *)
(*                                                                         *)
(* The handlers are external.  Their effects are what Invocation's comment *)
(* asks of them: an effect is made under its idempotency key, once, and    *)
(* the resource it changes rejects a fence older than the last it accepted.*)
(***************************************************************************)
EXTENDS Coordination, Integers, FiniteSets

CONSTANTS
  Engines,                  \* Engine instances running the instance
  Key,                      \* the lease key of the instance
  N,                        \* number of steps of the definition
  Compensable,              \* steps with a Compensate handler
  MaxCompensationAttempts,  \* Config.MaxCompensationAttempts
  MaxFailures,              \* bound: crashes, shutdowns and lost leases
  MaxReruns                 \* bound: last fence with which an ended saga is run

ASSUME SagaAssumption ==
  /\ Key \in Keys
  /\ N \in Nat \ {0}
  /\ Compensable \subseteq 1..N
  /\ MaxCompensationAttempts \in Nat \ {0}
  /\ MaxFailures \in Nat /\ MaxReruns \in Nat

VARIABLES
  record,     \* the durable record
  stored,     \* the fence the repository has accepted last
  engines,    \* the state of every engine's Run
  accepted,   \* newest fence the resource of a step has accepted
  done,       \* steps whose action took effect
  undone,     \* steps whose compensation took effect
  failures    \* failures so far

sagaVars == <<leases, fences, record, stored, engines, accepted, done, undone, failures>>

Step == 1..N

(* Positions count from 1: next is NextStep + 1, index CompensationIndex + 1. *)
NoRecord == [status |-> "absent", next |-> 1, index |-> 0, attempt |-> 0,
             revision |-> 0]

SagaTerminal(status) == status \in {"completed", "compensated", "failed"}

(* pc of a Run: "load" and "create" in loadOrCreate, "loop" at the top of  *)
(* the loop, "invoke" before the handler, "result" after it, "release" on  *)
(* the way out.                                                            *)
NoRun == [pc |-> "idle", fence |-> 0, ctx |-> "live", record |-> NoRecord,
          outcome |-> ""]

TypeOKSaga ==
  /\ CoordinationTypeOK
  /\ record.status \in {"absent", "running", "compensating", "completed",
                        "compensated", "failed"}
  /\ record.next \in 1..(N + 1) /\ record.index \in 0..N
  /\ record.attempt \in Nat /\ record.revision \in Nat
  /\ stored \in 0..fences[Key]
  /\ done \subseteq Step /\ undone \subseteq Compensable
  /\ accepted \in [Step -> 0..fences[Key]]
  /\ \A e \in Engines :
       /\ engines[e].pc \in {"idle", "load", "create", "loop", "invoke",
                             "result", "release"}
       /\ engines[e].record.revision <= record.revision

Init ==
  /\ CoordinationInit
  /\ record = NoRecord
  /\ stored = 0
  /\ engines = [e \in Engines |-> NoRun]
  /\ accepted = [k \in Step |-> 0]
  /\ done = {} /\ undone = {}
  /\ failures = 0

Become(e, local) == engines' = [engines EXCEPT ![e] = local]

Goto(e, pc) == Become(e, [engines[e] EXCEPT !.pc = pc])

-----------------------------------------------------------------------------
(* TryAcquire.  An engine that finds the lease taken returns ErrContended. *)
(* An ended saga may be run again; MaxReruns bounds how often.             *)
Acquire(e) ==
  /\ engines[e].pc = "idle"
  /\ SagaTerminal(record.status) => fences[Key] < MaxReruns
  /\ TryAcquire(Key, fences[Key] + 1)
  /\ Become(e, [NoRun EXCEPT !.pc = "load", !.fence = fences[Key] + 1])
  /\ UNCHANGED <<record, stored, accepted, done, undone, failures>>

Live(e) == engines[e].ctx = "live"

(* loadOrCreate: Load, and Create when there was nothing to load. *)
Load(e) ==
  /\ engines[e].pc = "load"
  /\ IF ~Live(e) THEN Goto(e, "release")
     ELSE IF record.status = "absent" THEN Goto(e, "create")
     ELSE Become(e, [engines[e] EXCEPT !.pc = "loop", !.record = record])
  /\ UNCHANGED <<leases, fences, record, stored, accepted, done, undone, failures>>

Create(e) ==
  LET created == [NoRecord EXCEPT !.status = "running", !.revision = 1]
  IN /\ engines[e].pc = "create"
     /\ IF Live(e) /\ record.status = "absent"
        THEN /\ record' = created
             /\ stored' = engines[e].fence
             /\ Become(e, [engines[e] EXCEPT !.pc = "loop", !.record = created])
        ELSE Goto(e, "release") /\ UNCHANGED <<record, stored>>
     /\ UNCHANGED <<leases, fences, accepted, done, undone, failures>>

(* Mutant: Save does not compare the revision. *)
SaveIgnoresRevision(e) == Live(e) /\ engines[e].fence >= stored

SaveGranted(e) ==
  /\ Live(e)
  /\ record.status # "absent"
  /\ engines[e].fence >= stored
  /\ engines[e].record.revision = record.revision

(* Save the engine's record as next; Run returns when it is refused. *)
Save(e, next, pc) ==
  IF SaveGranted(e)
  THEN LET saved == [next EXCEPT !.revision = engines[e].record.revision + 1]
       IN /\ record' = saved
          /\ stored' = engines[e].fence
          /\ Become(e, [engines[e] EXCEPT !.pc = pc, !.record = saved])
  ELSE Goto(e, "release") /\ UNCHANGED <<record, stored>>

Finished(r) == r.status = "running" /\ r.next > N
RolledBack(r) == r.status = "compensating" /\ r.index = 0
NothingToUndo(r) == r.status = "compensating" /\ r.index # 0 /\ r.index \notin Compensable

(* The top of the loop: what is saved before a handler is invoked, or      *)
(* instead of invoking one.                                                *)
Prepared(r) ==
  IF Finished(r) THEN [r EXCEPT !.status = "completed", !.attempt = 0]
  ELSE IF RolledBack(r) THEN [r EXCEPT !.status = "compensated", !.attempt = 0]
  ELSE IF NothingToUndo(r) THEN [r EXCEPT !.index = @ - 1, !.attempt = 0]
  ELSE [r EXCEPT !.attempt = @ + 1]

Loop(e) ==
  LET r == engines[e].record
  IN /\ engines[e].pc = "loop"
     /\ IF SagaTerminal(r.status) THEN Goto(e, "release") /\ UNCHANGED <<record, stored>>
        ELSE Save(e, Prepared(r),
                  IF Finished(r) \/ RolledBack(r) \/ NothingToUndo(r)
                  THEN "loop" ELSE "invoke")
     /\ UNCHANGED <<leases, fences, accepted, done, undone, failures>>

(* The handler runs, under a context it may outlive; its resource rejects  *)
(* a fence older than the newest it has accepted.                          *)
Position(e) ==
  IF engines[e].record.status = "running" THEN engines[e].record.next
  ELSE engines[e].record.index

(* What a handler may do: whether it takes effect, and what invoke returns, *)
(* which reports an error when StepTimeout has passed by the time of the    *)
(* effect.  A handler that fails before it reaches its resource leaves no   *)
(* trace there, and an older fence is still welcome.                        *)
HandlerResults(e, k) ==
  IF engines[e].fence < accepted[k] THEN {[effect |-> FALSE, outcome |-> "error"]}
  ELSE {[effect |-> TRUE, outcome |-> "ok"],
        [effect |-> FALSE, outcome |-> "error"],
        [effect |-> TRUE, outcome |-> "error"]}

Invoke(e) ==
  LET k == Position(e)
      forward == engines[e].record.status = "running"
  IN /\ engines[e].pc = "invoke"
     /\ \E r \in HandlerResults(e, k) :
          /\ Become(e, [engines[e] EXCEPT !.pc = "result", !.outcome = r.outcome])
          /\ accepted' = IF r.effect THEN [accepted EXCEPT ![k] = engines[e].fence]
                         ELSE accepted
          /\ done' = IF r.effect /\ forward THEN done \cup {k} ELSE done
          /\ undone' = IF r.effect /\ ~forward THEN undone \cup {k} ELSE undone
     /\ UNCHANGED <<leases, fences, record, stored, failures>>

(* Mutant: the last completed step is not compensated. *)
AfterForgets(r, outcome) ==
  IF r.status = "running"
  THEN IF outcome = "ok" THEN [r EXCEPT !.next = @ + 1, !.attempt = 0]
       ELSE [r EXCEPT !.status = "compensating", !.attempt = 0,
                      !.index = IF r.next > 2 THEN r.next - 2 ELSE 0]
  ELSE IF outcome = "ok" THEN [r EXCEPT !.index = @ - 1, !.attempt = 0]
       ELSE IF r.attempt >= MaxCompensationAttempts THEN [r EXCEPT !.status = "failed"]
       ELSE r

(* What is saved after the handler. *)
After(r, outcome) ==
  IF r.status = "running"
  THEN IF outcome = "ok" THEN [r EXCEPT !.next = @ + 1, !.attempt = 0]
       ELSE [r EXCEPT !.status = "compensating", !.index = r.next - 1, !.attempt = 0]
  ELSE IF outcome = "ok" THEN [r EXCEPT !.index = @ - 1, !.attempt = 0]
       ELSE IF r.attempt >= MaxCompensationAttempts THEN [r EXCEPT !.status = "failed"]
       ELSE r

(* Mutant: a handler that fails takes its Run with it. *)
ConcludeSuccess(e) ==
  /\ engines[e].pc = "result" /\ engines[e].outcome = "ok"
  /\ Save(e, After(engines[e].record, "ok"), "loop")
  /\ UNCHANGED <<leases, fences, accepted, done, undone, failures>>

(* A failed compensation ends this Run, after its attempt is on record. *)
Conclude(e) ==
  LET r == engines[e].record
  IN /\ engines[e].pc = "result"
     /\ Save(e, After(r, engines[e].outcome),
             IF r.status = "compensating" /\ engines[e].outcome # "ok"
             THEN "release" ELSE "loop")
     /\ UNCHANGED <<leases, fences, accepted, done, undone, failures>>

(* The deferred Release, under a context of its own. *)
Return(e) ==
  /\ engines[e].pc = "release"
  /\ Release(Key, engines[e].fence)
  /\ Become(e, NoRun)
  /\ UNCHANGED <<record, stored, accepted, done, undone, failures>>

(* The monitor goroutine cancels the run of a lost lease. *)
Monitor(e) ==
  /\ engines[e].pc # "idle" /\ Live(e)
  /\ ~LeaseLive(Key, engines[e].fence)
  /\ Become(e, [engines[e] EXCEPT !.ctx = "lost"])
  /\ UNCHANGED <<leases, fences, record, stored, accepted, done, undone, failures>>

-----------------------------------------------------------------------------
Fail == failures < MaxFailures /\ failures' = failures + 1

LeaseLost ==
  /\ Fail
  /\ Lose(Key)
  /\ UNCHANGED <<record, stored, engines, accepted, done, undone>>

(* The caller's context ends. *)
Shutdown(e) ==
  /\ engines[e].pc # "idle" /\ Live(e)
  /\ Fail
  /\ Become(e, [engines[e] EXCEPT !.ctx = "canceled"])
  /\ UNCHANGED <<leases, fences, record, stored, accepted, done, undone>>

(* The process dies; its lease ends when the coordinator gives up on it. *)
Crash(e) ==
  /\ engines[e].pc # "idle"
  /\ Fail
  /\ Become(e, NoRun)
  /\ UNCHANGED <<leases, fences, record, stored, accepted, done, undone>>

(* External: the lease of an engine that is gone expires. *)
Orphaned == leases[Key] # 0 /\ \A e \in Engines : engines[e].fence # leases[Key]

Expire ==
  /\ Orphaned
  /\ Lose(Key)
  /\ UNCHANGED <<record, stored, engines, accepted, done, undone, failures>>

Progress(e) ==
  Load(e) \/ Create(e) \/ Loop(e) \/ Invoke(e) \/ Conclude(e) \/ Return(e)

Next ==
  \/ \E e \in Engines : Acquire(e) \/ Progress(e) \/ Monitor(e) \/ Shutdown(e) \/ Crash(e)
  \/ LeaseLost
  \/ Expire

Spec == Init /\ [][Next]_sagaVars

(* An engine's Run proceeds, abandoned leases expire, and as long as the   *)
(* saga has not ended somebody runs it again.                              *)
Fairness ==
  /\ \A e \in Engines : WF_sagaVars(Progress(e))
  /\ WF_sagaVars(Expire)
  /\ WF_sagaVars(\E e \in Engines : Acquire(e))

FairSpec == Spec /\ Fairness

-----------------------------------------------------------------------------
(* "StatusCompensated indicates completed actions were compensated": when
   the record says compensated, every action that took effect and has a
   compensation was undone, whoever executed it and however many owners the
   saga had, except the one that reported the error: an action that succeeds
   after its StepTimeout stays in effect. *)
CompensatedUndoesAll ==
  record.status = "compensated" => done \cap Compensable \subseteq undone \cup {record.next}

(* "StatusCompleted indicates all forward actions completed": and none of
   them was taken back by an owner that had seen another outcome. *)
CompletedDidAll ==
  record.status = "completed" => done = Step /\ undone = {}

(* Compensations take effect in the reverse order of the actions, through
   crashes and changes of owner: when a step is undone, no later step is
   still in effect, but for the one that reported the error. *)
ReverseOrder ==
  \A k \in undone : \A j \in done \cap Compensable :
     j > k => j \in undone \cup {record.next}

(* An action first takes effect at the step the record is at, and so does a
   compensation, which never precedes the turn: whoever takes the saga over
   finds in the record which effect may be there unrecorded.  An owner that
   lost its lease may still run the handler it had prepared, and even after
   another one has turned the saga; it can then only be the action of the
   step at which the saga turned. *)
EffectAtRecord ==
  [][/\ done' # done => done' = done \cup {record.next}
     /\ undone' # undone =>
          undone' = undone \cup {record.index} /\ record.status # "running"]_sagaVars

(* The record only moves forward: steps are not forgotten, compensation does
   not turn back, a terminal record stays.  Engines whose leases overlap
   write to it at the same time. *)
RecordAdvances ==
  [][/\ record.status = "running" => record'.next >= record.next
     /\ record.status = "compensating" =>
          record'.status # "running" /\ record'.index <= record.index
     /\ SagaTerminal(record.status) => record' = record]_sagaVars

(* A saga that is run again whenever it has not ended does end: in
   particular failing compensations do not keep it alive forever. *)
SagaEnds == <>SagaTerminal(record.status)

(* What holds at every moment between the record and the effects of actions
   and compensations. *)
SagaInv == TypeOKSaga /\ CompensatedUndoesAll /\ CompletedDidAll /\ ReverseOrder
=============================================================================
