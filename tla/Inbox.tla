----------------------------------- MODULE Inbox ----------------------------------
(***************************************************************************)
(* inbox.Processor: the consumers of a broker that apply every message in  *)
(* a transaction which also records its idempotency key.                   *)
(*                                                                         *)
(* The Executor is external, as its comment in inbox.go demands it: it     *)
(* runs at most one callback per key at a time, and commits the effects of *)
(* the callback with the record of the key, or neither of them.            *)
(***************************************************************************)
EXTENDS Broker, Sequences

CONSTANTS
  Processors,   \* concurrent calls of Processor.Handle
  Headers,      \* how many keelith-outbox-id values a message carries
  MaxFaults     \* bound: failing handlers and transactions, and crashes

ASSUME InboxAssumption ==
  /\ Headers \in [Messages -> 0..2]
  /\ MaxFaults \in Nat

VARIABLES
  recorded,     \* idempotency keys that committed
  effects,      \* how often the business effect of a message committed
  processors,   \* the Handle calls
  faults        \* faults so far

inboxVars == <<brokerVars, recorded, effects, processors, faults>>

Idle == [pc |-> "idle", delivery |-> <<>>, result |-> "", outcome |-> ""]

Action == {"ack", "nack", "retry", "dead-letter"}

TypeOKInbox ==
  /\ BrokerTypeOK
  /\ faults \in 0..MaxFaults
  /\ effects \in [Messages -> Nat]
  /\ \A p \in Processors :
       /\ processors[p].pc \in {"idle", "key", "execute", "commit", "outcome", "result"}
       /\ processors[p].pc = "result" => processors[p].result \in Action
       /\ processors[p].pc # "idle" =>
            processors[p].delivery \in queue \cup acked \cup dead

InboxInit ==
  /\ recorded = {}
  /\ effects = [m \in Messages |-> 0]
  /\ processors = [p \in Processors |-> Idle]
  /\ faults = 0

Step(p, local) == processors' = [processors EXCEPT ![p] = local]

Fault == faults < MaxFaults /\ faults' = faults + 1

Message(p) == processors[p].delivery.message

(* Mutant: the key is that of the delivery, whatever the headers say. *)
DefaultKeyOfDelivery(x) ==
  IF Headers[x.message] > 1 THEN <<>> ELSE <<"delivery", x>>

(* The outbox ID of the message, and otherwise the identity of the         *)
(* delivery; <<>> stands for the error.                                    *)
DefaultKey(x) ==
  CASE Headers[x.message] = 0 -> <<"delivery", x>>
    [] Headers[x.message] = 1 -> <<"outbox", x.message>>
    [] OTHER -> <<>>

Key(p) == DefaultKey(processors[p].delivery)

-----------------------------------------------------------------------------
(* External: the adapter calls Handle; it may deliver twice at a time. *)
Receive(p, x) ==
  /\ processors[p].pc = "idle"
  /\ Step(p, [Idle EXCEPT !.pc = "key", !.delivery = x])
  /\ UNCHANGED <<brokerVars, recorded, effects, faults>>

ResolveKey(p) ==
  /\ processors[p].pc = "key"
  /\ Step(p, IF Key(p) = <<>>
             THEN [processors[p] EXCEPT !.pc = "result", !.result = "dead-letter"]
             ELSE [processors[p] EXCEPT !.pc = "execute", !.result = "nack"])
  /\ UNCHANGED <<brokerVars, recorded, effects, faults>>

(* External: Execute enters the transaction of the key, alone, and finds   *)
(* whether it has committed before.                                        *)
Locked(key) == \E q \in Processors : processors[q].pc = "commit" /\ Key(q) = key

Duplicate(p) ==
  /\ processors[p].pc = "execute" /\ ~Locked(Key(p))
  /\ Key(p) \in recorded
  /\ Step(p, [processors[p] EXCEPT !.pc = "outcome", !.outcome = "duplicate"])
  /\ UNCHANGED <<brokerVars, recorded, effects, faults>>

(* The callback: a panic, or an action that is none, becomes a nack. *)
Normalized(result) == IF result \in Action THEN result ELSE "nack"

Invoke(p) ==
  /\ processors[p].pc = "execute" /\ ~Locked(Key(p))
  /\ Key(p) \notin recorded
  /\ \E result \in Action \cup {"panic", "invalid"} :
       /\ IF result = "ack" THEN UNCHANGED faults ELSE Fault
       /\ Step(p, [processors[p] EXCEPT !.pc = "commit", !.result = Normalized(result)])
  /\ UNCHANGED <<brokerVars, recorded, effects>>

Decision(result) == IF result = "ack" THEN "commit" ELSE "rollback"

Committed(p) ==
  /\ recorded' = recorded \cup {Key(p)}
  /\ effects' = [effects EXCEPT ![Message(p)] = @ + 1]

(* The transaction ends as the callback decided. *)
Conclude(p) ==
  /\ processors[p].pc = "commit"
  /\ IF Decision(processors[p].result) = "commit"
     THEN Committed(p) /\ Step(p, [processors[p] EXCEPT !.pc = "outcome", !.outcome = "applied"])
     ELSE /\ UNCHANGED <<recorded, effects>>
          /\ Step(p, [processors[p] EXCEPT !.pc = "outcome", !.outcome = "rolled-back"])
  /\ UNCHANGED <<brokerVars, faults>>

(* Execute fails, or returns an outcome that is none: before the callback, *)
(* before the commit, or after it when only the answer is lost.            *)
ExecuteFails(p) ==
  /\ processors[p].pc \in {"execute", "commit"}
  /\ Fault
  /\ \/ UNCHANGED <<recorded, effects>>
     \/ /\ processors[p].pc = "commit"
        /\ Decision(processors[p].result) = "commit" /\ Committed(p)
  /\ \E outcome \in {"error", "unknown"} :
       Step(p, [processors[p] EXCEPT !.pc = "outcome", !.outcome = outcome])
  /\ UNCHANGED brokerVars

-----------------------------------------------------------------------------
(* Mutant: the business result counts when Execute fails. *)
SettlementOptimistic(outcome, result) ==
  CASE outcome = "error" -> result
    [] outcome = "applied" -> IF result = "ack" THEN result ELSE "nack"
    [] outcome = "duplicate" -> "ack"
    [] outcome = "rolled-back" -> IF result = "ack" THEN "nack" ELSE result
    [] OTHER -> "nack"

(* Mutant: a duplicate gets the result Handle starts with. *)
SettlementStale(outcome, result) ==
  CASE outcome = "error" -> "retry"
    [] outcome = "applied" -> IF result = "ack" THEN result ELSE "nack"
    [] outcome = "duplicate" -> "nack"
    [] outcome = "rolled-back" -> IF result = "ack" THEN "nack" ELSE result
    [] OTHER -> "nack"

(* What Handle returns for the outcome of Execute. *)
Settlement(outcome, result) ==
  CASE outcome = "error" -> "retry"
    [] outcome = "applied" -> IF result = "ack" THEN result ELSE "nack"
    [] outcome = "duplicate" -> "ack"
    [] outcome = "rolled-back" -> IF result = "ack" THEN "nack" ELSE result
    [] OTHER -> "nack"

Result(p) ==
  /\ processors[p].pc = "outcome"
  /\ Step(p, [processors[p] EXCEPT
                !.pc = "result",
                !.result = Settlement(processors[p].outcome, processors[p].result)])
  /\ UNCHANGED <<brokerVars, recorded, effects, faults>>

(* External: the adapter settles the delivery with the broker. *)
Return(p) ==
  /\ processors[p].pc = "result"
  /\ SettleDelivery(processors[p].delivery, processors[p].result)
  /\ Step(p, Idle)
  /\ UNCHANGED <<recorded, effects, faults>>

(* The process dies: an open transaction is rolled back, the delivery stays. *)
Abort(p) ==
  /\ processors[p].pc # "idle"
  /\ Fault
  /\ Step(p, Idle)
  /\ UNCHANGED <<brokerVars, recorded, effects>>

Handle(p) ==
  ResolveKey(p) \/ Duplicate(p) \/ Invoke(p) \/ Conclude(p) \/ Result(p) \/ Return(p)

InboxNext ==
  \E p \in Processors :
    \/ \E x \in queue : Receive(p, x)
    \/ Handle(p) \/ ExecuteFails(p) \/ Abort(p)

-----------------------------------------------------------------------------
(* "Handle executes one message once relative to transaction-local side
   effects": the effect of a message with an outbox ID commits at most once,
   although the dispatcher sends it again whenever it is in doubt, the
   broker hands a delivery to two consumers, and an answer of the Executor
   is lost after the commit. *)
EffectOnce ==
  \A m \in Messages : Headers[m] = 1 => effects[m] <= 1

(* A delivery is acknowledged only when the effect of its message has been
   committed, by this delivery or by another copy: an acknowledged message
   is never delivered again. *)
AckedHasEffect == \A x \in acked : effects[x.message] > 0

(* Every delivery is settled in the end: a duplicate does not come back
   forever. *)
QueueDrains == \A m \in Messages : []<>(\A x \in queue : x.message # m)

(* What holds of the deliveries at every moment. *)
InboxInv == TypeOKInbox /\ AckedHasEffect
=============================================================================
