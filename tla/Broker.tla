---------------------------------- MODULE Broker ----------------------------------
(***************************************************************************)
(* The message broker between an outbox Dispatcher and an inbox Processor. *)
(* External: outbox.Publisher and worker.Consumer are interfaces here.     *)
(*                                                                         *)
(* Every successful send of an outbox message is a delivery of its own,    *)
(* with its own delivery ID; a delivery stays queued until its consumer    *)
(* settles it, and is handed out again otherwise.                          *)
(***************************************************************************)
EXTENDS Naturals

CONSTANTS Messages   \* outbox messages, each with its ID

VARIABLES
  sent,     \* how often a message was sent
  queue,    \* deliveries not settled yet
  acked,    \* deliveries the consumer accepted
  dead      \* deliveries the consumer quarantined

brokerVars == <<sent, queue, acked, dead>>

Delivery == [message : Messages, number : Nat \ {0}]

BrokerTypeOK ==
  /\ sent \in [Messages -> Nat]
  /\ queue \cup acked \cup dead \subseteq
       {x \in Delivery : x.number <= sent[x.message]}

BrokerInit ==
  /\ sent = [m \in Messages |-> 0]
  /\ queue = {} /\ acked = {} /\ dead = {}

Send(m) ==
  /\ sent' = [sent EXCEPT ![m] = @ + 1]
  /\ queue' = queue \cup {[message |-> m, number |-> sent[m] + 1]}
  /\ UNCHANGED <<acked, dead>>

(* The consumer's worker.Result for delivery x: nack and retry leave it queued. *)
SettleDelivery(x, action) ==
  /\ queue' = IF action \in {"ack", "dead-letter"} THEN queue \ {x} ELSE queue
  /\ acked' = IF action = "ack" THEN acked \cup {x} ELSE acked
  /\ dead' = IF action = "dead-letter" THEN dead \cup {x} ELSE dead
  /\ UNCHANGED sent
=============================================================================
