----------------------------- MODULE MCMessageDelivery ----------------------------
(* One message of any kind from a dispatcher to two consumers. *)
EXTENDS MessageDelivery

CONSTANTS order, plain, twice

(* With one outbox ID, with none, and with two. *)
MCHeaders == [m \in Messages |-> CASE m = order -> 1 [] m = plain -> 0 [] m = twice -> 2]

MCBatchSize == [d \in Dispatchers |-> 1]
=============================================================================
