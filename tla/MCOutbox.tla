--------------------------------- MODULE MCOutbox ---------------------------------
(* Two replicas of a dispatcher, one of which claims in batches. *)
EXTENDS Outbox

CONSTANTS A, B

MCBatchSize == [d \in Dispatchers |-> IF d = A THEN 2 ELSE 1]
=============================================================================
