------------------------------ MODULE MessageDelivery -----------------------------
(***************************************************************************)
(* From the row that a business transaction enqueues to the effect at its  *)
(* consumer: Outbox and Inbox joined by the Broker.                        *)
(***************************************************************************)
EXTENDS Outbox, Inbox

deliveryVars == <<outboxVars, recorded, effects, processors, faults>>

Init == OutboxInit /\ InboxInit

Next ==
  \/ OutboxNext /\ UNCHANGED <<recorded, effects, processors, faults>>
  \/ InboxNext /\ UNCHANGED <<rows, dispatchers, failures>>

Spec == Init /\ [][Next]_deliveryVars

(* Dispatchers and Handle calls run, time passes, and the broker goes on   *)
(* delivering what is queued.                                              *)
FairSpec ==
  /\ Spec /\ OutboxFairness
  /\ \A p \in Processors : WF_inboxVars(Handle(p))
  /\ WF_inboxVars(\E p \in Processors : \E x \in queue : Receive(p, x))

(* What a business transaction enqueued takes effect at its consumer, unless
   the dispatcher gives the row up or the consumer quarantines a delivery;
   no crash, lost answer or expired lease drops it on the way. *)
EndToEnd ==
  \A m \in Messages :
    rows[m].status # "absent" ~>
      \/ effects[m] > 0
      \/ rows[m].status = "failed"
      \/ \E x \in dead : x.message = m
=============================================================================
