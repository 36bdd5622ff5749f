---------------------------- MODULE MCContinuationStore ----------------------------
(* A small instance of ContinuationStore: one call, two executors. *)
EXTENDS ContinuationStore

MCTransitions ==
  {Move(s, 0, << >>) : s \in {"waiting", "suspended", "expired"}}
    \cup {Move(s, 0, <<NewFrame("event", NoPayload)>>) :
            s \in {"running", "completed", "cancel_requested", "canceled"}}
    \cup {SleepUntil(2, << >>), Move("failed", 1, << >>)}
=============================================================================
