---------------------------- MODULE MCContinuationRuntime ----------------------------
(* A small instance of ContinuationRuntime: a loop and an inline attempt of  *)
(* process A, and a loop of process B.                                       *)
EXTENDS ContinuationRuntime

CONSTANTS A, B, a1, a2, b1

MCOwner == [t \in {a1, a2} |-> A]
MCLoops == [t \in {a1, b1} |-> IF t = b1 THEN B ELSE A]

FewMoves ==
  {Continue(<<NewFrame("event", NoPayload)>>), Move("completed", 0, << >>),
   Move("waiting", 0, << >>)}

MCMoves ==
  FewMoves \cup {SleepUntil(2, << >>), Move("canceled", 0, << >>)}

(* With the errors commitMachineError turns into transitions; a fence of 0   *)
(* stands for the fence the call has.                                        *)
MCTransitions ==
  MCMoves \cup {Move("failed", 0, <<NewFrame("failed", NoPayload)>>),
               Move("suspended", 0, <<NewFrame("suspended", NoPayload)>>),
               Move("cancel_requested", 0, <<NewFrame("suspended", NoPayload)>>)}

AllRegistered == Threads \X CallIDs
=============================================================================
