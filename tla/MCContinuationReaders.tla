---------------------------- MODULE MCContinuationReaders ----------------------------
(* A small instance of the two ways to follow a call: one call, one executor, *)
(* and a reader over either transport.  transport is chosen at the start and  *)
(* the other reader stays where it began.                                     *)
EXTENDS ContinuationHTTP, ContinuationGRPC

CONSTANTS p1

VARIABLE transport

(* Machines that end a call with the frame of its outcome. *)
MCTransitions ==
  {Continue(<<NewFrame("event", p1)>>),
   Move("completed", 0, <<NewFrame("event", NoPayload), NewFrame("completed", p1)>>),
   Move("failed", 0, <<NewFrame("failed", NoPayload)>>),
   Move("canceled", 0, <<NewFrame("canceled", NoPayload)>>)}

(* A machine that completes its call without one. *)
SilentTransitions == MCTransitions \cup {Move("completed", 0, << >>)}

sseOwn == <<client, pump, wire, breaks>>
grpcOwn == <<server, messages, reader>>
readerVars == <<records, leases, expires, now, collected, sseOwn, grpcOwn, transport>>

ReadersInit == StreamInit /\ GrpcInit /\ transport \in {"sse", "grpc"}

ReadersNext ==
  \/ transport = "sse" /\ StreamNext /\ UNCHANGED <<grpcOwn, transport>>
  \/ transport = "grpc" /\ GrpcNext /\ UNCHANGED <<sseOwn, transport>>

ReadersSpec ==
  ReadersInit /\ [][ReadersNext]_readerVars /\ StreamFairness /\ GrpcFairness
=============================================================================
