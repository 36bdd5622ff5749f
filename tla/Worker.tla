---------------------------------- MODULE Worker ----------------------------------
(***************************************************************************)
(* worker.Worker and its inflightGroup: the lifecycle of a Consumer or a   *)
(* Scheduler, the callbacks that its adapter makes meanwhile, and Start    *)
(* and Stop calls that come at any time.                                   *)
(*                                                                         *)
(* The adapter is external: StopPulling prevents new callbacks when it     *)
(* succeeds, Drain and Close may fail, and a handler may or may not heed   *)
(* the cancellation of its context.                                        *)
(***************************************************************************)
EXTENDS Naturals, FiniteSets

CONSTANTS
  Stoppers,   \* concurrent Stop calls
  Calls,      \* callbacks of the adapter
  Stubborn    \* callbacks whose handler ignores its context

ASSUME WorkerAssumption == Stubborn \subseteq Calls

VARIABLES
  state,      \* workerState
  start,      \* the Start call: its control state and result
  stops,      \* the Stop calls
  stopErr,    \* w.stopErr: whether shutdown failed, "none" before it ended
  group,      \* the inflightGroup
  runtime,    \* runtimeCtx
  source,     \* the adapter
  calls       \* dispatch of every callback

workerVars == <<state, start, stops, stopErr, group, runtime, source, calls>>

TypeOKWorker ==
  /\ state \in {"New", "Starting", "Running", "Stopping", "Stopped"}
  /\ start.pc \in {"idle", "open", "subscribe", "rollback", "drain", "settle", "returned"}
  /\ start.err \in BOOLEAN
  /\ stops \in [Stoppers -> [pc : {"idle", "loop", "starting", "stopping", "pulling",
                                   "drain", "forced", "close", "returned"},
                             ctx : {"live", "ended"}, err : BOOLEAN]]
  /\ stopErr \in {"none", "nil", "error"}
  /\ stopErr # "none" => state = "Stopped"
  /\ runtime = "none" <=> start.pc = "idle"
  /\ group.accepting \in BOOLEAN /\ group.drained \in BOOLEAN
  /\ group.inflight \in 0..Cardinality(Calls)
  /\ runtime \in {"none", "live", "canceled"}
  /\ source.pulling \in BOOLEAN /\ source.closed \in BOOLEAN
  /\ calls \in [Calls -> {"new", "begun", "rejected", "done"}]

WorkerInit ==
  /\ state = "New"
  /\ start = [pc |-> "idle", err |-> FALSE]
  /\ stops = [s \in Stoppers |-> [pc |-> "idle", ctx |-> "live", err |-> FALSE]]
  /\ stopErr = "none"
  /\ group = [accepting |-> FALSE, inflight |-> 0, drained |-> FALSE]
  /\ runtime = "none"
  /\ source = [pulling |-> FALSE, closed |-> FALSE]
  /\ calls = [c \in Calls |-> "new"]

-----------------------------------------------------------------------------
(* inflightGroup *)

(* Mutant: drained is signalled whether or not callbacks are in flight. *)
SignalDrainedEarly(g) == [g EXCEPT !.drained = @ \/ ~g.accepting]

SignalDrained(g) ==
  [g EXCEPT !.drained = @ \/ (~g.accepting /\ g.inflight = 0)]

CanBegin == group.accepting

Done ==
  group' = IF group.inflight = 0 THEN group
           ELSE SignalDrained([group EXCEPT !.inflight = @ - 1])

Close == group' = SignalDrained([group EXCEPT !.accepting = FALSE])

-----------------------------------------------------------------------------
(* dispatch: a callback begins, or is turned away with ErrNotAccepting. *)
Dispatch(c) ==
  /\ calls[c] = "new" /\ source.pulling
  /\ IF CanBegin
     THEN /\ group' = [group EXCEPT !.inflight = @ + 1]
          /\ calls' = [calls EXCEPT ![c] = "begun"]
     ELSE /\ calls' = [calls EXCEPT ![c] = "rejected"]
          /\ UNCHANGED group
  /\ UNCHANGED <<state, start, stops, stopErr, runtime, source>>

(* The handler returns or panics; the deferred done runs. *)
HandlerEnds(c) ==
  /\ calls[c] = "begun"
  /\ calls' = [calls EXCEPT ![c] = "done"]
  /\ Done
  /\ UNCHANGED <<state, start, stops, stopErr, runtime, source>>

-----------------------------------------------------------------------------
(* Start *)

(* A second Start finds another state and returns ErrAlreadyStarted. *)
StartBegins ==
  /\ start.pc = "idle" /\ state = "New"
  /\ state' = "Starting"
  /\ runtime' = "live"
  /\ start' = [start EXCEPT !.pc = "open"]
  /\ UNCHANGED <<stops, stopErr, group, source, calls>>

Open ==
  /\ start.pc = "open"
  /\ group' = [group EXCEPT !.accepting = TRUE]
  /\ source' = [source EXCEPT !.pulling = TRUE]
  /\ start' = [start EXCEPT !.pc = "subscribe"]
  /\ UNCHANGED <<state, stops, stopErr, runtime, calls>>

(* source.start returns, with callbacks under way already. *)
StartSucceeds ==
  /\ start.pc = "subscribe"
  /\ state' = "Running"
  /\ start' = [start EXCEPT !.pc = "returned"]
  /\ UNCHANGED <<stops, stopErr, group, runtime, source, calls>>

(* It fails, or its context has ended: rollback. *)
StartFails ==
  /\ start.pc = "subscribe"
  /\ runtime' = "canceled"
  /\ start' = [pc |-> "rollback", err |-> TRUE]
  /\ UNCHANGED <<state, stops, stopErr, group, source, calls>>

(* External: when StopPulling fails, callbacks go on. *)
StopPulling(ok) == source' = [source EXCEPT !.pulling = ~ok]

RollbackStops ==
  /\ start.pc = "rollback"
  /\ \E ok \in BOOLEAN : StopPulling(ok)
  /\ Close
  /\ start' = [start EXCEPT !.pc = "drain"]
  /\ UNCHANGED <<state, stops, stopErr, runtime, calls>>

(* Drained, or 100 ms later. *)
RollbackCloses ==
  /\ start.pc = "drain"
  /\ source' = [pulling |-> FALSE, closed |-> TRUE]
  /\ start' = [start EXCEPT !.pc = "settle"]
  /\ UNCHANGED <<state, stops, stopErr, group, runtime, calls>>

StartReturnsError ==
  /\ start.pc = "settle"
  /\ state' = "Stopped"
  /\ start' = [start EXCEPT !.pc = "returned"]
  /\ UNCHANGED <<stops, stopErr, group, runtime, source, calls>>

-----------------------------------------------------------------------------
(* Stop *)
StopTo(s, pc) == stops' = [stops EXCEPT ![s].pc = pc]

StopReturns(s, err) == stops' = [stops EXCEPT ![s].pc = "returned", ![s].err = err]

StopBegins(s) ==
  /\ stops[s].pc = "idle"
  /\ StopTo(s, "loop")
  /\ UNCHANGED <<state, start, stopErr, group, runtime, source, calls>>

(* One turn of the loop. *)
StopLoop(s) ==
  /\ stops[s].pc = "loop"
  /\ CASE state = "New" -> state' = "Stopped" /\ StopReturns(s, FALSE)
       [] state = "Starting" -> UNCHANGED state /\ StopTo(s, "starting")
       [] state = "Running" -> state' = "Stopping" /\ StopTo(s, "pulling")
       [] state = "Stopping" -> UNCHANGED state /\ StopTo(s, "stopping")
       [] state = "Stopped" ->
            UNCHANGED state /\ StopReturns(s, start.err \/ stopErr = "error")
  /\ UNCHANGED <<start, stopErr, group, runtime, source, calls>>

(* startDone is closed when Start returns. *)
StopAwaitsStart(s) ==
  /\ stops[s].pc = "starting"
  /\ \/ start.pc = "returned" /\ StopTo(s, "loop")
     \/ stops[s].ctx = "ended" /\ StopReturns(s, TRUE)
  /\ UNCHANGED <<state, start, stopErr, group, runtime, source, calls>>

StopAwaitsStop(s) ==
  /\ stops[s].pc = "stopping"
  /\ \/ stopErr # "none" /\ StopReturns(s, stopErr = "error")
     \/ stops[s].ctx = "ended" /\ StopReturns(s, TRUE)
  /\ UNCHANGED <<state, start, stopErr, group, runtime, source, calls>>

(* shutdown *)
ShutdownStops(s) ==
  /\ stops[s].pc = "pulling"
  /\ \E ok \in BOOLEAN :
       /\ StopPulling(ok)
       /\ stops' = [stops EXCEPT ![s].pc = "drain", ![s].err = ~ok]
  /\ Close
  /\ UNCHANGED <<state, start, stopErr, runtime, calls>>

(* Mutant: handlers are not waited for after StopPulling. *)
ShutdownImpatient(s) ==
  /\ stops[s].pc = "drain"
  /\ runtime' = "canceled"
  /\ StopTo(s, "close")
  /\ UNCHANGED <<state, start, stopErr, group, source, calls>>

(* Mutant: the wait for the handlers does not end with the context. *)
ShutdownPatient(s) ==
  /\ stops[s].pc = "drain"
  /\ group.drained /\ StopTo(s, "close")
  /\ runtime' = "canceled"
  /\ UNCHANGED <<state, start, stopErr, group, source, calls>>

(* stopAndWait: drained, or the context ends and the handlers are canceled. *)
ShutdownDrains(s) ==
  /\ stops[s].pc = "drain"
  /\ \/ group.drained /\ StopTo(s, "close")
     \/ /\ stops[s].ctx = "ended"
        /\ stops' = [stops EXCEPT ![s].pc = "forced", ![s].err = TRUE]
  /\ runtime' = "canceled"
  /\ UNCHANGED <<state, start, stopErr, group, source, calls>>

(* The forced wait: drained, or 100 ms later. *)
ShutdownForces(s) ==
  /\ stops[s].pc = "forced"
  /\ StopTo(s, "close")
  /\ UNCHANGED <<state, start, stopErr, group, runtime, source, calls>>

(* source.drain and source.close, then complete. *)
ShutdownCompletes(s) ==
  /\ stops[s].pc = "close"
  /\ source' = [pulling |-> FALSE, closed |-> TRUE]
  /\ \E failed \in BOOLEAN :
       /\ stopErr' = IF stops[s].err \/ failed THEN "error" ELSE "nil"
       /\ StopReturns(s, stops[s].err \/ failed)
  /\ state' = "Stopped"
  /\ UNCHANGED <<start, group, runtime, calls>>

(* External: the caller's deadline passes. *)
Deadline(s) ==
  /\ stops[s].pc \notin {"idle", "returned"} /\ stops[s].ctx = "live"
  /\ stops' = [stops EXCEPT ![s].ctx = "ended"]
  /\ UNCHANGED <<state, start, stopErr, group, runtime, source, calls>>

StartProceeds ==
  \/ Open \/ StartSucceeds \/ StartFails
  \/ RollbackStops \/ RollbackCloses \/ StartReturnsError

StopProceeds(s) ==
  \/ StopLoop(s) \/ StopAwaitsStart(s) \/ StopAwaitsStop(s)
  \/ ShutdownStops(s) \/ ShutdownDrains(s) \/ ShutdownForces(s) \/ ShutdownCompletes(s)

WorkerNext ==
  \/ StartBegins \/ StartProceeds
  \/ \E c \in Calls : Dispatch(c) \/ HandlerEnds(c)
  \/ \E s \in Stoppers : StopBegins(s) \/ StopProceeds(s) \/ Deadline(s)

WorkerSpec == WorkerInit /\ [][WorkerNext]_workerVars

(* The calls run, every Stop has a deadline, and a handler that heeds its  *)
(* context ends when it is canceled.  A stubborn one may never end.        *)
WorkerFairness ==
  /\ WF_workerVars(StartProceeds)
  /\ \A s \in Stoppers : WF_workerVars(StopProceeds(s)) /\ WF_workerVars(Deadline(s))
  /\ \A c \in Calls \ Stubborn : WF_workerVars(runtime = "canceled" /\ HandlerEnds(c))

-----------------------------------------------------------------------------
InFlight == {c \in Calls : calls[c] = "begun"}

(* The count is that of the handlers, and once drained is closed no handler
   is in flight nor will be: what waits on it may close the source. *)
DrainedIsFinal ==
  /\ group.inflight = Cardinality(InFlight)
  /\ group.drained => ~group.accepting /\ InFlight = {}

(* "Stop stops new work, drains handlers and adapter commits, then closes
   the source": when some Stop has returned without an error, all of that is
   true, and remains so for the others. *)
CleanStop ==
  (\E s \in Stoppers : stops[s].pc = "returned" /\ ~stops[s].err) =>
    /\ state = "Stopped"
    /\ ~group.accepting /\ InFlight = {}
    /\ start.pc = "idle" \/ source.closed

(* "Stop is safe to call repeatedly and concurrently": only one of them
   shuts down. *)
OneShutdown ==
  Cardinality({s \in Stoppers : stops[s].pc \in {"pulling", "drain", "forced", "close"}}) <= 1

(* Every Stop returns, whatever the state it meets, and although a handler
   ignores its context. *)
StopReturnsAtLast ==
  \A s \in Stoppers : stops[s].pc # "idle" ~> stops[s].pc = "returned"

(* What holds of a worker at every moment, whoever starts and stops it. *)
WorkerInv == TypeOKWorker /\ DrainedIsFinal /\ OneShutdown
=============================================================================
