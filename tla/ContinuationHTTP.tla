---------------------------- MODULE ContinuationHTTP ----------------------------
(***************************************************************************)
(* Following a durable call over HTTP: the SSE stream that                 *)
(* transport/http/continuation serves from Attach pages, and the client's  *)
(* Call, which starts a call, follows its stream, reconnects after a clean *)
(* end of stream and returns the payload of the completed call.            *)
(*                                                                         *)
(* The store underneath is ContinuationStore with every client of it       *)
(* active.  One Call follows the call named Target.  The pump goroutine,   *)
(* the encoder behind its unbuffered channel and the response body are one *)
(* stream: events the pump has emitted wait in wire until the client       *)
(* receives them.  A failure before the first byte is a typed error; once  *)
(* the headers are committed the router can only end the body, which the   *)
(* client sees as a clean end of stream.                                   *)
(***************************************************************************)
EXTENDS ContinuationAttach

CONSTANT MaxBreaks   \* bound: connections ended by the server's context

ASSUME BreaksAssumption == MaxBreaks \in Nat

VARIABLES
  client,     \* the goroutine in ContinuationClient.Call
  pump,       \* the server's side of the current stream
  wire,       \* events emitted and not yet received
  breaks      \* streams ended by the server so far

streamVars == <<records, leases, expires, now, client, pump, wire, breaks, collected>>

-----------------------------------------------------------------------------
(* What the client checks of every snapshot and of every terminal frame. *)
SnapshotValid(page) ==
  /\ page.sequence # 0
  /\ page.frameFloor # 0
  /\ page.frameFloor <= Wrap(page.sequence + 1)

TerminalFrameMatches(page, frame) ==
  /\ frame.sequence = page.sequence
  /\ Terminal(page.status)
  /\ frame.kind = page.status

ReceiveValid(page, frame, after) ==
  /\ frame.sequence = after + 1
  /\ SnapshotValid(page)
  /\ frame.sequence <= page.sequence
  /\ frame.sequence = page.sequence /\ Terminal(page.status) =>
       TerminalFrameMatches(page, frame)
  /\ ~Terminal(page.status) => ~Terminal(frame.kind)

CompletedPayload(page, frame) ==
  IF page.status = "completed"
  THEN [kind |-> "payload", payload |-> frame.payload]
  ELSE [kind |-> "terminal", payload |-> NoPayload]

NoResult == [kind |-> "none", payload |-> NoPayload]
Failed(kind) == [kind |-> kind, payload |-> NoPayload]

Fresh == [pc |-> "idle", after |-> 0, result |-> NoResult]
Closed == [pc |-> "closed", after |-> 0, page |-> NoPage, committed |-> FALSE]

StreamInit ==
  /\ Init
  /\ client = Fresh
  /\ pump = Closed
  /\ wire = << >>
  /\ breaks = 0
  /\ collected = FALSE

Return(result) == client' = [client EXCEPT !.pc = "returned", !.result = result]

-----------------------------------------------------------------------------
(* Start: the call is created; the response carries a snapshot of it that   *)
(* StartCallInline may have advanced in between.                            *)
Start ==
  /\ client.pc = "idle"
  /\ \E input \in Payloads : Create(Target, NewSnapshotWithInput(input))
  /\ client' = [client EXCEPT !.pc = "started"]
  /\ UNCHANGED <<pump, wire, breaks, collected>>

StartResponse ==
  /\ client.pc = "started"
  /\ IF ~Exists(Target) THEN Return(Failed("error"))
     ELSE LET s == records[Target]
              page == Attach(Target, s.sequence, PageSize)
              answered == s.frames # << >> /\ TerminalFrameMatches(page, s.frames[Len(s.frames)])
          IN \/ /\ ~SnapshotValid(page) \/ (Terminal(s.status) /\ ~answered)
                /\ Return(Failed("protocol"))
             \/ /\ SnapshotValid(page) /\ Terminal(s.status) /\ answered
                /\ Return(CompletedPayload(page, s.frames[Len(s.frames)]))
             \/ /\ SnapshotValid(page) /\ ~Terminal(s.status)
                /\ client' = [client EXCEPT !.pc = "connect", !.after = s.sequence]
  /\ UNCHANGED <<vars, pump, wire, breaks, collected>>

(* handleContinuationAttach reads the first page before the stream opens. *)
Connect ==
  /\ client.pc = "connect"
  /\ IF AttachRefused(Target, client.after)
     THEN Return(Failed("error")) /\ UNCHANGED pump
     ELSE /\ client' = [client EXCEPT !.pc = "receive"]
          /\ pump' = [pc |-> "send", after |-> client.after, committed |-> FALSE,
                      page |-> Attach(Target, client.after, PageSize)]
  /\ UNCHANGED <<vars, wire, breaks, collected>>

-----------------------------------------------------------------------------
(* pumpContinuationEvents. *)
PumpSend ==
  /\ pump.pc = "send" /\ pump.page.frames # << >> /\ Len(wire) < MaxWire
  /\ LET frame == Head(pump.page.frames)
     IN /\ wire' = Append(wire, [page |-> pump.page, frame |-> frame])
        /\ pump' = [pump EXCEPT !.after = frame.sequence, !.committed = TRUE,
                                !.page.frames = Tail(@)]
  /\ UNCHANGED <<vars, client, breaks, collected>>

PageRead == pump.pc = "send" /\ pump.page.frames = << >>

PumpEnd ==
  /\ PageRead
  /\ Terminal(pump.page.status) /\ pump.after = pump.page.sequence
  /\ pump' = [pump EXCEPT !.pc = "ended"]
  /\ UNCHANGED <<vars, client, wire, breaks, collected>>

(* Mutant: the pump sleeps and looks at the page it has. *)
PumpSleeps == PageRead /\ UNCHANGED streamVars

(* The next page: at once, or after pollInterval when nothing was left. *)
PumpAttach ==
  /\ PageRead
  /\ ~(Terminal(pump.page.status) /\ pump.after = pump.page.sequence)
  /\ pump' = IF AttachRefused(Target, pump.after)
             THEN [pump EXCEPT !.pc = IF pump.committed THEN "ended" ELSE "failed"]
             ELSE [pump EXCEPT !.page = Attach(Target, pump.after, PageSize)]
  /\ UNCHANGED <<vars, client, wire, breaks, collected>>

(* An SSE heartbeat commits the headers before any event. *)
StreamHeartbeat ==
  /\ pump.pc = "send" /\ ~pump.committed
  /\ pump' = [pump EXCEPT !.committed = TRUE]
  /\ UNCHANGED <<vars, client, wire, breaks, collected>>

(* The request context ends on the server: a typed error before the first   *)
(* byte, a clean end of the body after it.                                   *)
StreamBreak ==
  /\ pump.pc = "send"
  /\ breaks < MaxBreaks /\ breaks' = breaks + 1
  /\ pump' = [pump EXCEPT !.pc = IF pump.committed THEN "ended" ELSE "failed"]
  /\ UNCHANGED <<vars, client, wire, collected>>

-----------------------------------------------------------------------------
(* Recv and the loop of Call. *)
Receive ==
  /\ client.pc = "receive" /\ wire # << >>
  /\ LET page == Head(wire).page
         frame == Head(wire).frame
     IN \/ /\ ~ReceiveValid(page, frame, client.after)
           /\ Return(Failed("protocol"))
           /\ wire' = << >> /\ pump' = Closed
        \/ /\ ReceiveValid(page, frame, client.after)
           /\ IF Terminal(page.status) /\ frame.sequence = page.sequence
              THEN /\ Return(CompletedPayload(page, frame))
                   /\ wire' = << >> /\ pump' = Closed
              ELSE /\ client' = [client EXCEPT !.after = frame.sequence]
                   /\ wire' = Tail(wire) /\ UNCHANGED pump
  /\ UNCHANGED <<vars, breaks, collected>>

(* io.EOF: wait for continuationReconnectDelay and attach again. *)
Reconnect ==
  /\ client.pc = "receive" /\ wire = << >> /\ pump.pc = "ended"
  /\ client' = [client EXCEPT !.pc = "connect"]
  /\ pump' = Closed
  /\ UNCHANGED <<vars, wire, breaks, collected>>

ConnectFailed ==
  /\ client.pc = "receive" /\ pump.pc = "failed"
  /\ Return(Failed("error"))
  /\ pump' = Closed
  /\ UNCHANGED <<vars, wire, breaks, collected>>

Following == client.pc \in {"started", "connect", "receive"}

(* The caller's context ends. *)
ContextDone ==
  /\ Following
  /\ Return(Failed("error"))
  /\ pump' = Closed /\ wire' = << >>
  /\ UNCHANGED <<vars, breaks, collected>>

(* The store's other clients, while the client follows the call. *)
StreamOthers == Following /\ OtherClients /\ UNCHANGED <<client, pump, wire, breaks>>

CallStep ==
  \/ StartResponse \/ Connect \/ Receive \/ Reconnect \/ ConnectFailed
  \/ PumpSend \/ PumpEnd \/ PumpAttach

StreamNext ==
  Start \/ CallStep \/ StreamHeartbeat \/ StreamBreak \/ ContextDone \/ StreamOthers

StreamSpec == StreamInit /\ [][StreamNext]_streamVars

(* The goroutines of the client and of the server are scheduled and the     *)
(* poll timer fires; nothing is assumed of the store's other clients.       *)
StreamFairness == WF_streamVars(CallStep)

TypeOKStream ==
  /\ TypeOK
  /\ client.pc \in {"idle", "started", "connect", "receive", "returned"}
  /\ client.after \in 0..MaxUint64
  /\ pump.pc \in {"closed", "send", "ended", "failed"}
  /\ pump.after \in 0..MaxUint64
  /\ Len(wire) <= MaxWire

(* However the call was advanced, commanded, pruned or expired between two
   pages, and however often the client reconnected, the frames on their way to
   the client continue the durable log at its cursor: none missing, none
   twice, none that differs from what is stored. *)
FollowsLog ==
  client.pc = "receive" /\ ~collected =>
    LET s == records[Target]
        coming == [i \in DOMAIN wire |-> wire[i].frame] \o pump.page.frames
    IN \A i \in DOMAIN coming :
         /\ coming[i].sequence = client.after + i
         /\ coming[i].sequence >= s.frameFloor =>
              coming[i] = s.frames[coming[i].sequence - s.frameFloor + 1]

(* The payload Call returns is the payload of the last frame of the call,
   and the call is completed. *)
ReturnsOutcome ==
  client.result.kind = "payload" /\ ~collected /\ Exists(Target) =>
    LET s == records[Target]
    IN /\ s.status = "completed"
       /\ s.frames # << >> => s.frames[Len(s.frames)].payload = client.result.payload

(* "Call starts a fixed durable operation, reconnects Attach after validated
   frames, and returns the successful terminal payload": once the call it
   follows has ended, Call returns. *)
CallReturns ==
  Following /\ Terminal(records[Target].status) ~> client.pc = "returned"

(* What holds of a reader over SSE at every moment: the frames it has seen are
   the stored ones, through reconnects, and what it returns is the outcome. *)
StreamInv == TypeOKStream /\ FollowsLog /\ ReturnsOutcome
=============================================================================
