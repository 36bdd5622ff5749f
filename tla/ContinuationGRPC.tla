---------------------------- MODULE ContinuationGRPC ----------------------------
(***************************************************************************)
(* The server stream transport/grpc/continuation.Server.Attach sends for   *)
(* one call and the AttachmentStream that receives it.  Each loop of the   *)
(* server reads one page, splits it into one message per frame (or sends   *)
(* an empty terminal page as it is), and then ends, goes on with the next  *)
(* page, or waits for the poll interval.  Messages wait until the          *)
(* reader receives them; the final status follows the last of them.        *)
(***************************************************************************)
EXTENDS ContinuationAttach

VARIABLES
  server,     \* Server.Attach
  messages,   \* sent and not yet received
  reader      \* the AttachmentStream

grpcVars == <<records, leases, expires, now, server, messages, reader, collected>>

GrpcInit ==
  /\ Init
  /\ server = [pc |-> "none", after |-> 0, page |-> NoPage, sent |-> FALSE]
  /\ messages = << >>
  /\ reader = [pc |-> "idle", after |-> 0]
  /\ collected = FALSE

-----------------------------------------------------------------------------
(* pageToWire on the server: a contiguous page within the call's log. *)
Contiguous(page, frames, after) ==
  /\ \A i \in DOMAIN frames : frames[i].sequence = after + i
  /\ Wrap(after + Len(frames) + 1) <= Wrap(page.sequence + 1)

(* validatePageWire on the reader looks at the snapshot's floor too. *)
PageValid(page, frames, after) ==
  /\ page.frameFloor # 0
  /\ page.frameFloor <= Wrap(page.sequence + 1)
  /\ Contiguous(page, frames, after)

Open ==
  /\ reader.pc = "idle"
  /\ \E after \in 0..MaxUint64 :
       /\ reader' = [pc |-> "receive", after |-> after]
       /\ server' = [server EXCEPT !.pc = "attach", !.after = after]
  /\ UNCHANGED <<vars, messages, collected>>

(* The next page, refused with a status or cut into messages. *)
ReadPage ==
  /\ server.pc = "attach"
  /\ IF \/ AttachRefused(Target, server.after)
        \/ LET page == Attach(Target, server.after, PageSize)
           IN ~Contiguous(page, page.frames, server.after)
     THEN server' = [server EXCEPT !.pc = "failed"]
     ELSE server' = [server EXCEPT !.pc = "send", !.sent = FALSE,
                                   !.page = Attach(Target, server.after, PageSize)]
  /\ UNCHANGED <<vars, messages, reader, collected>>

(* Mutant: the cursor stays where the page began, so the page is sent again. *)
SendFrameKeepsCursor ==
  /\ server.pc = "send" /\ server.page.frames # << >> /\ Len(messages) < MaxWire
  /\ messages' = Append(messages, [page |-> server.page, frames |-> <<Head(server.page.frames)>>])
  /\ server' = [server EXCEPT !.page.frames = Tail(@), !.sent = TRUE]
  /\ UNCHANGED <<vars, reader, collected>>

SendFrame ==
  /\ server.pc = "send" /\ server.page.frames # << >> /\ Len(messages) < MaxWire
  /\ messages' = Append(messages, [page |-> server.page, frames |-> <<Head(server.page.frames)>>])
  /\ server' = [server EXCEPT !.after = Head(server.page.frames).sequence,
                              !.page.frames = Tail(@), !.sent = TRUE]
  /\ UNCHANGED <<vars, reader, collected>>

(* Mutant: a terminal page without frames is polled for more. *)
SendNothing ==
  /\ server.pc = "send" /\ server.page.frames = << >> /\ ~server.sent
  /\ Terminal(server.page.status)
  /\ server' = [server EXCEPT !.pc = "attach"]
  /\ UNCHANGED <<vars, messages, reader, collected>>

(* A terminal page without frames is a message of its own. *)
SendTerminal ==
  /\ server.pc = "send" /\ server.page.frames = << >> /\ ~server.sent
  /\ Terminal(server.page.status) /\ Len(messages) < MaxWire
  /\ messages' = Append(messages, [page |-> server.page, frames |-> << >>])
  /\ server' = [server EXCEPT !.pc = "ended"]
  /\ UNCHANGED <<vars, reader, collected>>

(* The page is sent: end after a terminal one, else read the next, at once  *)
(* after frames and after the poll interval without.                        *)
PageSent ==
  /\ server.pc = "send" /\ server.page.frames = << >>
  /\ \/ /\ Terminal(server.page.status) /\ server.sent
        /\ server' = [server EXCEPT !.pc = "ended"]
     \/ /\ ~Terminal(server.page.status)
        /\ server' = [server EXCEPT !.pc = "attach"]
  /\ UNCHANGED <<vars, messages, reader, collected>>

Recv ==
  /\ reader.pc = "receive" /\ messages # << >>
  /\ LET message == Head(messages)
     IN IF PageValid(message.page, message.frames, reader.after)
        THEN reader' = [reader EXCEPT !.after = @ + Len(message.frames)]
        ELSE reader' = [reader EXCEPT !.pc = "invalid"]
  /\ messages' = Tail(messages)
  /\ UNCHANGED <<vars, server, collected>>

RecvEnd ==
  /\ reader.pc = "receive" /\ messages = << >> /\ server.pc \in {"ended", "failed"}
  /\ reader' = [reader EXCEPT !.pc = IF server.pc = "ended" THEN "eof" ELSE "status"]
  /\ UNCHANGED <<vars, server, messages, collected>>

(* The reader leaves. *)
Leave ==
  /\ reader.pc = "receive"
  /\ reader' = [reader EXCEPT !.pc = "left"]
  /\ server' = [server EXCEPT !.pc = "failed"]
  /\ messages' = << >>
  /\ UNCHANGED <<vars, collected>>

(* The store's other clients, until the reader is done. *)
GrpcOthers ==
  /\ reader.pc \in {"idle", "receive"}
  /\ OtherClients
  /\ UNCHANGED <<server, messages, reader>>

AttachStep ==
  ReadPage \/ SendFrame \/ SendTerminal \/ PageSent \/ Recv \/ RecvEnd

GrpcNext == Open \/ AttachStep \/ Leave \/ GrpcOthers

GrpcSpec == GrpcInit /\ [][GrpcNext]_grpcVars

(* Both goroutines are scheduled and the poll timer fires. *)
GrpcFairness == WF_grpcVars(AttachStep)

(* Whatever happens to the call between two pages, the messages on their way
   continue the durable log at the client's cursor, frame for frame. *)
MessagesFollowLog ==
  reader.pc = "receive" /\ ~collected =>
    \A i \in DOMAIN messages : messages[i].frames # << >> =>
      LET frame == messages[i].frames[1]
          s == records[Target]
      IN /\ frame.sequence = reader.after + i
         /\ frame.sequence >= s.frameFloor =>
              frame = s.frames[frame.sequence - s.frameFloor + 1]

(* Server and reader agree on what a page is: as long as the sequence after
   the last one can be represented, no page a server sends is refused by
   AttachmentStream.Recv, which would end the stream for good. *)
PagesAccepted ==
  reader.pc = "invalid" => collected \/ records[Target].sequence = MaxUint64

(* A stream opened on a call that ends does not stay open. *)
StreamEnds ==
  reader.pc = "receive" /\ Terminal(records[Target].status) ~> reader.pc # "receive"

(* What holds of a gRPC stream at every moment: its messages carry the stored
   log in order, and its reader refuses none of them. *)
GrpcInv == MessagesFollowLog /\ PagesAccepted
=============================================================================
