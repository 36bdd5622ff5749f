---------------------------- MODULE ContinuationState ----------------------------
(***************************************************************************)
(* The durable call of programmable/continuation as immutable data: what a *)
(* Snapshot holds, which lifecycle changes Apply accepts, and what it      *)
(* returns.  There is no state here; the stores and the runtimes build on  *)
(* these operators.                                                        *)
(*                                                                         *)
(* Data is abstracted to what the lifecycle tells apart.  A frame is its   *)
(* sequence number, its kind and an opaque payload; a command digest is    *)
(* the payload it was computed from; times are positive instants of the    *)
(* store's clock and 0 is Go's zero time.Time.                             *)
(***************************************************************************)
EXTENDS Integers, Sequences

CONSTANTS
  Commands,     \* command identities a client may choose
  Payloads,     \* opaque payload values
  NoPayload,    \* the nil payload
  MaxUint64     \* the largest revision, fence and sequence (math.MaxUint64)

ASSUME MaxUint64Assumption == MaxUint64 \in Nat /\ MaxUint64 >= 2
ASSUME PayloadAssumption == NoPayload \in Payloads

Status == {"accepted", "running", "waiting", "suspended", "cancel_requested",
           "completed", "failed", "canceled", "expired"}

Terminal(status) == status \in {"completed", "failed", "canceled", "expired"}

FrameKind == {"accepted", "event", "waiting", "signal", "suspended",
              "cancel_requested", "completed", "failed", "canceled",
              "expired", "workflow_child"}

Frame == [sequence : 0..MaxUint64, kind : FrameKind, payload : Payloads]

NewFrame(kind, payload) == [sequence |-> 0, kind |-> kind, payload |-> payload]

CommandKind == {"signal", "cancel"}

NoRecord == [kind |-> "none", digest |-> NoPayload]

CommandRecord == [kind : CommandKind, digest : Payloads] \cup {NoRecord}

(***************************************************************************)
(* A Snapshot.  "absent" is the status of a call the store does not hold.  *)
(***************************************************************************)
Snapshot == [status     : Status \cup {"absent"},
             readyAt    : Nat,
             revision   : 0..MaxUint64,
             fence      : 0..MaxUint64,
             sequence   : 0..MaxUint64,
             frameFloor : 0..MaxUint64 + 1,
             frames     : Seq(Frame),
             commands   : [Commands -> CommandRecord]]

NoSnapshot == [status |-> "absent", readyAt |-> 0, revision |-> 0, fence |-> 0,
               sequence |-> 0, frameFloor |-> 0, frames |-> << >>,
               commands |-> [id \in Commands |-> NoRecord]]

(* A call at revision one, without input and with its input as frame one. *)
NewSnapshot == [status |-> "accepted", readyAt |-> 0, revision |-> 1, fence |-> 0,
                sequence |-> 0, frameFloor |-> 1, frames |-> << >>,
                commands |-> [id \in Commands |-> NoRecord]]

NewSnapshotWithInput(input) ==
  [NewSnapshot EXCEPT
     !.sequence = 1,
     !.frames = <<[sequence |-> 1, kind |-> "accepted", payload |-> input]>>]

TimerDue(snapshot, now) == snapshot.readyAt = 0 \/ now >= snapshot.readyAt

-----------------------------------------------------------------------------
(***************************************************************************)
(* Transitions.  A transition either is driven by an executor (no command) *)
(* or is one of the two idempotent commands.                               *)
(***************************************************************************)
Move(status, fence, frames) ==
  [status |-> status, fence |-> fence, frames |-> frames, readyAt |-> 0,
   timer |-> FALSE, command |-> "", commandID |-> ""]

Continue(frames) == Move("running", 0, frames)

SleepUntil(readyAt, frames) ==
  [Move("suspended", 0, frames) EXCEPT !.readyAt = readyAt, !.timer = TRUE]

Signal(id, payload) ==
  [Move("accepted", 0, <<NewFrame("signal", payload)>>) EXCEPT
     !.command = "signal", !.commandID = id]

Cancel(id, payload) ==
  [Move("cancel_requested", 0, <<NewFrame("cancel_requested", payload)>>) EXCEPT
     !.command = "cancel", !.commandID = id]

(* commandDigest covers every frame; a command carries exactly one. *)
CommandDigest(t) == [kind |-> t.command, digest |-> t.frames[1].payload]

ExecutorMoves ==
  [accepted         |-> {"running", "failed", "expired"},
   running          |-> {"running", "waiting", "suspended", "completed", "failed",
                         "expired"},
   waiting          |-> {"failed", "expired"},
   suspended        |-> {"accepted", "running", "failed", "expired"},
   cancel_requested |-> {"cancel_requested", "canceled", "failed", "expired"}]

(* Mutant: a signal also wakes a call whose cancellation was requested. *)
SignalRevives(from, to, command) ==
  CASE command = "signal" -> from \in {"waiting", "cancel_requested"} /\ to = "accepted"
    [] command = "cancel" -> to = "cancel_requested" /\ ~Terminal(from)
    [] OTHER -> from \in DOMAIN ExecutorMoves /\ to \in ExecutorMoves[from]

AllowedTransition(from, to, command) ==
  CASE command = "signal" -> from = "waiting" /\ to = "accepted"
    [] command = "cancel" ->
         from \in {"accepted", "running", "waiting", "suspended"}
           /\ to = "cancel_requested"
    [] OTHER -> from \in DOMAIN ExecutorMoves /\ to \in ExecutorMoves[from]

TimerValid(t) ==
  /\ t.timer => t.readyAt # 0
  /\ t.readyAt # 0 => t.status = "suspended"

NextFence(s, t) == IF t.fence = 0 THEN s.fence ELSE t.fence

NoOverflow(s, t) ==
  /\ s.revision < MaxUint64
  /\ s.sequence + Len(t.frames) <= MaxUint64

(* The transition passes every check of Apply and yields a new revision.  A *)
(* command seen before is a duplicate or a conflict and yields none.       *)
Accepts(s, t) ==
  /\ TimerValid(t)
  /\ t.command # "" => s.commands[t.commandID] = NoRecord
  /\ ~Terminal(s.status)
  /\ AllowedTransition(s.status, t.status, t.command)
  /\ NoOverflow(s, t)
  /\ NextFence(s, t) >= s.fence
  /\ t.status = "running" => NextFence(s, t) # 0
  /\ \A i \in DOMAIN t.frames :
       t.frames[i].sequence = 0 /\ t.frames[i].kind # "accepted"

(* Mutant: numbering restarts at the last sequence instead of after it. *)
SequencedOverlap(s, frames) ==
  [i \in DOMAIN frames |-> [frames[i] EXCEPT !.sequence = s.sequence + i - 1]]

Sequenced(s, frames) ==
  [i \in DOMAIN frames |-> [frames[i] EXCEPT !.sequence = s.sequence + i]]

(* Mutant: a command does not count as a revision. *)
ApplyQuietly(s, t) ==
  [s EXCEPT
     !.status = t.status,
     !.readyAt = IF t.status = "suspended" THEN t.readyAt ELSE 0,
     !.revision = IF t.command # "" THEN s.revision ELSE s.revision + 1,
     !.fence = NextFence(s, t),
     !.sequence = s.sequence + Len(t.frames),
     !.frames = s.frames \o Sequenced(s, t.frames),
     !.commands = IF t.command = "" THEN s.commands
                  ELSE [s.commands EXCEPT ![t.commandID] = CommandDigest(t)]]

(* The successor Apply returns when Accepts(s, t). *)
Apply(s, t) ==
  [s EXCEPT
     !.status = t.status,
     !.readyAt = IF t.status = "suspended" THEN t.readyAt ELSE 0,
     !.revision = s.revision + 1,
     !.fence = NextFence(s, t),
     !.sequence = s.sequence + Len(t.frames),
     !.frames = s.frames \o Sequenced(s, t.frames),
     !.commands = IF t.command = "" THEN s.commands
                  ELSE [s.commands EXCEPT ![t.commandID] = CommandDigest(t)]]

-----------------------------------------------------------------------------
(* PruneSnapshot: drop the frames below floor, keep everything else.       *)
PruneAccepts(s, floor) ==
  /\ floor > 0
  /\ IF s.sequence = MaxUint64 THEN floor <= s.sequence
                               ELSE floor <= s.sequence + 1

PruneSnapshot(s, floor) ==
  IF floor <= s.frameFloor THEN s
  ELSE [s EXCEPT !.frameFloor = floor,
                 !.frames = SubSeq(s.frames, floor - s.frameFloor + 1,
                                   Len(s.frames))]

(* The snapshot conditions that validateSnapshot enforces on every use.    *)
ValidSnapshot(s) ==
  /\ s.status \in Status
  /\ s.readyAt # 0 => s.status = "suspended"
  /\ s.revision # 0 /\ s.frameFloor # 0
  /\ s.frameFloor <= s.sequence + 1
  /\ s.sequence - s.frameFloor + 1 = Len(s.frames)
  /\ s.revision = 1 =>
       /\ s.status = "accepted" /\ s.fence = 0 /\ s.frameFloor = 1
       /\ \A id \in Commands : s.commands[id] = NoRecord
       /\ \/ s.sequence = 0
          \/ s.sequence = 1 /\ s.frames[1].kind = "accepted"
  /\ \A i \in DOMAIN s.frames :
       /\ s.frames[i].sequence = s.frameFloor + i - 1
       /\ s.frames[i].kind = "accepted" => s.frames[i].sequence = 1
=============================================================================
