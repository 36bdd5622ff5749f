---------------------------- MODULE ContinuationAttach ----------------------------
(***************************************************************************)
(* Runtime.Attach: cursor pages over the durable log of one call.  A       *)
(* cursor is the sequence of the last frame its reader has; a page is read *)
(* from one stored snapshot under the store's mutex.  Below it, what the   *)
(* streams over HTTP and gRPC share: the call they follow, and everything  *)
(* else that happens to it meanwhile.                                      *)
(***************************************************************************)
EXTENDS ContinuationStore

CONSTANTS
  Target,       \* the call a reader follows
  PageSize,     \* frames per Attach page
  MaxWire       \* bound: events or messages in flight

ASSUME AttachAssumption ==
  Target \in CallIDs /\ PageSize \in Nat \ {0} /\ MaxWire \in Nat \ {0}

VARIABLE collected   \* history: the followed call was collected since

(* Runtime.Attach: refused with ErrNotFound, ErrCursorAhead or ErrGap. *)
AttachRefused(c, after) ==
  \/ ~Exists(c)
  \/ after > records[c].sequence
  \/ after < records[c].frameFloor - 1

Smaller(a, b) == IF a < b THEN a ELSE b

(* Mutant: the page starts with the frame at the cursor. *)
AttachInclusive(s, after, limit) ==
  LET start == after - (s.frameFloor - 1)
  IN SubSeq(s.frames, IF start = 0 THEN 1 ELSE start, Smaller(start + limit, Len(s.frames)))

AttachFrames(s, after, limit) ==
  LET start == after - (s.frameFloor - 1)
  IN SubSeq(s.frames, start + 1, Smaller(start + limit, Len(s.frames)))

(* One page: the frames after the cursor and the snapshot they came with. *)
Attach(c, after, limit) ==
  [frames |-> AttachFrames(records[c], after, limit),
   status |-> records[c].status, sequence |-> records[c].sequence,
   frameFloor |-> records[c].frameFloor]

NoPage == [frames |-> << >>, status |-> "absent", sequence |-> 0, frameFloor |-> 0]

(* uint64 arithmetic. *)
Wrap(n) == n % (MaxUint64 + 1)

(* Any other client of the store.  Bound: a collected call is not created   *)
(* again under the same identity.                                           *)
OtherClients ==
  /\ ~collected
  /\ Next
  /\ collected' = (Exists(Target) /\ records'[Target] = NoSnapshot)
=============================================================================
