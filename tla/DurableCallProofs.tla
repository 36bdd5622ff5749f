---------------------------- MODULE DurableCallProofs ----------------------------
(***************************************************************************)
(* ContinuationStore implements DurableCall.  The step lemma follows one   *)
(* record through RecordStep: a creation starts the call, a transition     *)
(* extends its log (AppliedLog), pruning trims an ended call (TrimmedLog), *)
(* and collection frees its identity.                                      *)
(***************************************************************************)
EXTENDS ContinuationStoreProofs

(* PruneSnapshot keeps exactly the frames from the new floor on. *)
LEMMA TrimmedLog ==
  ASSUME NEW s \in Snapshot, ValidSnapshot(s), NEW floor \in 1..MaxUint64,
         PruneAccepts(s, floor), floor > s.frameFloor
  PROVE  LET next == PruneSnapshot(s, floor)
         IN /\ next.frameFloor = floor
            /\ Len(next.frames) = Len(s.frames) - (floor - s.frameFloor)
            /\ \A i \in 1..Len(next.frames) :
                 next.frames[i] = s.frames[i + (floor - s.frameFloor)]
<1> DEFINE k == floor - s.frameFloor
           len == Len(s.frames)
<1>1. /\ s.frames \in Seq(Frame) /\ len \in Nat /\ s.frameFloor \in Nat
      /\ s.sequence \in Nat /\ s.sequence <= MaxUint64
  BY LenProperties, MaxUint64Assumption DEF Snapshot
<1>2. s.sequence - s.frameFloor + 1 = len
  BY DEF ValidSnapshot
<1>3. k \in 1..len
  BY <1>1, <1>2, MaxUint64Assumption DEF PruneAccepts
<1>4. /\ PruneSnapshot(s, floor).frameFloor = floor
      /\ PruneSnapshot(s, floor).frames = SubSeq(s.frames, k + 1, len)
  <2>1. ~(floor <= s.frameFloor)
    BY <1>1
  <2>2. PruneSnapshot(s, floor) =
          [s EXCEPT !.frameFloor = floor, !.frames = SubSeq(s.frames, k + 1, len)]
    BY <2>1 DEF PruneSnapshot
  <2> HIDE DEF k, len
  <2> QED BY <2>2 DEF Snapshot
<1> HIDE DEF k
<1>5. /\ Len(SubSeq(s.frames, k + 1, len)) = len - k
      /\ \A i \in 1..(len - k) : SubSeq(s.frames, k + 1, len)[i] = s.frames[i + k]
  BY <1>1, <1>3, SubSeqProperties
<1> QED BY <1>4, <1>5 DEF k

(* Every step of the store is a step, or no step, of each abstract call. *)
LEMMA ViewEvolves ==
  ASSUME IInv, StoredValid, [Next]_vars, NEW c \in CallIDs
  PROVE  Durable!Evolves(View(records[c]), View(records'[c]))
<1> DEFINE r == records[c]
           next == records'[c]
<1>0. /\ r \in Snapshot
      /\ r.frames \in Seq(Frame) /\ Len(r.frames) \in Nat
      /\ DOMAIN r.frames = 1..Len(r.frames)
  BY PointwiseInv, LenProperties DEF CallInv, Snapshot
<1>1. RecordStep(r, next, LeaseActive(c))
  BY StepOfRecord
<1>2. CASE next = r
  BY <1>2 DEF Durable!Evolves
<1>3. CASE r.status = "absent" /\
             (next = NewSnapshot \/ \E input \in Payloads : next = NewSnapshotWithInput(input))
  <2>1. /\ next.status = "accepted" /\ next.revision = 1 /\ next.frameFloor = 1
        /\ Len(next.frames) <= 1
    <3>1. CASE next = NewSnapshot
      BY <3>1 DEF NewSnapshot
    <3>2. ASSUME NEW input \in Payloads, next = NewSnapshotWithInput(input)
          PROVE  /\ next.status = "accepted" /\ next.revision = 1 /\ next.frameFloor = 1
                 /\ Len(next.frames) <= 1
      <4>1. NewSnapshotWithInput(input).frames
              = <<[sequence |-> 1, kind |-> "accepted", payload |-> input]>>
        BY DEF NewSnapshotWithInput, NewSnapshot
      <4> QED BY <3>2, <4>1 DEF NewSnapshotWithInput, NewSnapshot
    <3> QED BY <1>3, <3>1, <3>2
  <2>2. Durable!Started(View(next))
    BY <2>1 DEF Durable!Started, View, Phase, Terminal
  <2>3. View(r).phase = "absent"
    BY <1>3 DEF View, Phase
  <2> QED BY <2>2, <2>3 DEF Durable!Evolves
<1>4. CASE \E t : TypedTransition(t) /\ Accepts(r, t) /\ next = Apply(r, t)
  <2>1. PICK t : TypedTransition(t) /\ Accepts(r, t) /\ next = Apply(r, t)
    BY <1>4
  <2>2. /\ next.status = t.status /\ next.revision = r.revision + 1
        /\ next.frameFloor = r.frameFloor
    BY <1>0, <2>1, ApplyFields
  <2>3. /\ Len(next.frames) >= Len(r.frames)
        /\ \A i \in DOMAIN r.frames : next.frames[i] = r.frames[i]
    BY <1>0, <2>1, AppliedLog
  <2>4. /\ ~Terminal(r.status)
        /\ AllowedTransition(r.status, t.status, t.command)
        /\ t.status \in Status
    BY <2>1, Zenon DEF Accepts, TypedTransition
  <2>5. r.status # "absent"
    BY <2>4 DEF AllowedTransition, ExecutorMoves
  <2>6. Phase(r.status) = "live" /\ Phase(next.status) \in {"live", "ended"}
    BY <2>2, <2>4, <2>5 DEF Phase, Status, Terminal
  <2> QED BY <1>0, <2>2, <2>3, <2>6 DEF Durable!Evolves, Durable!Extended, View
<1>5. CASE Terminal(r.status) /\ next = NoSnapshot
  <2>1. View(next) = Durable!Absent
    BY <1>5 DEF View, Durable!Absent, NoSnapshot, Phase
  <2>2. View(r).phase = "ended"
    BY <1>5 DEF View, Phase, Terminal
  <2> QED BY <2>1, <2>2 DEF Durable!Evolves
<1>6. CASE Terminal(r.status) /\
             \E floor \in 1..MaxUint64 : PruneAccepts(r, floor) /\ next = PruneSnapshot(r, floor)
  <2>1. PICK floor \in 1..MaxUint64 : PruneAccepts(r, floor) /\ next = PruneSnapshot(r, floor)
    BY <1>6
  <2>2. r.frameFloor \in Int /\ floor \in Int
    BY <1>0, MaxUint64Assumption DEF Snapshot
  <2>3. CASE floor <= r.frameFloor
    BY <1>2, <2>1, <2>3 DEF PruneSnapshot
  <2>4. CASE floor > r.frameFloor
    <3>1. ValidSnapshot(r)
      BY <1>6 DEF StoredValid, Exists, Terminal
    <3>2. /\ next.frameFloor = floor
          /\ Len(next.frames) = Len(r.frames) - (floor - r.frameFloor)
          /\ \A i \in 1..Len(next.frames) : next.frames[i] = r.frames[i + (floor - r.frameFloor)]
      BY <1>0, <2>1, <2>4, <3>1, TrimmedLog
    <3>3. next.status = r.status /\ next.revision = r.revision
      BY <1>0, <2>1, PruneType
    <3>4. Phase(r.status) = "ended"
      BY <1>6 DEF Phase, Terminal
    <3> QED BY <2>4, <3>2, <3>3, <3>4 DEF Durable!Evolves, Durable!Trimmed, View
  <2> QED BY <2>2, <2>3, <2>4
<1> QED BY <1>1, <1>2, <1>3, <1>4, <1>5, <1>6, Zenon DEF RecordStep

(* The store implements DurableCall, for every set of calls, executors,
   commands and machine transitions. *)
THEOREM StoreImplementsDurableCall == Spec => ImplementsDurableCall
<1>1. Init => Durable!Init
  BY DEF Init, Durable!Init, View, Phase, Terminal, NoSnapshot, Durable!Absent
<1>2. IInv /\ StoredValid /\ [Next]_vars
        => [Durable!Next]_([c \in CallIDs |-> View(records[c])])
  BY ViewEvolves DEF Durable!Next
<1> QED BY <1>1, <1>2, StoreSafety, StoredValidHolds, PTL
        DEF Spec, ImplementsDurableCall, Durable!Spec
=============================================================================
