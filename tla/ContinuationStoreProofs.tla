---------------------------- MODULE ContinuationStoreProofs ----------------------------
(***************************************************************************)
(* Proofs about ContinuationStore, for every set of calls, owners,         *)
(* commands and transitions and for every bound.                           *)
(***************************************************************************)
EXTENDS ContinuationStore, SequenceTheorems, TLAPS

(* What Apply may assume of the transition it is given. *)
TypedTransition(t) ==
  /\ t.status \in Status
  /\ t.fence \in 0..MaxUint64
  /\ t.frames \in Seq(Frame)
  /\ t.readyAt \in Nat
  /\ t.command # "" =>
       /\ t.command \in CommandKind
       /\ t.commandID \in Commands
       /\ t.frames[1].payload \in Payloads

LEMMA SequencedType ==
  ASSUME NEW s \in Snapshot, NEW frames \in Seq(Frame),
         s.sequence + Len(frames) <= MaxUint64
  PROVE  /\ Sequenced(s, frames) \in Seq(Frame)
         /\ Len(Sequenced(s, frames)) = Len(frames)
<1>1. \A i \in DOMAIN frames :
         [frames[i] EXCEPT !.sequence = s.sequence + i] \in Frame
  <2> SUFFICES ASSUME NEW i \in DOMAIN frames
               PROVE  [frames[i] EXCEPT !.sequence = s.sequence + i] \in Frame
    OBVIOUS
  <2>1. i \in 1..Len(frames) /\ frames[i] \in Frame
    OBVIOUS
  <2>2. s.sequence + i \in 0..MaxUint64
    BY <2>1, MaxUint64Assumption DEF Snapshot
  <2> QED BY <2>1, <2>2 DEF Frame
<1>2. DOMAIN frames = 1..Len(frames) /\ Len(frames) \in Nat
  OBVIOUS
<1> QED BY <1>1, <1>2 DEF Sequenced

(* Apply returns a well-formed snapshot. *)
LEMMA ApplyType ==
  ASSUME NEW s \in Snapshot, NEW t, TypedTransition(t), Accepts(s, t)
  PROVE  Apply(s, t) \in Snapshot
<1>1. t.status \in Status /\ t.frames \in Seq(Frame) /\ t.readyAt \in Nat
  BY DEF TypedTransition
<1>2. s.revision + 1 \in 0..MaxUint64
  <2>1. s.revision < MaxUint64
    BY Zenon DEF Accepts, NoOverflow
  <2> QED BY <2>1, MaxUint64Assumption DEF Snapshot
<1>3. NextFence(s, t) \in 0..MaxUint64
  BY DEF NextFence, TypedTransition, Snapshot
<1>4. s.sequence + Len(t.frames) \in 0..MaxUint64
  <2>1. s.sequence + Len(t.frames) <= MaxUint64
    BY Zenon DEF Accepts, NoOverflow
  <2> QED BY <2>1, <1>1, MaxUint64Assumption DEF Snapshot
<1>5. s.frames \o Sequenced(s, t.frames) \in Seq(Frame)
  <2>1. s.frames \in Seq(Frame)
    BY DEF Snapshot
  <2>2. Sequenced(s, t.frames) \in Seq(Frame)
    BY <1>1, <1>4, SequencedType
  <2> QED BY <2>1, <2>2
<1>6. (IF t.command = "" THEN s.commands
       ELSE [s.commands EXCEPT ![t.commandID] = CommandDigest(t)])
         \in [Commands -> CommandRecord]
  BY DEF Snapshot, TypedTransition, CommandDigest, CommandRecord
<1>7. (IF t.status = "suspended" THEN t.readyAt ELSE 0) \in Nat
  BY <1>1
<1> QED BY <1>1, <1>2, <1>3, <1>4, <1>5, <1>6, <1>7 DEF Apply, Snapshot

(* What Apply leaves in the fields the other invariants read. *)
LEMMA ApplyFields ==
  ASSUME NEW s \in Snapshot, NEW t
  PROVE  /\ Apply(s, t).status = t.status
         /\ Apply(s, t).revision = s.revision + 1
         /\ Apply(s, t).fence = NextFence(s, t)
         /\ Apply(s, t).frameFloor = s.frameFloor
BY DEF Apply, Snapshot

-----------------------------------------------------------------------------
(* The part of IInv that speaks of one call. *)
CallInv(r, l, e) ==
  /\ r \in Snapshot
  /\ l \in LeaseRecord
  /\ e \in {NoExpiry} \cup 0..Retention
  /\ l.owner # NoOwner \/ l.ttl > 0 =>
       /\ l.owner # NoOwner
       /\ r.status \in {"running", "cancel_requested"}
       /\ l.revision = r.revision
       /\ l.fence = r.fence
       /\ l.previousRevision < l.revision
  /\ r.frameFloor > 1 => Terminal(r.status)
  /\ e # NoExpiry => Terminal(r.status)

LEMMA PointwiseInv ==
  IInv <=> /\ records = [c \in CallIDs |-> records[c]]
           /\ leases = [c \in CallIDs |-> leases[c]]
           /\ expires = [c \in CallIDs |-> expires[c]]
           /\ now \in 1..MaxTime
           /\ \A c \in CallIDs : CallInv(records[c], leases[c], expires[c])
BY DEF IInv, TypeOK, LeaseCoversRecord, PrunedIsTerminal, ExpiryIsTerminal,
       CallInv, LeaseActive

(* A step that writes the entries of one call and keeps CallInv for it     *)
(* keeps IInv.                                                             *)
LEMMA OneCallStep ==
  ASSUME IInv, NEW c \in CallIDs, NEW r, NEW l, NEW e,
         records' = [records EXCEPT ![c] = r],
         leases' = [leases EXCEPT ![c] = l],
         expires' = [expires EXCEPT ![c] = e],
         now' = now,
         CallInv(r, l, e)
  PROVE  IInv'
<1>1. /\ records' = [d \in CallIDs |-> records'[d]]
      /\ leases' = [d \in CallIDs |-> leases'[d]]
      /\ expires' = [d \in CallIDs |-> expires'[d]]
      /\ now' \in 1..MaxTime
  BY PointwiseInv
<1>2. ASSUME NEW d \in CallIDs
      PROVE  CallInv(records'[d], leases'[d], expires'[d])
  <2>1. CASE d = c
    BY <2>1, PointwiseInv
  <2>2. CASE d # c
    BY <2>2, PointwiseInv
  <2> QED BY <2>1, <2>2
<1> QED
  BY <1>1, <1>2 DEF IInv, TypeOK, LeaseCoversRecord, PrunedIsTerminal,
                    ExpiryIsTerminal, CallInv, LeaseActive

(* A snapshot that was never leased, pruned or given a deadline. *)
LEMMA FreshCall ==
  ASSUME NEW r \in Snapshot, r.frameFloor <= 1
  PROVE  CallInv(r, NoLease, NoExpiry)
<1>1. NoLease \in LeaseRecord
  BY StoreAssumption, MaxUint64Assumption DEF NoLease, LeaseRecord
<1>2. r.frameFloor \in Int
  BY MaxUint64Assumption DEF Snapshot
<1> QED BY <1>1, <1>2, StoreAssumption DEF CallInv, NoLease, NoExpiry

LEMMA NewSnapshotType ==
  /\ NewSnapshot \in Snapshot
  /\ \A input \in Payloads : NewSnapshotWithInput(input) \in Snapshot
  /\ NoSnapshot \in Snapshot
<1>1. [id \in Commands |-> NoRecord] \in [Commands -> CommandRecord]
  BY DEF CommandRecord
<1>2. << >> \in Seq(Frame)
  OBVIOUS
<1>3. {0, 1} \subseteq 0..MaxUint64 /\ 1 \in 0..MaxUint64 + 1 /\ 0 \in 0..MaxUint64 + 1
  BY MaxUint64Assumption
<1>4. NewSnapshot \in Snapshot /\ NoSnapshot \in Snapshot
  BY <1>1, <1>2, <1>3 DEF NewSnapshot, NoSnapshot, Snapshot, Status
<1>5. ASSUME NEW input \in Payloads
      PROVE  NewSnapshotWithInput(input) \in Snapshot
  <2>1. [sequence |-> 1, kind |-> "accepted", payload |-> input] \in Frame
    BY <1>3 DEF Frame, FrameKind
  <2>2. <<[sequence |-> 1, kind |-> "accepted", payload |-> input]>> \in Seq(Frame)
    BY <2>1
  <2> QED BY <1>3, <1>4, <2>2 DEF NewSnapshotWithInput, NewSnapshot, Snapshot
<1> QED BY <1>4, <1>5

LEMMA InitInv == Init => IInv
<1> SUFFICES ASSUME Init PROVE IInv
  OBVIOUS
<1>1. CallInv(NoSnapshot, NoLease, NoExpiry)
  BY FreshCall, NewSnapshotType DEF NoSnapshot
<1> QED BY <1>1, PointwiseInv, StoreAssumption DEF Init

LEMMA CreateInv ==
  ASSUME IInv, NEW c \in CallIDs, NEW s \in Snapshot, s.frameFloor = 1, Create(c, s)
  PROVE  IInv'
<1>1. leases[c].owner = NoOwner /\ leases[c].ttl = 0 /\ expires[c] = NoExpiry
  BY PointwiseInv DEF Create, Exists, CallInv, LeaseRecord, Terminal
<1>2. CallInv(s, leases[c], expires[c])
  BY <1>1, PointwiseInv DEF CallInv
<1>3. /\ leases' = [leases EXCEPT ![c] = leases[c]]
      /\ expires' = [expires EXCEPT ![c] = expires[c]]
      /\ records' = [records EXCEPT ![c] = s]
      /\ now' = now
  BY PointwiseInv DEF Create
<1> QED BY <1>2, <1>3, OneCallStep

(* Apply accepts live calls only, and a live call has no deadline and is   *)
(* not pruned.                                                             *)
LEMMA AppliedCall ==
  ASSUME IInv, NEW c \in CallIDs, NEW t, TypedTransition(t), Accepts(records[c], t)
  PROVE  /\ expires[c] = NoExpiry
         /\ Apply(records[c], t) \in Snapshot
         /\ Apply(records[c], t).frameFloor <= 1
         /\ CallInv(Apply(records[c], t), NoLease, NoExpiry)
<1>1. records[c] \in Snapshot /\ CallInv(records[c], leases[c], expires[c])
  BY PointwiseInv DEF CallInv
<1>2. ~Terminal(records[c].status)
  BY Zenon DEF Accepts
<1>3. expires[c] = NoExpiry /\ records[c].frameFloor <= 1
  BY <1>1, <1>2, MaxUint64Assumption DEF CallInv, Snapshot
<1>4. Apply(records[c], t) \in Snapshot
  BY <1>1, ApplyType
<1>5. Apply(records[c], t).frameFloor <= 1
  BY <1>1, <1>3, ApplyFields
<1> QED BY <1>3, <1>4, <1>5, FreshCall

LEMMA OwnedTyped ==
  ASSUME NEW s \in Snapshot, s.fence < MaxUint64
  PROVE  TypedTransition(Owned(s))
BY MaxUint64Assumption DEF TypedTransition, Owned, Move, Snapshot, Status

LEMMA ExpiredTyped ==
  ASSUME NEW s \in Snapshot
  PROVE  TypedTransition(Expired(s))
<1>1. NewFrame("expired", NoPayload) \in Frame
  BY MaxUint64Assumption, PayloadAssumption DEF NewFrame, Frame, FrameKind
<1>2. <<NewFrame("expired", NoPayload)>> \in Seq(Frame)
  BY <1>1
<1> QED BY <1>2 DEF TypedTransition, Expired, Move, Snapshot, Status

LEMMA CommandTyped ==
  ASSUME NEW id \in Commands, NEW p \in Payloads
  PROVE  TypedTransition(Signal(id, p)) /\ TypedTransition(Cancel(id, p))
<1>1. NewFrame("signal", p) \in Frame /\ NewFrame("cancel_requested", p) \in Frame
  BY MaxUint64Assumption DEF NewFrame, Frame, FrameKind
<1>2. /\ <<NewFrame("signal", p)>> \in Seq(Frame)
      /\ <<NewFrame("cancel_requested", p)>> \in Seq(Frame)
      /\ NewFrame("signal", p).payload = p
      /\ NewFrame("cancel_requested", p).payload = p
  BY <1>1 DEF NewFrame
<1>3. 0 \in 0..MaxUint64
  BY MaxUint64Assumption
<1> QED BY <1>2, <1>3 DEF TypedTransition, Signal, Cancel, Move, Status, CommandKind

-----------------------------------------------------------------------------
LEMMA AcquireInv ==
  ASSUME IInv, NEW c \in CallIDs, Acquire(c, records[c].revision)
  PROVE  IInv'
<1>1. CASE Claimable(c)
  <2>1. TypedTransition(Owned(records[c])) /\ Accepts(records[c], Owned(records[c]))
    BY <1>1, OwnedTyped, PointwiseInv DEF Claimable, CallInv
  <2>2. /\ CallInv(Apply(records[c], Owned(records[c])), NoLease, NoExpiry)
        /\ expires[c] = NoExpiry
    BY <2>1, AppliedCall
  <2>3. /\ records' = [records EXCEPT ![c] = Apply(records[c], Owned(records[c]))]
        /\ leases' = [leases EXCEPT ![c] = NoLease]
        /\ expires' = [expires EXCEPT ![c] = NoExpiry]
        /\ now' = now
    BY <1>1, <2>2, PointwiseInv DEF Acquire
  <2> QED BY <2>2, <2>3, OneCallStep
<1>2. CASE ~Claimable(c)
  <2>1. CallInv(records[c], NoLease, expires[c])
    BY PointwiseInv, StoreAssumption, MaxUint64Assumption
       DEF CallInv, NoLease, LeaseRecord
  <2>2. /\ records' = [records EXCEPT ![c] = records[c]]
        /\ leases' = [leases EXCEPT ![c] = NoLease]
        /\ expires' = [expires EXCEPT ![c] = expires[c]]
        /\ now' = now
    BY <1>2, PointwiseInv DEF Acquire
  <2> QED BY <2>1, <2>2, OneCallStep
<1> QED BY <1>1, <1>2

LEMMA ClaimInv ==
  ASSUME IInv, NEW c \in CallIDs, NEW o \in Owners, Claim(c, o, records[c].revision)
  PROVE  IInv'
<1> DEFINE next == Apply(records[c], Owned(records[c]))
           lease == [owner |-> o, ttl |-> LeaseDuration, revision |-> next.revision,
                     fence |-> next.fence, previousRevision |-> records[c].revision]
<1>1. TypedTransition(Owned(records[c])) /\ Accepts(records[c], Owned(records[c]))
  BY OwnedTyped, PointwiseInv DEF Claim, ClaimGranted, Claimable, CallInv
<1>2. next \in Snapshot /\ next.frameFloor <= 1 /\ expires[c] = NoExpiry
  BY <1>1, AppliedCall
<1>3. records[c] \in Snapshot
  BY PointwiseInv DEF CallInv
<1>4. /\ next.status \in {"running", "cancel_requested"}
      /\ next.revision = records[c].revision + 1
  <2>1. /\ next.status = Owned(records[c]).status
        /\ next.revision = records[c].revision + 1
    BY <1>3, ApplyFields
  <2>2. Owned(records[c]).status \in {"running", "cancel_requested"}
    BY DEF Owned, Move
  <2> QED BY <2>1, <2>2
<1>5. lease \in LeaseRecord
  BY <1>2, <1>3, StoreAssumption DEF LeaseRecord, Snapshot
<1>6. CallInv(next, lease, NoExpiry)
  <2>1. records[c].revision < next.revision
    BY <1>3, <1>4 DEF Snapshot
  <2>2. ~(next.frameFloor > 1)
    BY <1>2, MaxUint64Assumption DEF Snapshot
  <2> QED BY <1>2, <1>4, <1>5, <2>1, <2>2, StoreAssumption DEF CallInv, NoExpiry
<1>7. /\ records' = [records EXCEPT ![c] = next]
      /\ leases' = [leases EXCEPT ![c] = lease]
      /\ expires' = [expires EXCEPT ![c] = NoExpiry]
      /\ now' = now
  BY <1>2, PointwiseInv DEF Claim
<1> QED BY <1>6, <1>7, OneCallStep

LEMMA RenewInv ==
  ASSUME IInv, NEW c \in CallIDs, NEW o \in Owners, NEW r, NEW f, Renew(c, o, r, f)
  PROVE  IInv'
<1> DEFINE lease == [leases[c] EXCEPT !.ttl = LeaseDuration]
<1>1. leases[c] \in LeaseRecord
  BY PointwiseInv DEF CallInv
<1>2. leases[c].owner = o /\ lease.owner = o
  BY <1>1 DEF Renew, RenewGranted, LeaseNames, LeaseRecord
<1>3. CallInv(records[c], lease, expires[c])
  BY <1>1, <1>2, PointwiseInv, StoreAssumption DEF CallInv, LeaseRecord
<1>4. /\ records' = [records EXCEPT ![c] = records[c]]
      /\ leases' = [leases EXCEPT ![c] = lease]
      /\ expires' = [expires EXCEPT ![c] = expires[c]]
      /\ now' = now
  BY PointwiseInv DEF Renew
<1> QED BY <1>3, <1>4, OneCallStep

LEMMA ReleaseInv ==
  ASSUME IInv, NEW c \in CallIDs, NEW o \in Owners, NEW r, NEW f, Release(c, o, r, f)
  PROVE  IInv'
<1>1. CallInv(records[c], NoLease, expires[c])
  BY PointwiseInv, StoreAssumption, MaxUint64Assumption
     DEF CallInv, NoLease, LeaseRecord
<1>2. /\ records' = [records EXCEPT ![c] = records[c]]
      /\ leases' = [leases EXCEPT ![c] = NoLease]
      /\ expires' = [expires EXCEPT ![c] = expires[c]]
      /\ now' = now
  BY PointwiseInv DEF Release
<1> QED BY <1>1, <1>2, OneCallStep

LEMMA TransitionInv ==
  ASSUME IInv, NEW c \in CallIDs, NEW o, NEW t, TypedTransition(t),
         Accepts(records[c], t), NEW e \in {NoExpiry, Retention},
         Transition(c, o, records[c], Apply(records[c], t), e)
  PROVE  IInv'
<1> DEFINE next == Apply(records[c], t)
           lease == IF next.status = "running"
                    THEN [leases[c] EXCEPT !.revision = next.revision,
                                           !.fence = next.fence]
                    ELSE NoLease
<1>1. next \in Snapshot /\ next.frameFloor <= 1 /\ CallInv(next, NoLease, NoExpiry)
  BY AppliedCall
<1>2. /\ records[c] \in Snapshot /\ leases[c] \in LeaseRecord
      /\ CallInv(records[c], leases[c], expires[c])
  BY PointwiseInv DEF CallInv
<1>3. next.revision = records[c].revision + 1
  BY <1>2, ApplyFields
<1>4. e # NoExpiry => Terminal(next.status)
  BY DEF Transition, ExpiryAllowed
<1>5. CallInv(next, lease, e)
  <2>1. CASE next.status = "running"
    <3>1. lease \in LeaseRecord
      BY <1>1, <1>2, <2>1 DEF LeaseRecord, Snapshot
    <3>2. /\ lease.owner = leases[c].owner /\ lease.ttl = leases[c].ttl
          /\ lease.previousRevision = leases[c].previousRevision
          /\ lease.revision = next.revision /\ lease.fence = next.fence
      BY <1>2, <2>1 DEF LeaseRecord
    <3>3. lease.owner # NoOwner \/ lease.ttl > 0 =>
            /\ lease.owner # NoOwner
            /\ lease.previousRevision < lease.revision
      BY <1>2, <1>3, <3>2 DEF CallInv, Snapshot, LeaseRecord
    <3>4. e = NoExpiry
      BY <1>4, <2>1 DEF Terminal
    <3>5. ~(next.frameFloor > 1)
      BY <1>1, MaxUint64Assumption DEF Snapshot
    <3> HIDE DEF lease, next
    <3> QED BY <1>1, <2>1, <3>1, <3>2, <3>3, <3>4, <3>5 DEF CallInv
  <2>2. CASE next.status # "running"
    BY <1>1, <1>4, <2>2, StoreAssumption DEF CallInv
  <2> QED BY <2>1, <2>2
<1>6. /\ records' = [records EXCEPT ![c] = next]
      /\ leases' = [leases EXCEPT ![c] = lease]
      /\ expires' = [expires EXCEPT ![c] = e]
      /\ now' = now
  BY DEF Transition, ExpiryAllowed
<1> QED BY <1>5, <1>6, OneCallStep

LEMMA CommandInv ==
  ASSUME IInv, NEW c \in CallIDs, NEW t, TypedTransition(t), NEW r, Command(c, t, r)
  PROVE  IInv'
<1>1. /\ CallInv(Apply(records[c], t), NoLease, NoExpiry)
      /\ expires[c] = NoExpiry
  BY AppliedCall DEF Command
<1>2. /\ records' = [records EXCEPT ![c] = Apply(records[c], t)]
      /\ leases' = [leases EXCEPT ![c] = NoLease]
      /\ expires' = [expires EXCEPT ![c] = NoExpiry]
      /\ now' = now
  BY <1>1, PointwiseInv DEF Command
<1> QED BY <1>1, <1>2, OneCallStep

LEMMA PruneType ==
  ASSUME NEW s \in Snapshot, NEW floor \in 1..MaxUint64
  PROVE  /\ PruneSnapshot(s, floor) \in Snapshot
         /\ PruneSnapshot(s, floor).status = s.status
         /\ PruneSnapshot(s, floor).revision = s.revision
         /\ PruneSnapshot(s, floor).fence = s.fence
         /\ PruneSnapshot(s, floor).sequence = s.sequence
<1>1. CASE floor <= s.frameFloor
  BY <1>1 DEF PruneSnapshot
<1>2. CASE ~(floor <= s.frameFloor)
  <2> DEFINE kept == SubSeq(s.frames, floor - s.frameFloor + 1, Len(s.frames))
  <2>1. s.frames \in Seq(Frame) /\ s.frameFloor \in Int /\ floor \in Int
    BY MaxUint64Assumption DEF Snapshot
  <2>2. floor - s.frameFloor + 1 \in Int /\ floor - s.frameFloor + 1 >= 1
    BY <1>2, <2>1
  <2>3. kept \in Seq(Frame)
    BY <2>1, <2>2
  <2>4. floor \in 0..MaxUint64 + 1
    BY MaxUint64Assumption
  <2>5. PruneSnapshot(s, floor) = [s EXCEPT !.frameFloor = floor, !.frames = kept]
    BY <1>2 DEF PruneSnapshot
  <2> HIDE DEF kept
  <2> QED BY <2>3, <2>4, <2>5 DEF Snapshot
<1> QED BY <1>1, <1>2

LEMMA PruneInv ==
  ASSUME IInv, NEW c \in CallIDs, NEW floor \in 1..MaxUint64, PruneFrames(c, floor)
  PROVE  IInv'
<1> DEFINE pruned == PruneSnapshot(records[c], floor)
<1>1. records[c] \in Snapshot /\ CallInv(records[c], leases[c], expires[c])
  BY PointwiseInv DEF CallInv
<1>2. /\ pruned \in Snapshot
      /\ pruned.status = records[c].status
      /\ pruned.revision = records[c].revision
      /\ pruned.fence = records[c].fence
  BY <1>1, PruneType
<1>3. Terminal(pruned.status)
  BY <1>2 DEF PruneFrames
<1> HIDE DEF pruned
<1>4. CallInv(pruned, leases[c], expires[c])
  BY <1>1, <1>2, <1>3 DEF CallInv
<1>5. /\ records' = [records EXCEPT ![c] = pruned]
      /\ leases' = [leases EXCEPT ![c] = leases[c]]
      /\ expires' = [expires EXCEPT ![c] = expires[c]]
      /\ now' = now
  BY PointwiseInv DEF PruneFrames, pruned
<1> QED BY <1>4, <1>5, OneCallStep

LEMMA ExpireInv ==
  ASSUME IInv, NEW c \in CallIDs, Expire(c, records[c].revision)
  PROVE  IInv'
<1> DEFINE next == Apply(records[c], Expired(records[c]))
<1>1. records[c] \in Snapshot
  BY PointwiseInv DEF CallInv
<1>2. CallInv(next, NoLease, NoExpiry)
  BY <1>1, ExpiredTyped, AppliedCall DEF Expire
<1>3. Terminal(next.status)
  <2>1. next.status = Expired(records[c]).status
    BY <1>1, ApplyFields
  <2> QED BY <2>1 DEF Expired, Move, Terminal
<1>4. /\ records' = [records EXCEPT ![c] = next]
      /\ leases' = [leases EXCEPT ![c] = NoLease]
      /\ expires' = [expires EXCEPT ![c] = Retention]
      /\ now' = now
  BY DEF Expire
<1> HIDE DEF next
<1>5. CallInv(next, NoLease, Retention)
  BY <1>2, <1>3, StoreAssumption DEF CallInv
<1> QED BY <1>4, <1>5, OneCallStep

LEMMA DeleteInv ==
  ASSUME IInv, NEW limit, DeleteExpired(limit)
  PROVE  IInv'
<1>1. CallInv(NoSnapshot, NoLease, NoExpiry)
  BY FreshCall, NewSnapshotType DEF NoSnapshot
<1>2. \A c \in CallIDs : CallInv(records[c], leases[c], expires[c])
  BY PointwiseInv
<1>3. ASSUME NEW d \in CallIDs
      PROVE  CallInv(records'[d], leases'[d], expires'[d])
  BY <1>1, <1>2 DEF DeleteExpired
<1>4. /\ records' = [d \in CallIDs |-> records'[d]]
      /\ leases' = [d \in CallIDs |-> leases'[d]]
      /\ expires' = [d \in CallIDs |-> expires'[d]]
      /\ now' \in 1..MaxTime
  BY PointwiseInv DEF DeleteExpired
<1> QED
  BY <1>3, <1>4 DEF IInv, TypeOK, LeaseCoversRecord, PrunedIsTerminal,
                    ExpiryIsTerminal, CallInv, LeaseActive

LEMMA TickInv ==
  ASSUME IInv, Tick
  PROVE  IInv'
<1>1. ASSUME NEW d \in CallIDs
      PROVE  CallInv(records'[d], leases'[d], expires'[d])
  <2>1. CallInv(records[d], leases[d], expires[d]) /\ records'[d] = records[d]
    BY PointwiseInv DEF Tick
  <2>2. leases'[d] = [leases[d] EXCEPT !.ttl = IF @ > 0 THEN @ - 1 ELSE 0]
    BY DEF Tick
  <2>3. expires'[d] \in {NoExpiry} \cup 0..Retention
        /\ (expires'[d] # NoExpiry => expires[d] # NoExpiry)
    BY <2>1, StoreAssumption DEF CallInv, NoExpiry, Tick
  <2>4. /\ leases'[d] \in LeaseRecord
        /\ leases'[d].owner = leases[d].owner
        /\ leases'[d].revision = leases[d].revision
        /\ leases'[d].fence = leases[d].fence
        /\ leases'[d].previousRevision = leases[d].previousRevision
        /\ leases'[d].ttl > 0 => leases[d].ttl > 0
    BY <2>1, <2>2, StoreAssumption DEF CallInv, LeaseRecord
  <2> QED BY <2>1, <2>3, <2>4 DEF CallInv
<1>2. /\ records' = [d \in CallIDs |-> records'[d]]
      /\ leases' = [d \in CallIDs |-> leases'[d]]
      /\ expires' = [d \in CallIDs |-> expires'[d]]
      /\ now' \in 1..MaxTime
  BY PointwiseInv, StoreAssumption DEF Tick
<1> QED
  BY <1>1, <1>2 DEF IInv, TypeOK, LeaseCoversRecord, PrunedIsTerminal,
                    ExpiryIsTerminal, CallInv, LeaseActive

LEMMA StutterInv ==
  ASSUME IInv, UNCHANGED vars
  PROVE  IInv'
BY DEF IInv, vars, TypeOK, LeaseCoversRecord, PrunedIsTerminal, ExpiryIsTerminal,
       LeaseActive

LEMMA NextInv ==
  ASSUME IInv, [Next]_vars
  PROVE  IInv'
<1>1. CASE ClientCreate
  <2>1. PICK c \in CallIDs : \/ Create(c, NewSnapshot)
                             \/ \E input \in Payloads : Create(c, NewSnapshotWithInput(input))
    BY <1>1 DEF ClientCreate
  <2>2. CASE Create(c, NewSnapshot)
    <3>1. NewSnapshot.frameFloor = 1
      BY DEF NewSnapshot
    <3> QED BY <2>2, <3>1, NewSnapshotType, CreateInv
  <2>3. CASE \E input \in Payloads : Create(c, NewSnapshotWithInput(input))
    <3>1. PICK input \in Payloads : Create(c, NewSnapshotWithInput(input))
      BY <2>3
    <3>2. NewSnapshotWithInput(input).frameFloor = 1
      BY DEF NewSnapshotWithInput, NewSnapshot
    <3> QED BY <3>1, <3>2, NewSnapshotType, CreateInv
  <2> QED BY <2>1, <2>2, <2>3
<1>2. CASE ClientTransition
  <2>1. PICK c \in CallIDs, o \in Owners \cup {NoOwner}, t \in Transitions,
             e \in {NoExpiry, Retention} :
           Accepts(records[c], t) /\ Transition(c, o, records[c], Apply(records[c], t), e)
    BY <1>2 DEF ClientTransition
  <2>2. TypedTransition(t)
    BY TransitionsAssumption DEF TypedTransition
  <2> QED BY <2>1, <2>2, TransitionInv
<1>3. CASE ClientCommand
  <2>1. PICK c \in CallIDs, id \in Commands, p \in Payloads :
           \/ Command(c, Signal(id, p), records[c].revision)
           \/ Command(c, Cancel(id, p), records[c].revision)
    BY <1>3 DEF ClientCommand, SubmitSignal, RequestCancel
  <2> QED BY <2>1, CommandTyped, CommandInv
<1>4. CASE ClientClaim
  BY <1>4, AcquireInv, ClaimInv DEF ClientClaim
<1>5. CASE ClientLease
  BY <1>5, RenewInv, ReleaseInv DEF ClientLease
<1>6. CASE ClientAdmin
  BY <1>6, PruneInv, ExpireInv, DeleteInv DEF ClientAdmin
<1>7. CASE Tick
  BY <1>7, TickInv
<1>8. CASE UNCHANGED vars
  BY <1>8, StutterInv
<1> QED BY <1>1, <1>2, <1>3, <1>4, <1>5, <1>6, <1>7, <1>8 DEF Next

(* Whatever its clients do, the store keeps its types, every lease names the
   current revision and fence of a call in execution, only terminal calls are
   pruned and only terminal calls have a retention deadline. *)
THEOREM StoreSafety == Spec => []IInv
<1>1. Init => IInv
  BY InitInv
<1>2. IInv /\ [Next]_vars => IInv'
  BY NextInv
<1> QED BY <1>1, <1>2, PTL DEF Spec

(* memory.Store.Claim, Transition, Renew and Release: the lease of a call is
   never out of step with the record it protects. *)
THEOREM LeaseCoversRecordHolds == Spec => []LeaseCoversRecord
<1>1. IInv => LeaseCoversRecord
  BY DEF IInv
<1> QED BY <1>1, StoreSafety, PTL

(* The type invariant of the store. *)
THEOREM StoreTypeOK == Spec => []TypeOK
<1>1. IInv => TypeOK
  BY DEF IInv
<1> QED BY <1>1, StoreSafety, PTL

-----------------------------------------------------------------------------
(* What one step may do to the record r of a call: nothing, a creation, one
   Apply (under the same fence while a lease is active), or, once the call is
   terminal, pruning and collection. *)
RecordStep(r, next, leased) ==
  \/ next = r
  \/ /\ r.status = "absent"
     /\ next = NewSnapshot \/ \E input \in Payloads : next = NewSnapshotWithInput(input)
  \/ \E t : /\ TypedTransition(t) /\ Accepts(r, t) /\ next = Apply(r, t)
            /\ leased => NextFence(r, t) = r.fence
  \/ /\ Terminal(r.status)
     /\ \/ next = NoSnapshot
        \/ \E floor \in 1..MaxUint64 : PruneAccepts(r, floor) /\ next = PruneSnapshot(r, floor)

LEMMA CommandKeepsFence ==
  ASSUME NEW r, NEW id, NEW p
  PROVE  /\ NextFence(r, Signal(id, p)) = r.fence
         /\ NextFence(r, Cancel(id, p)) = r.fence
BY DEF NextFence, Signal, Cancel, Move

LEMMA StepOfRecord ==
  ASSUME IInv, [Next]_vars, NEW c \in CallIDs
  PROVE  RecordStep(records[c], records'[c], LeaseActive(c))
<1>0. /\ records = [d \in CallIDs |-> records[d]]
      /\ \A d \in CallIDs : CallInv(records[d], leases[d], expires[d])
      /\ \A d \in CallIDs : records[d] \in Snapshot
  BY PointwiseInv DEF CallInv
<1>1. CASE ClientCreate
  <2>0. PICK d \in CallIDs : Create(d, NewSnapshot)
                               \/ \E input \in Payloads : Create(d, NewSnapshotWithInput(input))
    BY <1>1 DEF ClientCreate
  <2>1. PICK s :
           /\ ~Exists(d)
           /\ records' = [records EXCEPT ![d] = s]
           /\ s = NewSnapshot \/ \E input \in Payloads : s = NewSnapshotWithInput(input)
    BY <2>0 DEF Create
  <2>2. CASE d = c
    BY <1>0, <2>1, <2>2 DEF RecordStep, Exists
  <2>3. CASE d # c
    BY <1>0, <2>1, <2>3 DEF RecordStep
  <2> QED BY <2>2, <2>3
<1>2. CASE ClientTransition
  <2>1. PICK d \in CallIDs, o \in Owners \cup {NoOwner}, t \in Transitions,
             e \in {NoExpiry, Retention} :
           Accepts(records[d], t) /\ Transition(d, o, records[d], Apply(records[d], t), e)
    BY <1>2 DEF ClientTransition
  <2>2. records' = [records EXCEPT ![d] = Apply(records[d], t)]
    BY <2>1 DEF Transition
  <2>3. CASE d = c
    <3>1. TypedTransition(t)
      BY TransitionsAssumption DEF TypedTransition
    <3>2. records'[c] = Apply(records[c], t)
      BY <1>0, <2>2, <2>3
    <3>3. NextFence(records[c], t) = records[c].fence
      <4>1. Apply(records[c], t).fence = records[c].fence
        BY <2>1, <2>3 DEF Transition, TransitionGranted, ValidSuccessor
      <4> QED BY <1>0, <4>1, ApplyFields
    <3> QED BY <2>1, <2>3, <3>1, <3>2, <3>3 DEF RecordStep
  <2>4. CASE d # c
    BY <1>0, <2>2, <2>4 DEF RecordStep
  <2> QED BY <2>3, <2>4
<1>3. CASE ClientCommand
  <2>0. PICK d \in CallIDs, id \in Commands, p \in Payloads :
           \/ Command(d, Signal(id, p), records[d].revision)
           \/ Command(d, Cancel(id, p), records[d].revision)
    BY <1>3 DEF ClientCommand, SubmitSignal, RequestCancel
  <2>1. PICK t \in {Signal(id, p), Cancel(id, p)} : Command(d, t, records[d].revision)
    BY <2>0
  <2>2. TypedTransition(t) /\ Accepts(records[d], t)
        /\ records' = [records EXCEPT ![d] = Apply(records[d], t)]
    BY <2>1, CommandTyped DEF Command
  <2>3. NextFence(records[d], t) = records[d].fence
    BY <2>1, CommandKeepsFence
  <2>4. CASE d = c
    BY <1>0, <2>2, <2>3, <2>4 DEF RecordStep
  <2>5. CASE d # c
    BY <1>0, <2>2, <2>5 DEF RecordStep
  <2> QED BY <2>4, <2>5
<1>4. CASE ClientClaim
  <2>1. PICK d \in CallIDs :
           /\ ~LeaseActive(d)
           /\ \/ records' = records
              \/ Claimable(d) /\ records' = [records EXCEPT ![d] =
                                     Apply(records[d], Owned(records[d]))]
    BY <1>0, <1>4 DEF ClientClaim, Acquire, Claim, ClaimGranted
  <2>2. CASE d = c /\ Claimable(d)
              /\ records' = [records EXCEPT ![d] = Apply(records[d], Owned(records[d]))]
    BY <1>0, <2>1, <2>2, OwnedTyped DEF RecordStep, Claimable
  <2>3. CASE d # c
    BY <1>0, <2>1, <2>3 DEF RecordStep
  <2>4. CASE records' = records
    BY <2>4 DEF RecordStep
  <2> QED BY <2>1, <2>2, <2>3, <2>4
<1>5. CASE ClientLease \/ Tick \/ UNCHANGED vars
  <2>1. records' = records
    BY <1>5 DEF ClientLease, Renew, Release, Tick, vars
  <2> QED BY <2>1 DEF RecordStep
<1>6. CASE ClientAdmin
  <2>1. CASE \E d \in CallIDs, floor \in 1..MaxUint64 : PruneFrames(d, floor)
    <3>1. PICK d \in CallIDs, floor \in 1..MaxUint64 : PruneFrames(d, floor)
      BY <2>1
    <3>2. CASE d = c
      BY <1>0, <3>1, <3>2 DEF PruneFrames, RecordStep
    <3>3. CASE d # c
      BY <1>0, <3>1, <3>3 DEF PruneFrames, RecordStep
    <3> QED BY <3>2, <3>3
  <2>2. CASE \E d \in CallIDs : Expire(d, records[d].revision)
    <3>1. PICK d \in CallIDs : Expire(d, records[d].revision)
      BY <2>2
    <3>2. CASE d = c
      <4>1. /\ Accepts(records[c], Expired(records[c]))
            /\ records'[c] = Apply(records[c], Expired(records[c]))
        BY <1>0, <3>1, <3>2 DEF Expire
      <4>2. NextFence(records[c], Expired(records[c])) = records[c].fence
        BY DEF NextFence, Expired, Move
      <4> QED BY <1>0, <4>1, <4>2, ExpiredTyped DEF RecordStep
    <3>3. CASE d # c
      BY <1>0, <3>1, <3>3 DEF Expire, RecordStep
    <3> QED BY <3>2, <3>3
  <2>3. CASE \E limit \in Limits : DeleteExpired(limit)
    <3>1. \/ records'[c] = records[c]
          \/ Terminal(records[c].status) /\ records'[c] = NoSnapshot
      BY <2>3 DEF DeleteExpired, Smallest, Elapsed
    <3> QED BY <3>1 DEF RecordStep
  <2> QED BY <1>6, <2>1, <2>2, <2>3 DEF ClientAdmin
<1> QED BY <1>1, <1>2, <1>3, <1>4, <1>5, <1>6 DEF Next

-----------------------------------------------------------------------------
(* Status.Terminal: a terminal call changes only by being collected. *)
THEOREM TerminalIsFinalHolds == Spec => TerminalIsFinal
<1>1. ASSUME IInv, [Next]_vars, NEW c \in CallIDs, Terminal(records[c].status)
      PROVE  \/ records'[c] = NoSnapshot
             \/ /\ records'[c].status = records[c].status
                /\ records'[c].revision = records[c].revision
                /\ records'[c].fence = records[c].fence
                /\ records'[c].sequence = records[c].sequence
  <2>1. RecordStep(records[c], records'[c], LeaseActive(c))
    BY <1>1, StepOfRecord
  <2>2. \A t : ~Accepts(records[c], t)
    BY <1>1, Zenon DEF Accepts
  <2>3. records[c] \in Snapshot /\ records[c].status # "absent"
    BY <1>1, PointwiseInv DEF CallInv, Terminal
  <2>4. CASE records'[c] = records[c]
    BY <2>4
  <2>5. CASE \E floor \in 1..MaxUint64 : records'[c] = PruneSnapshot(records[c], floor)
    BY <2>3, <2>5, PruneType
  <2>6. \/ records'[c] = records[c]
        \/ records'[c] = NoSnapshot
        \/ \E floor \in 1..MaxUint64 : records'[c] = PruneSnapshot(records[c], floor)
    BY <2>1, <2>2, <2>3, Zenon DEF RecordStep
  <2> QED BY <2>4, <2>5, <2>6
<1>2. IInv /\ [Next]_vars =>
        [\A c \in CallIDs : Terminal(records[c].status) =>
           \/ records'[c] = NoSnapshot
           \/ /\ records'[c].status = records[c].status
              /\ records'[c].revision = records[c].revision
              /\ records'[c].fence = records[c].fence
              /\ records'[c].sequence = records[c].sequence]_vars
  BY <1>1
<1> QED BY <1>2, StoreSafety, PTL DEF Spec, TerminalIsFinal

(* memory.Store.Claim and Acquire: no fence is granted while a lease runs. *)
THEOREM LeaseExcludesHolds == Spec => LeaseExcludes
<1>1. ASSUME IInv, [Next]_vars, NEW c \in CallIDs, LeaseActive(c)
      PROVE  records'[c].fence = records[c].fence
  <2>1. RecordStep(records[c], records'[c], LeaseActive(c))
    BY <1>1, StepOfRecord
  <2>2. records[c] \in Snapshot /\ records[c].status \in {"running", "cancel_requested"}
    BY <1>1, PointwiseInv DEF CallInv, LeaseActive
  <2>3. ~Terminal(records[c].status) /\ records[c].status # "absent"
    BY <2>2 DEF Terminal
  <2>4. CASE records'[c] = records[c]
    BY <2>4
  <2>5. CASE \E t : records'[c] = Apply(records[c], t)
                   /\ NextFence(records[c], t) = records[c].fence
    BY <2>2, <2>5, ApplyFields
  <2> QED BY <1>1, <2>1, <2>3, <2>4, <2>5, Zenon DEF RecordStep
<1>2. IInv /\ [Next]_vars =>
        [\A c \in CallIDs : LeaseActive(c) => records'[c].fence = records[c].fence]_vars
  BY <1>1
<1> QED BY <1>2, StoreSafety, PTL DEF Spec, LeaseExcludes

(* allowedTransition: a recorded cancellation is never overtaken. *)
THEOREM CancelIsStickyHolds == Spec => CancelIsSticky
<1>1. ASSUME IInv, [Next]_vars, NEW c \in CallIDs,
             records[c].status = "cancel_requested"
      PROVE  records'[c].status \in {"cancel_requested", "canceled", "failed", "expired"}
  <2>1. RecordStep(records[c], records'[c], LeaseActive(c))
    BY <1>1, StepOfRecord
  <2>2. records[c] \in Snapshot
    BY <1>1, PointwiseInv DEF CallInv
  <2>3. ~Terminal(records[c].status)
    BY <1>1 DEF Terminal
  <2>4. CASE \E t : TypedTransition(t) /\ Accepts(records[c], t)
                   /\ records'[c] = Apply(records[c], t)
    <3>1. PICK t : TypedTransition(t) /\ Accepts(records[c], t)
                   /\ records'[c] = Apply(records[c], t)
      BY <2>4
    <3>2. AllowedTransition("cancel_requested", t.status, t.command)
      BY <1>1, <3>1, Zenon DEF Accepts
    <3>3. t.status \in {"cancel_requested", "canceled", "failed", "expired"}
      BY <3>2 DEF AllowedTransition, ExecutorMoves
    <3> QED BY <2>2, <3>1, <3>3, ApplyFields
  <2>5. CASE records'[c] = records[c]
    BY <1>1, <2>5
  <2>6. records[c].status # "absent"
    BY <1>1
  <2> QED BY <2>1, <2>3, <2>4, <2>5, <2>6, Zenon DEF RecordStep
<1>2. IInv /\ [Next]_vars =>
        [\A c \in CallIDs : records[c].status = "cancel_requested" =>
           records'[c].status \in {"cancel_requested", "canceled", "failed", "expired"}]_vars
  BY <1>1
<1> QED BY <1>2, StoreSafety, PTL DEF Spec, CancelIsSticky

-----------------------------------------------------------------------------
LEMMA ConcatTail ==
  ASSUME NEW S, NEW p \in Seq(S), NEW q \in Seq(S), NEW i \in 1..Len(q)
  PROVE  (p \o q)[Len(p) + i] = q[i]
<1>1. /\ Len(p) \in Nat /\ Len(q) \in Nat
      /\ \A k \in 1..Len(p) + Len(q) :
           (p \o q)[k] = IF k <= Len(p) THEN p[k] ELSE q[k - Len(p)]
  BY LenProperties, ConcatProperties
<1>2. \A m, n \in Nat : \A k \in 1..n :
        m + k \in 1..m + n /\ ~(m + k <= m) /\ (m + k) - m = k
  OBVIOUS
<1>3. Len(p) + i \in 1..Len(p) + Len(q) /\ ~(Len(p) + i <= Len(p)) /\ (Len(p) + i) - Len(p) = i
  BY <1>1, <1>2, Zenon
<1> QED BY <1>1, <1>3, Zenon

(* The frames of Apply's result: the old ones, then the new ones numbered   *)
(* from the old sequence on.                                                *)
LEMMA AppliedFrames ==
  ASSUME NEW s \in Snapshot, NEW t, TypedTransition(t), Accepts(s, t)
  PROVE  /\ Apply(s, t).sequence = s.sequence + Len(t.frames)
         /\ Len(Apply(s, t).frames) = Len(s.frames) + Len(t.frames)
         /\ \A i \in 1..Len(s.frames) : Apply(s, t).frames[i] = s.frames[i]
         /\ \A i \in 1..Len(t.frames) :
              Apply(s, t).frames[Len(s.frames) + i] =
                [t.frames[i] EXCEPT !.sequence = s.sequence + i]
<1>1. s.frames \in Seq(Frame) /\ t.frames \in Seq(Frame)
  BY DEF Snapshot, TypedTransition
<1>2. s.sequence + Len(t.frames) <= MaxUint64
  BY Zenon DEF Accepts, NoOverflow
<1>3. /\ Sequenced(s, t.frames) \in Seq(Frame)
      /\ Len(Sequenced(s, t.frames)) = Len(t.frames)
  BY <1>1, <1>2, SequencedType
<1>4. /\ Apply(s, t).frames = s.frames \o Sequenced(s, t.frames)
      /\ Apply(s, t).sequence = s.sequence + Len(t.frames)
  BY DEF Apply, Snapshot
<1>5. \A i \in 1..Len(t.frames) :
        Sequenced(s, t.frames)[i] = [t.frames[i] EXCEPT !.sequence = s.sequence + i]
  BY <1>1 DEF Sequenced
<1>6. /\ Len(s.frames \o Sequenced(s, t.frames)) = Len(s.frames) + Len(t.frames)
      /\ \A i \in 1..Len(s.frames) : (s.frames \o Sequenced(s, t.frames))[i] = s.frames[i]
  <2>1. Len(s.frames) \in Nat /\ Len(t.frames) \in Nat
    BY <1>1, LenProperties
  <2>2. \A m, n \in Nat : \A k \in 1..m : k \in 1..m + n /\ k <= m
    OBVIOUS
  <2> DEFINE new == Sequenced(s, t.frames)
  <2>3. /\ Len(s.frames \o new) = Len(s.frames) + Len(new)
        /\ \A i \in 1..Len(s.frames) + Len(new) : (s.frames \o new)[i] =
             IF i <= Len(s.frames) THEN s.frames[i] ELSE new[i - Len(s.frames)]
    BY <1>1, <1>3, ConcatProperties
  <2>4. Len(new) = Len(t.frames)
    BY <1>3
  <2> HIDE DEF new
  <2> QED BY <2>1, <2>2, <2>3, <2>4 DEF new
<1>7. ASSUME NEW i \in 1..Len(t.frames)
      PROVE  (s.frames \o Sequenced(s, t.frames))[Len(s.frames) + i]
               = Sequenced(s, t.frames)[i]
  <2>1. i \in 1..Len(Sequenced(s, t.frames))
    BY <1>3
  <2> QED BY <1>1, <1>3, <2>1, ConcatTail
<1> QED BY <1>4, <1>5, <1>6, <1>7, Zenon

LEMMA ApplyValid ==
  ASSUME NEW s \in Snapshot, NEW t, TypedTransition(t), Accepts(s, t), ValidSnapshot(s)
  PROVE  ValidSnapshot(Apply(s, t))
<1> DEFINE next == Apply(s, t)
<1>1. next \in Snapshot
  BY ApplyType
<1>2. /\ next.status \in Status /\ next.revision = s.revision + 1
      /\ next.frameFloor = s.frameFloor
      /\ next.readyAt # 0 => next.status = "suspended"
  BY DEF Apply, Snapshot, TypedTransition
<1>3. /\ next.sequence = s.sequence + Len(t.frames)
      /\ Len(next.frames) = Len(s.frames) + Len(t.frames)
      /\ \A i \in 1..Len(s.frames) : next.frames[i] = s.frames[i]
      /\ \A i \in 1..Len(t.frames) :
           next.frames[Len(s.frames) + i] = [t.frames[i] EXCEPT !.sequence = s.sequence + i]
  BY AppliedFrames
<1>4. /\ s.frames \in Seq(Frame) /\ t.frames \in Seq(Frame)
      /\ s.sequence \in Nat /\ s.frameFloor \in Nat /\ s.revision \in Nat
      /\ next.frames \in Seq(Frame)
      /\ Len(s.frames) \in Nat /\ Len(t.frames) \in Nat
      /\ DOMAIN s.frames = 1..Len(s.frames) /\ DOMAIN t.frames = 1..Len(t.frames)
      /\ DOMAIN next.frames = 1..Len(next.frames)
  <2>1. s.frames \in Seq(Frame) /\ t.frames \in Seq(Frame) /\ next.frames \in Seq(Frame)
    BY <1>1 DEF Snapshot, TypedTransition
  <2>2. s.sequence \in Nat /\ s.frameFloor \in Nat /\ s.revision \in Nat
    BY MaxUint64Assumption DEF Snapshot
  <2> QED BY <2>1, <2>2, LenProperties
<1>5. /\ s.revision # 0 /\ s.frameFloor # 0
      /\ s.frameFloor <= s.sequence + 1
      /\ s.sequence - s.frameFloor + 1 = Len(s.frames)
      /\ \A i \in DOMAIN s.frames :
           /\ s.frames[i].sequence = s.frameFloor + i - 1
           /\ s.frames[i].kind = "accepted" => s.frames[i].sequence = 1
  BY DEF ValidSnapshot
<1>6. \A i \in DOMAIN t.frames : t.frames[i].kind # "accepted"
  BY Zenon DEF Accepts
<1> HIDE DEF next
<1>7. ASSUME NEW i \in DOMAIN next.frames
      PROVE  /\ next.frames[i].sequence = next.frameFloor + i - 1
             /\ next.frames[i].kind = "accepted" => next.frames[i].sequence = 1
  <2>1. i \in 1..(Len(s.frames) + Len(t.frames))
    BY <1>3, <1>4
  <2>2. CASE i <= Len(s.frames)
    <3>1. i \in 1..Len(s.frames) /\ i \in DOMAIN s.frames
      BY <1>4, <2>1, <2>2
    <3>2. next.frames[i] = s.frames[i]
      BY <1>3, <3>1
    <3> QED BY <1>2, <1>5, <3>1, <3>2
  <2>3. CASE i > Len(s.frames)
    <3> DEFINE j == i - Len(s.frames)
    <3>1. j \in 1..Len(t.frames) /\ i = Len(s.frames) + j /\ j \in DOMAIN t.frames
      <4>1. \A m, n \in Nat : \A k \in 1..m + n :
              k > m => k - m \in 1..n /\ k = m + (k - m)
        OBVIOUS
      <4> QED BY <1>4, <2>1, <2>3, <4>1, Zenon
    <3>2. next.frames[i] = [t.frames[j] EXCEPT !.sequence = s.sequence + j]
      BY <1>3, <3>1
    <3>3. t.frames[j] \in Frame /\ t.frames[j].kind # "accepted"
      BY <1>4, <1>6, <3>1
    <3>4. next.frames[i].sequence = s.sequence + j /\ next.frames[i].kind = t.frames[j].kind
      BY <3>2, <3>3 DEF Frame
    <3>5. s.sequence + j = s.frameFloor + i - 1
      <4>2. s.sequence \in Int /\ s.frameFloor \in Int /\ Len(s.frames) \in Int /\ j \in Int
        BY <1>4, <3>1
      <4>3. s.sequence - s.frameFloor + 1 = Len(s.frames) /\ i = Len(s.frames) + j
        BY <1>5, <3>1
      <4> HIDE DEF j
      <4> QED BY <4>2, <4>3
    <3> QED BY <1>2, <3>3, <3>4, <3>5
  <2> QED BY <1>4, <2>1, <2>2, <2>3
<1>8. next.sequence - next.frameFloor + 1 = Len(next.frames)
      /\ next.frameFloor <= next.sequence + 1
  <2>2. /\ next.sequence = s.sequence + Len(t.frames)
        /\ next.frameFloor = s.frameFloor
        /\ Len(next.frames) = Len(s.frames) + Len(t.frames)
    BY <1>2, <1>3
  <2>3. /\ s.sequence \in Nat /\ s.frameFloor \in Nat
        /\ Len(s.frames) \in Nat /\ Len(t.frames) \in Nat
        /\ s.sequence - s.frameFloor + 1 = Len(s.frames)
    BY <1>4, <1>5
  <2> DEFINE q == s.sequence  f == s.frameFloor  m == Len(s.frames)  n == Len(t.frames)
  <2>4. q \in Nat /\ f \in Nat /\ m \in Nat /\ n \in Nat /\ q - f + 1 = m
    BY <2>3
  <2>5. next.sequence = q + n /\ next.frameFloor = f /\ Len(next.frames) = m + n
    BY <2>2
  <2> HIDE DEF q, f, m, n
  <2>6. (q + n) - f + 1 = m + n /\ f <= (q + n) + 1
    BY <2>4
  <2> QED BY <2>5, <2>6, Zenon
<1>9. next.revision # 0 /\ next.revision # 1
  BY <1>2, <1>4, <1>5
<1> QED BY <1>2, <1>5, <1>7, <1>8, <1>9 DEF ValidSnapshot, next

LEMMA PruneValid ==
  ASSUME NEW s \in Snapshot, ValidSnapshot(s), Terminal(s.status),
         NEW floor \in 1..MaxUint64, PruneAccepts(s, floor)
  PROVE  ValidSnapshot(PruneSnapshot(s, floor))
<1>1. CASE floor <= s.frameFloor
  BY <1>1 DEF PruneSnapshot
<1>2. CASE ~(floor <= s.frameFloor)
  <2> DEFINE pruned == PruneSnapshot(s, floor)
             q == s.sequence  f == s.frameFloor  m == Len(s.frames)
             d == floor - f
             kept == SubSeq(s.frames, d + 1, m)
  <2>1. /\ q \in Nat /\ f \in Nat /\ floor \in Nat /\ s.frames \in Seq(Frame)
        /\ m \in Nat /\ DOMAIN s.frames = 1..m
    BY MaxUint64Assumption, LenProperties DEF Snapshot
  <2>2. /\ f # 0 /\ f <= q + 1 /\ q - f + 1 = m
        /\ \A i \in 1..m : /\ s.frames[i].sequence = f + i - 1
                           /\ s.frames[i].kind = "accepted" => s.frames[i].sequence = 1
        /\ s.revision # 0 /\ s.revision # 1
        /\ s.status \in Status /\ (s.readyAt # 0 => s.status = "suspended")
    BY <2>1 DEF ValidSnapshot, Terminal
  <2>3. floor <= q + 1
    BY <2>1, MaxUint64Assumption DEF PruneAccepts
  <2>4. /\ pruned.status = s.status /\ pruned.readyAt = s.readyAt
        /\ pruned.revision = s.revision /\ pruned.sequence = q
        /\ pruned.frameFloor = floor /\ pruned.frames = kept
    BY <1>2 DEF PruneSnapshot, Snapshot
  <2>5. d \in Nat /\ d >= 1 /\ d <= m
    <3> HIDE DEF q, m
    <3> QED BY <1>2, <2>1, <2>2, <2>3 DEF f
  <2>6. /\ Len(kept) = m - d
        /\ \A i \in 1..m - d : kept[i] = s.frames[d + i]
        /\ kept \in Seq(Frame)
    <3>1. \A i \in d + 1..m : s.frames[i] \in Frame
      BY <2>1, <2>5
    <3>2. /\ Len(kept) = IF d + 1 <= m THEN m - (d + 1) + 1 ELSE 0
          /\ \A i \in 1..m - (d + 1) + 1 : kept[i] = s.frames[(d + 1) + i - 1]
          /\ kept \in Seq(Frame)
      <4> DEFINE lo == d + 1  fr == s.frames
      <4>1. lo \in Int /\ m \in Int /\ \A i \in lo..m : fr[i] \in Frame
        BY <2>1, <2>5, <3>1
      <4> HIDE DEF lo, m, fr
      <4>2. /\ SubSeq(fr, lo, m) \in Seq(Frame)
            /\ Len(SubSeq(fr, lo, m)) = IF lo <= m THEN m - lo + 1 ELSE 0
            /\ \A i \in 1..m - lo + 1 : SubSeq(fr, lo, m)[i] = fr[lo + i - 1]
        BY <4>1, SubSeqProperties
      <4> QED BY <4>2 DEF lo, fr
    <3> HIDE DEF kept, d, m
    <3> QED BY <2>1, <2>5, <3>2
  <2>7. ASSUME NEW i \in DOMAIN kept
        PROVE  /\ kept[i].sequence = floor + i - 1
               /\ kept[i].kind = "accepted" => kept[i].sequence = 1
    <3>1. i \in 1..m - d
      <4> HIDE DEF kept, d, m
      <4> QED BY <2>6, LenProperties
    <3>2. d + i \in 1..m /\ f + (d + i) - 1 = floor + i - 1
      <4> HIDE DEF m, kept, f
      <4> QED BY <2>1, <2>5, <3>1
    <3>3. kept[i] = s.frames[d + i]
      BY <2>6, <3>1
    <3> DEFINE j == d + i
    <3>4. /\ s.frames[j].sequence = f + j - 1
          /\ s.frames[j].kind = "accepted" => s.frames[j].sequence = 1
      <4>1. j \in 1..m
        BY <3>2
      <4> HIDE DEF j, f, m
      <4> QED BY <2>2, <4>1
    <3> HIDE DEF kept, d, f, m
    <3> QED BY <3>2, <3>3, <3>4
  <2>8. q - floor + 1 = Len(kept)
    <3> HIDE DEF q, m, kept, f
    <3> QED BY <2>1, <2>2, <2>6
  <2> HIDE DEF kept, q, f, m, d, pruned
  <2> QED BY <2>1, <2>2, <2>3, <2>4, <2>7, <2>8 DEF ValidSnapshot, pruned
<1> QED BY <1>1, <1>2

LEMMA NewSnapshotValid ==
  /\ ValidSnapshot(NewSnapshot)
  /\ \A input \in Payloads : ValidSnapshot(NewSnapshotWithInput(input))
<1>1. ValidSnapshot(NewSnapshot)
  BY DEF ValidSnapshot, NewSnapshot, Status
<1>2. ASSUME NEW input \in Payloads
      PROVE  ValidSnapshot(NewSnapshotWithInput(input))
  BY DEF ValidSnapshot, NewSnapshot, NewSnapshotWithInput, Status
<1> QED BY <1>1, <1>2

LEMMA StoredValidStep ==
  ASSUME IInv, StoredValid, [Next]_vars
  PROVE  StoredValid'
<1> SUFFICES ASSUME NEW c \in CallIDs, Exists(c)'
             PROVE  ValidSnapshot(records'[c])
  BY DEF StoredValid, ValidSnapshot
<1>1. records[c] \in Snapshot
  BY PointwiseInv DEF CallInv
<1>2. records'[c].status # "absent"
  BY DEF Exists
<1>3. Exists(c) => ValidSnapshot(records[c])
  BY DEF StoredValid
<1>4. RecordStep(records[c], records'[c], LeaseActive(c))
  BY StepOfRecord
<1>5. CASE records'[c] = records[c]
  BY <1>2, <1>3, <1>5 DEF Exists
<1>6. CASE records'[c] = NewSnapshot \/ \E input \in Payloads :
                                            records'[c] = NewSnapshotWithInput(input)
  BY <1>6, NewSnapshotValid
<1>7. CASE \E t : TypedTransition(t) /\ Accepts(records[c], t)
                    /\ records'[c] = Apply(records[c], t)
  <2>1. PICK t : TypedTransition(t) /\ Accepts(records[c], t)
                    /\ records'[c] = Apply(records[c], t)
    BY <1>7
  <2>2. AllowedTransition(records[c].status, t.status, t.command)
    BY <2>1, Zenon DEF Accepts
  <2>3. Exists(c)
    BY <2>2 DEF AllowedTransition, ExecutorMoves, Exists
  <2> QED BY <1>1, <1>3, <2>1, <2>3, ApplyValid
<1>8. CASE Terminal(records[c].status) /\ \E floor \in 1..MaxUint64 :
              PruneAccepts(records[c], floor) /\ records'[c] = PruneSnapshot(records[c], floor)
  <2>1. Exists(c)
    BY <1>8 DEF Terminal, Exists
  <2> QED BY <1>1, <1>3, <1>8, <2>1, PruneValid
<1>9. records'[c] # NoSnapshot
  BY <1>2 DEF NoSnapshot
<1> QED BY <1>4, <1>5, <1>6, <1>7, <1>8, <1>9 DEF RecordStep

(* Every snapshot the store holds passes validateSnapshot, whatever the
   callers of Create, Claim, Transition, the commands and the administration
   do and in whatever order. *)
THEOREM StoredValidHolds == Spec => []StoredValid
<1>1. Init => StoredValid
  BY DEF Init, StoredValid, Exists, NoSnapshot
<1>2. IInv /\ StoredValid /\ [Next]_vars => StoredValid'
  BY StoredValidStep
<1> QED BY <1>1, <1>2, StoreSafety, PTL DEF Spec

LEMMA AppliedLog ==
  ASSUME NEW s \in Snapshot, NEW t, TypedTransition(t), Accepts(s, t)
  PROVE  /\ Len(Apply(s, t).frames) >= Len(s.frames)
         /\ \A i \in DOMAIN s.frames : Apply(s, t).frames[i] = s.frames[i]
<1> DEFINE m == Len(s.frames)  n == Len(t.frames)  log == Apply(s, t).frames
<1>1. m \in Nat /\ n \in Nat /\ DOMAIN s.frames = 1..m
  BY LenProperties DEF TypedTransition, Snapshot
<1>2. Len(log) = m + n /\ \A i \in 1..m : log[i] = s.frames[i]
  BY AppliedFrames, Zenon
<1> HIDE DEF m, n, log
<1>3. Len(log) >= m /\ \A i \in DOMAIN s.frames : log[i] = s.frames[i]
  BY <1>1, <1>2
<1> QED BY <1>3 DEF m, log

(* A live call's log is only ever extended at its end. *)
THEOREM LogAppendOnlyHolds == Spec => LogAppendOnly
<1>1. ASSUME IInv, [Next]_vars, NEW c \in CallIDs, Exists(c), ~Terminal(records[c].status)
      PROVE  /\ Len(records'[c].frames) >= Len(records[c].frames)
             /\ \A i \in DOMAIN records[c].frames :
                  records'[c].frames[i] = records[c].frames[i]
  <2>1. records[c] \in Snapshot
    BY <1>1, PointwiseInv DEF CallInv
  <2>2. /\ records[c].frames \in Seq(Frame)
        /\ Len(records[c].frames) \in Nat
        /\ DOMAIN records[c].frames = 1..Len(records[c].frames)
    BY <2>1, LenProperties DEF Snapshot
  <2>3. RecordStep(records[c], records'[c], LeaseActive(c))
    BY <1>1, StepOfRecord
  <2>4. CASE records'[c] = records[c]
    BY <2>2, <2>4
  <2>5. CASE \E t : TypedTransition(t) /\ Accepts(records[c], t)
                      /\ records'[c] = Apply(records[c], t)
    <3>1. PICK t : TypedTransition(t) /\ Accepts(records[c], t)
                      /\ records'[c] = Apply(records[c], t)
      BY <2>5
    <3>2. /\ Len(Apply(records[c], t).frames) >= Len(records[c].frames)
          /\ \A i \in DOMAIN records[c].frames :
               Apply(records[c], t).frames[i] = records[c].frames[i]
      BY <2>1, <3>1, AppliedLog
    <3> QED BY <3>1, <3>2
  <2> QED BY <1>1, <2>3, <2>4, <2>5 DEF RecordStep, Exists
<1>2. IInv /\ [Next]_vars =>
        [\A c \in CallIDs : Exists(c) /\ ~Terminal(records[c].status) =>
           /\ Len(records'[c].frames) >= Len(records[c].frames)
           /\ \A i \in DOMAIN records[c].frames :
                records'[c].frames[i] = records[c].frames[i]]_vars
  BY <1>1
<1> QED BY <1>2, StoreSafety, PTL DEF Spec, LogAppendOnly
=============================================================================
