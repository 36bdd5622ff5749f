---------------------------- MODULE ContinuationStore ----------------------------
(***************************************************************************)
(* programmable/continuation/memory.Store: the mutex-protected table of    *)
(* durable calls, their execution leases and their retention deadlines.    *)
(*                                                                         *)
(* Every exported method holds the mutex from its first read to its last   *)
(* write, so each is one action.  A call that returns an error without     *)
(* writing leaves the store as it was and is not an action of its own; the *)
(* runtimes that act on the error read the same conditions.                *)
(*                                                                         *)
(* Next lets any client call any method at any time with the arguments     *)
(* that pass its checks.  A Transition is applied to the stored snapshot:  *)
(* callers that computed theirs from an older one, and are refused, are    *)
(* the executors of ContinuationRuntime.  Deadlines are kept as the time   *)
(* left: the duration given at the write minus the ticks since.  A ttl of  *)
(* 0 is a deadline that is not after now.                                  *)
(***************************************************************************)
EXTENDS ContinuationState, FiniteSets

CONSTANTS
  CallIDs,        \* call identities, ordered as the code orders the strings
  Owners,         \* executor identities (Runtime.executorID)
  NoOwner,        \* the empty owner string
  Transitions,    \* executor-driven transitions a Machine may return
  LeaseDuration,  \* ticks from Claim or Renew to the lease deadline
  Retention,      \* ticks from a terminal commit to its ExpiresAt
  MaxTime,        \* the last instant of the modelled clock
  Limits          \* batch limits a DeleteExpired caller may pass

ASSUME StoreAssumption ==
  /\ CallIDs \subseteq Nat
  /\ NoOwner \notin Owners
  /\ LeaseDuration \in Nat \ {0}
  /\ Retention \in Nat \ {0}
  /\ MaxTime \in Nat \ {0}

ASSUME TransitionsAssumption ==
  \A t \in Transitions :
     /\ t.status \in Status
     /\ t.fence \in 0..MaxUint64
     /\ t.frames \in Seq(Frame)
     /\ t.readyAt \in Nat
     /\ t.timer \in BOOLEAN
     /\ t.command = ""

VARIABLES
  records,   \* the snapshot of every call, NoSnapshot when there is none
  leases,    \* the lease record of every call
  expires,   \* time left until ExpiresAt, or NoExpiry
  now        \* the store's clock

vars == <<records, leases, expires, now>>

NoLease == [owner |-> NoOwner, ttl |-> 0, revision |-> 0, fence |-> 0,
            previousRevision |-> 0]

NoExpiry == -1

LeaseRecord == [owner : Owners \cup {NoOwner}, ttl : 0..LeaseDuration,
                revision : 0..MaxUint64, fence : 0..MaxUint64,
                previousRevision : 0..MaxUint64]

TypeOK ==
  /\ records \in [CallIDs -> Snapshot]
  /\ leases \in [CallIDs -> LeaseRecord]
  /\ expires \in [CallIDs -> {NoExpiry} \cup 0..Retention]
  /\ now \in 1..MaxTime

Init ==
  /\ records = [c \in CallIDs |-> NoSnapshot]
  /\ leases = [c \in CallIDs |-> NoLease]
  /\ expires = [c \in CallIDs |-> NoExpiry]
  /\ now = 1

Exists(c) == records[c].status # "absent"

LeaseActive(c) == leases[c].ttl > 0

(* Mutants: calls an executor left behind, or whose cancellation is still to
   be carried out, are not listed. *)
ReadyForgetsRunning(status) == status \in {"accepted", "suspended", "cancel_requested"}

ReadyForgetsCancel(status) == status \in {"accepted", "running", "suspended"}

Ready(status) == status \in {"accepted", "running", "suspended", "cancel_requested"}

-----------------------------------------------------------------------------
Create(c, snapshot) ==
  /\ ~Exists(c)
  /\ records' = [records EXCEPT ![c] = snapshot]
  /\ UNCHANGED <<leases, expires, now>>

(* Acquire and Claim move a ready call under the next fence. *)
Owned(s) ==
  Move(IF s.status = "cancel_requested" THEN "cancel_requested" ELSE "running",
       s.fence + 1, << >>)

Claimable(c) ==
  /\ Ready(records[c].status)
  /\ TimerDue(records[c], now)
  /\ records[c].fence < MaxUint64
  /\ Accepts(records[c], Owned(records[c]))

(* An expired lease is dropped before the readiness checks, so it goes     *)
(* even when Acquire then reports that the call is not ready.              *)
Acquire(c, expectedRevision) ==
  /\ Exists(c)
  /\ records[c].revision = expectedRevision
  /\ ~LeaseActive(c)
  /\ leases' = [leases EXCEPT ![c] = NoLease]
  /\ records' = IF Claimable(c)
                THEN [records EXCEPT ![c] = Apply(@, Owned(@))]
                ELSE records
  /\ UNCHANGED <<expires, now>>

(* Mutant: a claim does not look for an active lease. *)
ClaimOverLease(c, expectedRevision) ==
  Exists(c) /\ records[c].revision = expectedRevision /\ Claimable(c)

ClaimGranted(c, expectedRevision) ==
  /\ Exists(c)
  /\ ~LeaseActive(c)
  /\ records[c].revision = expectedRevision
  /\ Claimable(c)

(* The same owner repeating its claim gets the current snapshot back. *)
ClaimRepeated(c, owner, expectedRevision) ==
  /\ Exists(c)
  /\ LeaseActive(c)
  /\ leases[c].owner = owner
  /\ leases[c].previousRevision = expectedRevision

(* ErrLeaseHeld, ErrConflict or ErrNotReady: another executor was faster. *)
ClaimOvertaken(c, owner, expectedRevision) ==
  /\ Exists(c)
  /\ IF LeaseActive(c) THEN ~ClaimRepeated(c, owner, expectedRevision)
     ELSE \/ records[c].revision # expectedRevision
          \/ ~Ready(records[c].status)

Claim(c, owner, expectedRevision) ==
  /\ ClaimGranted(c, expectedRevision)
  /\ LET next == Apply(records[c], Owned(records[c]))
     IN /\ records' = [records EXCEPT ![c] = next]
        /\ leases' = [leases EXCEPT ![c] =
             [owner |-> owner, ttl |-> LeaseDuration, revision |-> next.revision,
              fence |-> next.fence, previousRevision |-> expectedRevision]]
  /\ UNCHANGED <<expires, now>>

LeaseNames(c, owner, revision, fence) ==
  /\ leases[c].owner = owner
  /\ leases[c].revision = revision
  /\ leases[c].fence = fence

RenewGranted(c, owner, revision, fence) ==
  Exists(c) /\ LeaseNames(c, owner, revision, fence) /\ LeaseActive(c)

Renew(c, owner, revision, fence) ==
  /\ RenewGranted(c, owner, revision, fence)
  /\ leases' = [leases EXCEPT ![c].ttl = LeaseDuration]
  /\ UNCHANGED <<records, expires, now>>

(* Release does not look at the deadline. *)
ReleaseGranted(c, owner, revision, fence) ==
  Exists(c) /\ LeaseNames(c, owner, revision, fence)

Release(c, owner, revision, fence) ==
  /\ ReleaseGranted(c, owner, revision, fence)
  /\ leases' = [leases EXCEPT ![c] = NoLease]
  /\ UNCHANGED <<records, expires, now>>

-----------------------------------------------------------------------------
(***************************************************************************)
(* Transition commits next, which its caller derived from base, the        *)
(* snapshot whose revision and fence it passes.                            *)
(***************************************************************************)
(* Mutant: the frames the caller started from are not compared. *)
SuccessorByNumber(current, next, fence) ==
  /\ next.revision = current.revision + 1
  /\ next.fence = fence
  /\ next.sequence >= current.sequence

ValidSuccessor(current, next, fence) ==
  /\ next.revision = current.revision + 1
  /\ next.fence = fence
  /\ next.sequence >= current.sequence
  /\ Len(next.frames) >= Len(current.frames)
  /\ \A i \in DOMAIN current.frames : next.frames[i] = current.frames[i]
  /\ \A i \in (Len(current.frames) + 1)..Len(next.frames) :
       next.frames[i].sequence = i

LeaseHolds(c, owner, base) ==
  IF owner = NoOwner THEN ~LeaseActive(c)
  ELSE LeaseNames(c, owner, base.revision, base.fence) /\ LeaseActive(c)

(* Mutant: the lease's owner is checked, what it was granted for is not. *)
TransitionByOwner(c, owner, base, next) ==
  Exists(c) /\ leases[c].owner = owner /\ LeaseActive(c)

TransitionGranted(c, owner, base, next) ==
  /\ base.revision # 0 /\ base.fence # 0
  /\ Exists(c)
  /\ LeaseHolds(c, owner, base)
  /\ base.fence = records[c].fence
  /\ base.revision = records[c].revision
  /\ ValidSuccessor(records[c], next, base.fence)

(* expiry is the time left to ExpiresAt, NoExpiry for the zero time. *)
ExpiryAllowed(next, expiry) == expiry # NoExpiry => Terminal(next.status)

Transition(c, owner, base, next, expiry) ==
  /\ TransitionGranted(c, owner, base, next)
  /\ ExpiryAllowed(next, expiry)
  /\ records' = [records EXCEPT ![c] = next]
  /\ expires' = [expires EXCEPT ![c] = expiry]
  /\ leases' = [leases EXCEPT ![c] =
       IF next.status = "running"
       THEN [@ EXCEPT !.revision = next.revision, !.fence = next.fence]
       ELSE NoLease]
  /\ UNCHANGED now

(* Mutant: a command leaves the executor's lease in place. *)
CommandKeepsLease(c, t, expectedRevision) ==
  /\ Exists(c)
  /\ Accepts(records[c], t)
  /\ records[c].revision = expectedRevision
  /\ records' = [records EXCEPT ![c] = Apply(@, t)]
  /\ UNCHANGED <<leases, expires, now>>

(* SubmitSignal and RequestCancel.  A command that is recorded already is   *)
(* recognised before the revision is compared, and changes nothing.        *)
Command(c, t, expectedRevision) ==
  /\ Exists(c)
  /\ Accepts(records[c], t)
  /\ records[c].revision = expectedRevision
  /\ records' = [records EXCEPT ![c] = Apply(@, t)]
  /\ leases' = [leases EXCEPT ![c] = NoLease]
  /\ UNCHANGED <<expires, now>>

SubmitSignal(c, id, payload, expectedRevision) ==
  Command(c, Signal(id, payload), expectedRevision)

RequestCancel(c, id, payload, expectedRevision) ==
  Command(c, Cancel(id, payload), expectedRevision)

(* ListReady: at most limit executable calls, the smallest first. *)
Executable == {c \in CallIDs : /\ Ready(records[c].status)
                               /\ TimerDue(records[c], now)
                               /\ ~LeaseActive(c)}

Smallest(S, limit) == {c \in S : Cardinality({d \in S : d < c}) < limit}

ListReady(limit) == Smallest(Executable, limit)

-----------------------------------------------------------------------------
(* Administration (memory/admin.go). *)
PruneFrames(c, floor) ==
  /\ Terminal(records[c].status)
  /\ PruneAccepts(records[c], floor)
  /\ records' = [records EXCEPT ![c] = PruneSnapshot(@, floor)]
  /\ UNCHANGED <<leases, expires, now>>

Expired(s) == Move("expired", s.fence, <<NewFrame("expired", NoPayload)>>)

Expire(c, expectedRevision) ==
  /\ Exists(c)
  /\ ~Terminal(records[c].status)
  /\ records[c].revision = expectedRevision
  /\ Accepts(records[c], Expired(records[c]))
  /\ records' = [records EXCEPT ![c] = Apply(@, Expired(@))]
  /\ expires' = [expires EXCEPT ![c] = Retention]
  /\ leases' = [leases EXCEPT ![c] = NoLease]
  /\ UNCHANGED now

Elapsed == {c \in CallIDs : Terminal(records[c].status) /\ expires[c] = 0}

DeleteExpired(limit) ==
  LET keys == Smallest(Elapsed, limit)
  IN /\ keys # {}
     /\ records' = [c \in CallIDs |-> IF c \in keys THEN NoSnapshot ELSE records[c]]
     /\ leases' = [c \in CallIDs |-> IF c \in keys THEN NoLease ELSE leases[c]]
     /\ expires' = [c \in CallIDs |-> IF c \in keys THEN NoExpiry ELSE expires[c]]
     /\ UNCHANGED now

(* One unit of time.  The clock stops at MaxTime; deadlines keep running. *)
Tick ==
  /\ now' = IF now < MaxTime THEN now + 1 ELSE now
  /\ leases' = [c \in CallIDs |->
       [leases[c] EXCEPT !.ttl = IF @ > 0 THEN @ - 1 ELSE 0]]
  /\ expires' = [c \in CallIDs |->
       IF expires[c] > 0 THEN expires[c] - 1 ELSE expires[c]]
  /\ UNCHANGED records

-----------------------------------------------------------------------------
ClientCreate ==
  \E c \in CallIDs :
     \/ Create(c, NewSnapshot)
     \/ \E input \in Payloads : Create(c, NewSnapshotWithInput(input))

(* The direct result of Apply on the loaded revision, as CommitRequest     *)
(* requires of its callers.                                                *)
ClientTransition ==
  \E c \in CallIDs, o \in Owners \cup {NoOwner}, t \in Transitions :
     /\ Accepts(records[c], t)
     /\ \E expiry \in {NoExpiry, Retention} :
          Transition(c, o, records[c], Apply(records[c], t), expiry)

ClientCommand ==
  \E c \in CallIDs, id \in Commands, p \in Payloads :
     \/ SubmitSignal(c, id, p, records[c].revision)
     \/ RequestCancel(c, id, p, records[c].revision)

ClientClaim ==
  \E c \in CallIDs :
     \/ Acquire(c, records[c].revision)
     \/ \E o \in Owners : Claim(c, o, records[c].revision)

ClientLease ==
  \E c \in CallIDs, o \in Owners :
     \/ Renew(c, o, records[c].revision, records[c].fence)
     \/ Release(c, o, records[c].revision, records[c].fence)

ClientAdmin ==
  \/ \E c \in CallIDs : \/ \E floor \in 1..MaxUint64 : PruneFrames(c, floor)
                        \/ Expire(c, records[c].revision)
  \/ \E limit \in Limits : DeleteExpired(limit)

Next ==
  \/ ClientCreate
  \/ ClientTransition
  \/ ClientCommand
  \/ ClientClaim
  \/ ClientLease
  \/ ClientAdmin
  \/ Tick

Spec == Init /\ [][Next]_vars

-----------------------------------------------------------------------------
(* Every stored snapshot passes validateSnapshot.  Apply, PruneSnapshot and
   NewCallSummary refuse a snapshot that does not, so a call stored in any
   other shape could never be advanced, listed or pruned again. *)
StoredValid == \A c \in CallIDs : Exists(c) => ValidSnapshot(records[c])

(* A lease always names the revision and the fence the record has now, and
   only calls in execution are leased: otherwise the holder of a live lease
   could never commit (Transition compares both) and the call would be hidden
   from ListReady for nothing. *)
LeaseCoversRecord ==
  \A c \in CallIDs : leases[c].owner # NoOwner \/ LeaseActive(c) =>
     /\ leases[c].owner # NoOwner
     /\ records[c].status \in {"running", "cancel_requested"}
     /\ leases[c].revision = records[c].revision
     /\ leases[c].fence = records[c].fence
     /\ leases[c].previousRevision < leases[c].revision

(* Frames are pruned from terminal calls only.  ValidSuccessor numbers new
   frames by their index, which is right only while nothing was pruned. *)
PrunedIsTerminal ==
  \A c \in CallIDs : records[c].frameFloor > 1 => Terminal(records[c].status)

(* Only terminal calls carry a retention deadline, so collection never
   removes a call that still runs. *)
ExpiryIsTerminal ==
  \A c \in CallIDs : expires[c] # NoExpiry => Terminal(records[c].status)

(* The inductive invariant of the store.  None of its conjuncts is inductive
   alone: a commit keeps LeaseCoversRecord only because the call it commits is
   not pruned or expired, and collection keeps it only because terminal calls
   are never leased. *)
IInv == TypeOK /\ LeaseCoversRecord /\ PrunedIsTerminal /\ ExpiryIsTerminal

(* A call that reached a terminal status keeps its status, revision, fence
   and sequence until it is collected as a whole. *)
TerminalIsFinal ==
  [][\A c \in CallIDs : Terminal(records[c].status) =>
       \/ records'[c] = NoSnapshot
       \/ /\ records'[c].status = records[c].status
          /\ records'[c].revision = records[c].revision
          /\ records'[c].fence = records[c].fence
          /\ records'[c].sequence = records[c].sequence]_vars

(* While a lease is active no other claim is granted: the fence, which every
   grant raises, stands still until the lease is over. *)
LeaseExcludes ==
  [][\A c \in CallIDs : LeaseActive(c) => records'[c].fence = records[c].fence]_vars

(* The durable log only grows at its end while a call lives: a frame that was
   once stored is never rewritten, reordered or dropped by a commit, a
   command, a claim or an expiry. *)
LogAppendOnly ==
  [][\A c \in CallIDs : Exists(c) /\ ~Terminal(records[c].status) =>
       /\ Len(records'[c].frames) >= Len(records[c].frames)
       /\ \A i \in DOMAIN records[c].frames :
            records'[c].frames[i] = records[c].frames[i]]_vars

(* A cancellation once recorded is never undone: whatever an executor that
   started before it still commits, the call does not complete, wait or run
   again. *)
CancelIsSticky ==
  [][\A c \in CallIDs : records[c].status = "cancel_requested" =>
       records'[c].status \in {"cancel_requested", "canceled", "failed", "expired"}]_vars

(* The abstract call: the part of a record that clients are promised. *)
Phase(status) == IF status = "absent" THEN "absent"
                 ELSE IF Terminal(status) THEN "ended" ELSE "live"

View(s) == [phase |-> Phase(s.status), version |-> s.revision,
            first |-> s.frameFloor, log |-> s.frames]

Durable == INSTANCE DurableCall WITH Calls <- CallIDs,
                                     call <- [c \in CallIDs |-> View(records[c])]

(* The store implements DurableCall: with leases that run out, commands that
   interrupt executors, pruning and collection, every call still has one
   history in which each version is written once. *)
ImplementsDurableCall == Durable!Spec
=============================================================================
