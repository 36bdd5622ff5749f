------------------------------ MODULE OwnedScheduler ------------------------------
(***************************************************************************)
(* worker/owned.Scheduler: the replicas of a scheduled job, each of which  *)
(* is triggered by its own clock and runs its handler only under the lease *)
(* of the job.                                                             *)
(*                                                                         *)
(* A coordinator that breaks its contract with a nil lease or a fence of 0 *)
(* is answered like one that fails, and is not a case of its own here.     *)
(***************************************************************************)
EXTENDS Coordination

CONSTANTS
  Replicas,      \* Scheduler instances
  Key,           \* Config.Key
  MaxFence,      \* bound: last fence handed out
  MaxIncidents   \* bound: lost leases, failed calls of the coordinator

ASSUME OwnedAssumption ==
  /\ Key \in Keys
  /\ MaxFence \in Nat /\ MaxIncidents \in Nat

VARIABLES
  runs,        \* runOwned of every replica
  acks,        \* fences under which a handler ran and was acknowledged
  lost,        \* fences whose lease ended before it was released
  kept,        \* fences whose Release failed
  incidents    \* incidents so far

ownedVars == <<leases, fences, runs, acks, lost, kept, incidents>>

(* lost is the deferred function's variable of that name, ctx whether      *)
(* ownedCtx was canceled.                                                  *)
NoRun == [pc |-> "idle", fence |-> 0, ctx |-> "live", result |-> "", lost |-> FALSE]

TypeOKOwned ==
  /\ CoordinationTypeOK
  /\ incidents \in 0..MaxIncidents
  /\ acks \cup lost \cup kept \subseteq 1..fences[Key]
  /\ \A r \in Replicas :
       /\ runs[r].pc \in {"idle", "handler", "recover", "release"}
       /\ runs[r].fence \in 0..fences[Key]
       /\ runs[r].pc = "idle" <=> runs[r].fence = 0

OwnedInit ==
  /\ CoordinationInit
  /\ runs = [r \in Replicas |-> NoRun]
  /\ acks = {} /\ lost = {} /\ kept = {}
  /\ incidents = 0

Become(r, local) == runs' = [runs EXCEPT ![r] = local]

Incident == incidents < MaxIncidents /\ incidents' = incidents + 1

Alive(r) == LeaseLive(Key, runs[r].fence)

-----------------------------------------------------------------------------
(* The schedule fires.  A replica that finds the lease taken acknowledges  *)
(* the execution, one whose coordinator fails rejects it: neither keeps    *)
(* anything.                                                               *)
Admit(r) ==
  /\ runs[r].pc = "idle"
  /\ fences[Key] < MaxFence
  /\ TryAcquire(Key, fences[Key] + 1)
  /\ Become(r, [NoRun EXCEPT !.pc = "handler", !.fence = fences[Key] + 1])
  /\ UNCHANGED <<acks, lost, kept, incidents>>

(* The goroutine that cancels the handler of a lost lease. *)
Watch(r) ==
  /\ runs[r].pc = "handler" /\ runs[r].ctx = "live"
  /\ ~Alive(r)
  /\ Become(r, [runs[r] EXCEPT !.ctx = "lost"])
  /\ UNCHANGED <<coordinationVars, acks, lost, kept, incidents>>

(* The handler ends; one that was canceled need not notice. *)
Handler(r) ==
  /\ runs[r].pc = "handler"
  /\ \E result \in {"ack", "nack", "panic"} :
       Become(r, [runs[r] EXCEPT !.pc = "recover", !.result = result])
  /\ UNCHANGED <<coordinationVars, acks, lost, kept, incidents>>

(* Mutant: a panic leaves at once, before the lease is released. *)
RecoverEscapes(r) ==
  /\ runs[r].pc = "recover"
  /\ Become(r, IF runs[r].result = "panic" THEN NoRun
               ELSE [runs[r] EXCEPT !.pc = "release", !.lost = ~Alive(r)])
  /\ UNCHANGED <<coordinationVars, acks, lost, kept, incidents>>

(* The deferred function reads lease.Err. *)
Recover(r) ==
  /\ runs[r].pc = "recover"
  /\ Become(r, [runs[r] EXCEPT !.pc = "release", !.lost = ~Alive(r)])
  /\ UNCHANGED <<coordinationVars, acks, lost, kept, incidents>>

(* Mutant: what Release says is ignored. *)
SettledBlind(r) ==
  IF runs[r].lost /\ runs[r].result # "panic" THEN "nack" ELSE runs[r].result

(* The result once Release has answered: ErrLeaseLost counts, too. *)
Settled(r) ==
  IF (runs[r].lost \/ ~Alive(r)) /\ runs[r].result # "panic" THEN "nack"
  ELSE runs[r].result

Acknowledge(r) ==
  acks' = IF Settled(r) = "ack" THEN acks \cup {runs[r].fence} ELSE acks

Return(r) ==
  /\ runs[r].pc = "release"
  /\ Release(Key, runs[r].fence)
  /\ Acknowledge(r)
  /\ Become(r, NoRun)
  /\ UNCHANGED <<lost, kept, incidents>>

(* Release fails for another reason than ErrLeaseLost, for instance by     *)
(* ReleaseTimeout: the result is that of the handler, and a lease that is  *)
(* still in place stays until the coordinator gives it up.                 *)
ReleaseFails(r) ==
  /\ runs[r].pc = "release"
  /\ Incident
  /\ acks' = IF SettledBlind(r) = "ack" THEN acks \cup {runs[r].fence} ELSE acks
  /\ kept' = kept \cup {runs[r].fence}
  /\ Become(r, NoRun)
  /\ UNCHANGED <<coordinationVars, lost>>

(* External: a lease is lost under its holder, or expires without one. *)
Orphaned == leases[Key] # 0 /\ \A r \in Replicas : runs[r].fence # leases[Key]

LeaseEnds ==
  /\ Lose(Key)
  /\ IF Orphaned THEN UNCHANGED <<lost, incidents>>
     ELSE Incident /\ lost' = lost \cup {leases[Key]}
  /\ UNCHANGED <<runs, acks, kept>>

Progress(r) == Handler(r) \/ Recover(r) \/ Return(r)

OwnedNext ==
  \/ \E r \in Replicas : Admit(r) \/ Watch(r) \/ Progress(r) \/ ReleaseFails(r)
  \/ LeaseEnds

OwnedSpec == OwnedInit /\ [][OwnedNext]_ownedVars

-----------------------------------------------------------------------------
(* An execution is acknowledged only when its lease was held until it was
   released: a loss that comes after the deferred function has looked at
   lease.Err, and before Release, is not missed.  It is when Release cannot
   tell, because it fails itself. *)
AckedHeldLease == acks \cap lost \subseteq kept

(* The lease does not outlive its execution unless Release failed: a panic
   releases it as well. *)
LeaseAccounted == Orphaned => leases[Key] \in kept

(* Two replicas run the job at the same time only after the earlier of them
   lost its lease: in particular a replica that releases late, when its lease
   has already passed to another one, does not free the job for a third
   execution. *)
OverlapNeedsLoss ==
  \A r, s \in Replicas :
    /\ runs[r].pc = "handler" /\ runs[s].pc = "handler"
    /\ runs[r].fence < runs[s].fence
    => runs[r].fence \in lost

(* What holds of the leases of a job at every moment. *)
OwnedInv == TypeOKOwned /\ LeaseAccounted
=============================================================================
