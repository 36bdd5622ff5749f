------------------------------- MODULE Coordination -------------------------------
(***************************************************************************)
(* coordination.Coordinator: leases on stable keys, each with a fence, the *)
(* ownership generation of its key.                                        *)
(*                                                                         *)
(* TryAcquire and Release are those of coordination/memory, which never    *)
(* loses a lease.  Lose is the part of the Lease contract that a           *)
(* distributed coordinator adds: ownership may end at any time before      *)
(* Release, which the holder learns later, through Done.                   *)
(***************************************************************************)
EXTENDS Naturals

CONSTANTS Keys   \* the keys leases are taken on

VARIABLES
  leases,   \* the fence of the live lease of a key, 0 when there is none
  fences    \* the last fence given out for a key

coordinationVars == <<leases, fences>>

CoordinationTypeOK ==
  /\ leases \in [Keys -> Nat]
  /\ fences \in [Keys -> Nat]

CoordinationInit ==
  /\ leases = [k \in Keys |-> 0]
  /\ fences = [k \in Keys |-> 0]

Contended(key) == leases[key] # 0

(* acquired = true, with the fence of the new lease. *)
TryAcquire(key, fence) ==
  /\ ~Contended(key)
  /\ fence = fences[key] + 1
  /\ fences' = [fences EXCEPT ![key] = fence]
  /\ leases' = [leases EXCEPT ![key] = fence]

LeaseLive(key, fence) == leases[key] = fence

(* Mutant: whatever lease the key has is removed. *)
ReleaseAny(key, fence) ==
  /\ leases' = [leases EXCEPT ![key] = 0]
  /\ UNCHANGED fences

(* Only the lease itself is removed, never a successor's. *)
Release(key, fence) ==
  /\ leases' = [leases EXCEPT ![key] = IF @ = fence THEN 0 ELSE @]
  /\ UNCHANGED fences

(* External: the coordinator ends the ownership of key. *)
Lose(key) ==
  /\ leases[key] # 0
  /\ leases' = [leases EXCEPT ![key] = 0]
  /\ UNCHANGED fences
=============================================================================
