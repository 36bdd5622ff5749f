---------------------------- MODULE DurableCall ----------------------------
(***************************************************************************)
(* What a continuation store promises a client about a call, without       *)
(* leases, fences, commands or clocks: a call has one history.  It starts, *)
(* its log grows at the end while it lives, it ends once, then its oldest  *)
(* frames may go, and finally the whole call is gone and its identity free *)
(* again.  A change of the call is visible as a higher version, so two     *)
(* readers that saw the same version of a call saw the same call.          *)
(***************************************************************************)
EXTENDS Naturals, Sequences

CONSTANT Calls

VARIABLE call   \* phase, version, first retained sequence and log of each call

Absent == [phase |-> "absent", version |-> 0, first |-> 0, log |-> << >>]

Started(k) ==
  k.phase = "live" /\ k.version = 1 /\ k.first = 1 /\ Len(k.log) <= 1

(* The log is extended; the call lives on or ends. *)
Extended(k, next) ==
  /\ k.phase = "live" /\ next.phase \in {"live", "ended"}
  /\ next.version = k.version + 1
  /\ next.first = k.first
  /\ Len(next.log) >= Len(k.log)
  /\ \A i \in 1..Len(k.log) : next.log[i] = k.log[i]

(* An ended call loses its oldest frames and nothing else. *)
Trimmed(k, next) ==
  /\ k.phase = "ended" /\ next.phase = "ended"
  /\ next.version = k.version
  /\ next.first > k.first
  /\ Len(next.log) = Len(k.log) - (next.first - k.first)
  /\ \A i \in 1..Len(next.log) : next.log[i] = k.log[i + (next.first - k.first)]

Evolves(k, next) ==
  \/ next = k
  \/ k.phase = "absent" /\ Started(next)
  \/ Extended(k, next)
  \/ Trimmed(k, next)
  \/ k.phase = "ended" /\ next = Absent

Init == call = [c \in Calls |-> Absent]

Next == \A c \in Calls : Evolves(call[c], call'[c])

Spec == Init /\ [][Next]_call
=============================================================================
