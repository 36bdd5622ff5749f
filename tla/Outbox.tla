---------------------------------- MODULE Outbox ----------------------------------
(***************************************************************************)
(* outbox.Dispatcher: dispatchers that claim rows of a shared repository   *)
(* in batches, publish them one after the other and settle each of them.   *)
(*                                                                         *)
(* The Repository is external, as its comment in outbox.go demands it: a   *)
(* claim excludes other owners until it expires and counts an attempt,     *)
(* settlements compare the owner.  All its calls may fail, before or after *)
(* they took effect.                                                       *)
(***************************************************************************)
EXTENDS Broker, Sequences, FiniteSets, SequencesExt

CONSTANTS
  Dispatchers,   \* Dispatcher instances, each with a Config.Owner of its own
  Invalid,       \* messages that Message.Validate rejects
  BatchSize,     \* Config.BatchSize of every dispatcher
  MaxAttempts,   \* Config.MaxAttempts
  MaxRows,       \* bound: messages enqueued
  MaxFailures    \* bound: failed calls, expired leases, crashes, stops

ASSUME OutboxAssumption ==
  /\ Invalid \subseteq Messages
  /\ BatchSize \in [Dispatchers -> Nat \ {0}] /\ MaxAttempts \in Nat \ {0}
  /\ MaxRows \in Nat /\ MaxFailures \in Nat

VARIABLES
  rows,          \* the repository
  dispatchers,   \* the run goroutine of every Dispatcher
  failures       \* failures so far

outboxVars == <<brokerVars, rows, dispatchers, failures>>

NoOwner == "none"

(* A row waits "delayed" until its retry time, then is "pending".  leased   *)
(* says that LeaseUntil has not passed; the owner stays on an expired row. *)
NoRow == [status |-> "absent", owner |-> NoOwner, leased |-> FALSE, attempts |-> 0]

(* batch holds the claimed messages not settled yet, each with the number  *)
(* of the attempt it was claimed for.  outcome is Publish's result.        *)
NoRun == [pc |-> "new", batch |-> <<>>, outcome |-> "", stop |-> FALSE,
          forced |-> FALSE]

TypeOKOutbox ==
  /\ BrokerTypeOK
  /\ failures \in 0..MaxFailures
  /\ \A m \in Messages :
       /\ rows[m].status \in {"absent", "pending", "delayed", "published", "failed"}
       /\ rows[m].leased => rows[m].owner # NoOwner /\ rows[m].status = "pending"
  /\ \A d \in Dispatchers :
       /\ dispatchers[d].pc \in {"new", "poll", "claim", "publish", "settle", "finished"}
       /\ Len(dispatchers[d].batch) <= BatchSize[d]
       /\ dispatchers[d].pc \in {"publish", "settle"} <=> dispatchers[d].batch # <<>>
       /\ dispatchers[d].forced => dispatchers[d].stop

OutboxInit ==
  /\ BrokerInit
  /\ rows = [m \in Messages |-> NoRow]
  /\ dispatchers = [d \in Dispatchers |-> NoRun]
  /\ failures = 0

Become(d, local) == dispatchers' = [dispatchers EXCEPT ![d] = local]

OutboxFail == failures < MaxFailures /\ failures' = failures + 1

(* Mutant: every replica is configured with the same owner. *)
OwnerShared(d) == "dispatcher"

Owner(d) == d

-----------------------------------------------------------------------------
(* External: the business transaction commits, and the row with it. *)
Enqueue(m) ==
  /\ rows[m].status = "absent"
  /\ Cardinality({n \in Messages : rows[n].status # "absent"}) < MaxRows
  /\ rows' = [rows EXCEPT ![m].status = "pending"]
  /\ UNCHANGED <<brokerVars, dispatchers, failures>>

(* External: the retry time of a row comes. *)
Due(m) ==
  /\ rows[m].status = "delayed"
  /\ rows' = [rows EXCEPT ![m].status = "pending"]
  /\ UNCHANGED <<brokerVars, dispatchers, failures>>

(* External: LeaseUntil of a claim passes.  A batch has one lease, which   *)
(* its later messages may outlive; nothing renews it.                      *)
Held(o) == {m \in Messages : rows[m].leased /\ rows[m].owner = o}

Working(o) == \E d \in Dispatchers : Owner(d) = o /\ dispatchers[d].batch # <<>>

LeasePasses(o) ==
  /\ Held(o) # {}
  /\ rows' = [m \in Messages |-> IF m \in Held(o)
                                 THEN [rows[m] EXCEPT !.leased = FALSE] ELSE rows[m]]
  /\ IF Working(o) THEN OutboxFail ELSE UNCHANGED failures
  /\ UNCHANGED <<brokerVars, dispatchers>>

Start(d) ==
  /\ dispatchers[d].pc = "new"
  /\ Become(d, [NoRun EXCEPT !.pc = "poll"])
  /\ UNCHANGED <<brokerVars, rows, failures>>

(* Mutant: the loop does not look at pollCtx. *)
PollForever(d) ==
  /\ dispatchers[d].pc = "poll"
  /\ Become(d, [dispatchers[d] EXCEPT !.pc = "claim"])
  /\ UNCHANGED <<brokerVars, rows, failures>>

(* The top of the loop in run, which is also where both waits end when     *)
(* pollCtx is canceled.                                                    *)
Poll(d) ==
  /\ dispatchers[d].pc = "poll"
  /\ Become(d, [dispatchers[d] EXCEPT !.pc = IF dispatchers[d].stop THEN "finished"
                                             ELSE "claim"])
  /\ UNCHANGED <<brokerVars, rows, failures>>

(* External: the rows a claim may take, and taking them. *)
Claimable == {m \in Messages : rows[m].status = "pending" /\ ~rows[m].leased}

Leased(batch, o) ==
  [m \in Messages |->
     IF m \in batch
     THEN [rows[m] EXCEPT !.owner = o, !.leased = TRUE, !.attempts = @ + 1]
     ELSE rows[m]]

(* External: the message as Claim returned it, with the attempt counted. *)
Claimed(m) == [message |-> m, attempts |-> rows[m].attempts + 1]

(* An empty claim waits for PollInterval and polls again. *)
Claim(d) ==
  /\ dispatchers[d].pc = "claim"
  /\ \E batch \in SUBSET Claimable :
       /\ Cardinality(batch) <= BatchSize[d]
       /\ batch = {} => Claimable = {}
       /\ rows' = Leased(batch, Owner(d))
       /\ \E order \in SetToSeqs(batch) :
            Become(d, [dispatchers[d] EXCEPT
                         !.pc = IF batch = {} THEN "poll" ELSE "publish",
                         !.batch = [i \in 1..Len(order) |-> Claimed(order[i])]])
  /\ UNCHANGED <<brokerVars, failures>>

(* Claim returns an error, which the repository may have reported after it *)
(* had leased the rows; the loop goes on, after ErrorDelay.                *)
ClaimFails(d) ==
  /\ dispatchers[d].pc = "claim"
  /\ OutboxFail
  /\ \E batch \in SUBSET Claimable :
       /\ Cardinality(batch) <= BatchSize[d]
       /\ rows' = Leased(batch, Owner(d))
  /\ Become(d, [dispatchers[d] EXCEPT !.pc = "poll"])
  /\ UNCHANGED brokerVars

(* The repository returns more than it was asked for: run ends with an     *)
(* error, and the rows stay leased.                                        *)
ClaimTooMany(d) ==
  /\ dispatchers[d].pc = "claim"
  /\ OutboxFail
  /\ \E batch \in SUBSET Claimable :
       /\ Cardinality(batch) = BatchSize[d] + 1
       /\ rows' = Leased(batch, Owner(d))
  /\ Become(d, [dispatchers[d] EXCEPT !.pc = "finished"])
  /\ UNCHANGED brokerVars

-----------------------------------------------------------------------------
Current(d) == Head(dispatchers[d].batch)

(* process: an invalid message is not published but failed at once. *)
Malformed(x) == x.message \in Invalid \/ x.attempts <= 0

Reject(d) ==
  /\ dispatchers[d].pc = "publish" /\ Malformed(Current(d))
  /\ Become(d, [dispatchers[d] EXCEPT !.pc = "settle", !.outcome = "invalid"])
  /\ UNCHANGED <<brokerVars, rows, failures>>

(* Mutant: a failed publish is settled like a successful one. *)
PublishAssumed(d) ==
  /\ dispatchers[d].pc = "publish" /\ ~Malformed(Current(d))
  /\ \/ Send(Current(d).message) /\ UNCHANGED failures
     \/ OutboxFail /\ UNCHANGED brokerVars
  /\ Become(d, [dispatchers[d] EXCEPT !.pc = "settle", !.outcome = "ok"])
  /\ UNCHANGED rows

(* Mutant: a publish that failed is tried again at once and fails again,
   without an attempt being settled. *)
PublishRetries(d) ==
  /\ dispatchers[d].pc = "publish" /\ ~Malformed(Current(d))
  /\ \/ /\ dispatchers[d].outcome = "" /\ Send(Current(d).message) /\ UNCHANGED failures
        /\ Become(d, [dispatchers[d] EXCEPT !.pc = "settle", !.outcome = "ok"])
     \/ /\ dispatchers[d].outcome = "" /\ OutboxFail /\ UNCHANGED brokerVars
        /\ Become(d, [dispatchers[d] EXCEPT !.outcome = "error"])
     \/ /\ dispatchers[d].outcome # "" /\ UNCHANGED <<brokerVars, failures>>
        /\ \E outcome \in {"error", "again"} \ {dispatchers[d].outcome} :
             Become(d, [dispatchers[d] EXCEPT !.outcome = outcome])
  /\ UNCHANGED rows

(* Publish succeeds; fails, by itself, by PublishTimeout, by a panic or    *)
(* because deliveryCtx is canceled; or fails after it has sent the message.*)
Publish(d) ==
  /\ dispatchers[d].pc = "publish" /\ ~Malformed(Current(d))
  /\ \E sends \in BOOLEAN, outcome \in {"ok", "error"} :
       /\ outcome = "ok" => sends
       /\ IF sends THEN Send(Current(d).message) ELSE UNCHANGED brokerVars
       /\ IF outcome = "ok" \/ dispatchers[d].forced THEN UNCHANGED failures
          ELSE OutboxFail
       /\ Become(d, [dispatchers[d] EXCEPT !.pc = "settle", !.outcome = outcome])
  /\ UNCHANGED rows

Exhausted(x) == x.attempts >= MaxAttempts

(* Complete, or Reschedule with its terminal flag. *)
Verdict(d) ==
  CASE dispatchers[d].outcome = "ok" -> "published"
    [] dispatchers[d].outcome = "invalid" -> "failed"
    [] OTHER -> IF Exhausted(Current(d)) THEN "failed" ELSE "delayed"

(* External: the repository settles a row for the owner it names. *)
SettleRow(m, o, verdict) ==
  rows' = IF rows[m].owner = o
          THEN [rows EXCEPT ![m].status = verdict, ![m].owner = NoOwner,
                            ![m].leased = FALSE]
          ELSE rows

(* The rest of the batch; a settlement's error is only counted. *)
Proceed(d) ==
  LET rest == Tail(dispatchers[d].batch)
  IN Become(d, [dispatchers[d] EXCEPT !.batch = rest, !.outcome = "",
                  !.pc = IF rest = <<>> THEN "poll" ELSE "publish"])

Settle(d) ==
  /\ dispatchers[d].pc = "settle"
  /\ SettleRow(Current(d).message, Owner(d), Verdict(d))
  /\ Proceed(d)
  /\ UNCHANGED <<brokerVars, failures>>

(* The settlement does not reach the repository. *)
SettleFails(d) ==
  /\ dispatchers[d].pc = "settle"
  /\ OutboxFail
  /\ Proceed(d)
  /\ UNCHANGED <<brokerVars, rows>>

-----------------------------------------------------------------------------
Running(d) == dispatchers[d].pc \notin {"new", "finished"}

(* Stop cancels pollCtx; when its context ends before done, deliveryCtx. *)
Stop(d) ==
  /\ Running(d) /\ ~dispatchers[d].stop
  /\ OutboxFail
  /\ Become(d, [dispatchers[d] EXCEPT !.stop = TRUE])
  /\ UNCHANGED <<brokerVars, rows>>

StopDeadline(d) ==
  /\ Running(d) /\ dispatchers[d].stop /\ ~dispatchers[d].forced
  /\ Become(d, [dispatchers[d] EXCEPT !.forced = TRUE])
  /\ UNCHANGED <<brokerVars, rows, failures>>

(* The process ends, by itself or after Stop; the next one has a new       *)
(* Dispatcher of the same owner.                                           *)
Crash(d) ==
  /\ Running(d)
  /\ OutboxFail
  /\ Become(d, NoRun)
  /\ UNCHANGED <<brokerVars, rows>>

Restart(d) ==
  /\ dispatchers[d].pc = "finished"
  /\ Become(d, NoRun)
  /\ UNCHANGED <<brokerVars, rows, failures>>

Work(d) ==
  \/ Start(d) \/ Poll(d) \/ Claim(d) \/ Reject(d) \/ Publish(d) \/ Settle(d)
  \/ Restart(d)

OutboxNext ==
  \/ \E m \in Messages : Enqueue(m) \/ Due(m)
  \/ \E d \in Dispatchers :
       \/ Work(d) \/ LeasePasses(Owner(d))
       \/ ClaimFails(d) \/ ClaimTooMany(d) \/ SettleFails(d)
       \/ Stop(d) \/ StopDeadline(d) \/ Crash(d)

(* The goroutine runs, time passes, and a process that ended is replaced.  *)
OutboxFairness ==
  /\ \A d \in Dispatchers : WF_outboxVars(Work(d))
  /\ \A m \in Messages : WF_outboxVars(Due(m))
  /\ \A d \in Dispatchers : WF_outboxVars(LeasePasses(Owner(d)))

OutboxSpec == OutboxInit /\ [][OutboxNext]_outboxVars

FairOutboxSpec == OutboxSpec /\ OutboxFairness

-----------------------------------------------------------------------------
(* No message is lost: a row is marked published only when the broker has
   the message, whatever failed, expired or crashed in between. *)
PublishedWasSent ==
  \A m \in Messages : rows[m].status = "published" => sent[m] > 0

(* A row is given up only when its message is malformed, or after
   MaxAttempts claims, by whichever dispatchers.  Attempts count claims and
   not publishes: a claim whose answer, lease or process was lost uses one
   up without the message having been sent. *)
GivenUpIsExhausted ==
  \A m \in Messages :
    rows[m].status = "failed" => m \in Invalid \/ rows[m].attempts >= MaxAttempts

(* Repository: "an expired worker cannot settle a newer claim".  The claim
   that settles a row is the row's last one, although Complete and
   Reschedule name an owner and not a claim.  It takes dispatchers with
   different owners, which nothing in the code enforces. *)
SettlesItsClaim ==
  [][\A m \in Messages, d \in Dispatchers :
       /\ rows[m].status = "pending" /\ rows'[m].status \in {"published", "delayed", "failed"}
       /\ dispatchers[d].pc = "settle" /\ Current(d).message = m
       /\ dispatchers'[d] # dispatchers[d]
       => Current(d).attempts = rows[m].attempts]_outboxVars

(* Every enqueued message is settled: neither a failed settlement nor a
   lease left behind by a crash keeps a row from being claimed again. *)
Settled ==
  \A m \in Messages :
    rows[m].status # "absent" ~> rows[m].status \in {"published", "failed"}

(* "Stop prevents new claims and drains the current bounded batch": run
   ends, even when nothing ends Stop's context, provided that Publish
   returns by PublishTimeout. *)
StopDrains ==
  \A d \in Dispatchers : dispatchers[d].stop ~> ~Running(d)

(* What holds of the rows at every moment: none is marked published without
   having been sent, or given up with claims left. *)
OutboxInv == TypeOKOutbox /\ PublishedWasSent /\ GivenUpIsExhausted
=============================================================================
