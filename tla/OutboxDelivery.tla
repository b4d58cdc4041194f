---------------------------- MODULE OutboxDelivery ----------------------------
(***************************************************************************)
(* Outbound delivery: the coordinator's outbox half (scheduleOutbox,       *)
(* processOutbox, finishOutboxFailure of sessionCoordinator.ts), the       *)
(* delivery context it hands to the runtime (outboxDeliveryContext.ts) and *)
(* the actor that runs one task per session (sessionActor.ts), over the    *)
(* durable rows of OutboxStore.                                            *)
(*                                                                         *)
(* A claim is one task of the actor: queued, then run, with an await       *)
(* before the transport (paced), at the remote operation (remote), at an   *)
(* idempotent settle operation (step) and at a hook (effect).  An actor    *)
(* timeout, a stop or a failed lease renewal leaves its handler running: a *)
(* zombie task, fenced only by the checks before each write.               *)
(*                                                                         *)
(* Everything the environment may do to the coordinator besides answering  *)
(* is a kind of disturbance; an instance chooses the kinds it admits and   *)
(* how many of them happen.                                                *)
(***************************************************************************)
EXTENDS OutboxStore, OutboxPartitions, FiniteSets

CONSTANTS
  Slots,            \* identities of in-memory tasks, zombies included
  MaxConcurrency,   \* maxOutboxConcurrency of the actor
  MaxWorkers,       \* bound on coordinator incarnations
  Disturbances,     \* the kinds of disturbance this instance admits
  MaxDisturbances   \* how many of them may happen

Kinds == {"prepare", "skip", "remote", "settle", "timeout", "offline", "renew", "stall",
          "persist", "recovery", "stop", "crash", "replay", "resolve", "traffic", "hold"}

ASSUME DeliveryAssumption ==
  /\ Slots # {}
  /\ MaxConcurrency \in Nat \ {0}
  /\ MaxWorkers \in Nat
  /\ Disturbances \subseteq Kinds
  /\ MaxDisturbances \in Nat

VARIABLES
  worker,   \* the workerId of the newest coordinator, 0 before the first
  up,       \* started and not stopped
  scan,     \* a scheduleOutbox call is due
  lanes,    \* OutboxPartitionScheduler
  wakes,    \* rows with a wakeAt(availableAt) timer
  expiries, \* rows with a wakeAt(lease) timer after a failed finalization
  claimed,  \* outboxClaims and outboxClaimPartitions: rows with a claim
  claims,   \* the tasks
  online,   \* is the partition's account connected
  budget,   \* disturbances left
  sends,    \* per row: remote operations started
  applied   \* per row: hook runs not confirmed as not applied, per step

schedVars == <<worker, up, scan, lanes, wakes, expiries, claimed>>
ghostVars == <<sends, applied>>
vars == <<storeVars, schedVars, claims, online, budget, ghostVars>>

Task ==
  [row       : RowIds \cup {NoRow},
   worker    : Nat,
   pc        : {"free", "queued", "run", "paced", "remote", "step", "effect"},
   phase     : {"send", "settle"},
   attempts  : 0..MaxAttempts,
   fresh     : BOOLEAN,           \* the claimed row was pending
   done      : SUBSET Steps,      \* completedSteps of the delivery context
   cur       : Steps \cup {NoStep},
   finalized : BOOLEAN,
   tried     : BOOLEAN,           \* finalizationAttempted
   aborted   : BOOLEAN,           \* the combined abort signal
   proven    : BOOLEAN,           \* remoteSucceeded()
   zombie    : BOOLEAN]           \* the actor no longer waits for the handler

FreeTask ==
  [row |-> NoRow, worker |-> NoWorker, pc |-> "free", phase |-> "send", attempts |-> 0,
   fresh |-> FALSE, done |-> {}, cur |-> NoStep, finalized |-> FALSE, tried |-> FALSE,
   aborted |-> FALSE, proven |-> FALSE, zombie |-> FALSE]

Live(c) == claims[c].pc # "free"
Row(c) == rows[claims[c].row]
Lane(c) == Row(c).partition

DeliveryTypeOK ==
  /\ StoreTypeOK
  /\ worker \in Nat
  /\ up \in BOOLEAN
  /\ scan \in BOOLEAN
  /\ lanes \in Lanes(Partitions)
  /\ wakes \subseteq RowIds
  /\ expiries \subseteq RowIds
  /\ claimed \subseteq RowIds
  /\ claims \in [Slots -> Task]
  /\ \A c \in Slots : Live(c) => claims[c].row \in RowIds
  /\ online \in [Partitions -> BOOLEAN]
  /\ budget \in Nat
  /\ sends \in [RowIds -> Nat]
  /\ applied \in [RowIds -> [Steps -> Nat]]

Init ==
  /\ StoreInit
  /\ worker = NoWorker
  /\ up = FALSE
  /\ scan = FALSE
  /\ lanes = NoLanes
  /\ wakes = {}
  /\ expiries = {}
  /\ claimed = {}
  /\ claims = [c \in Slots |-> FreeTask]
  /\ online \in [Partitions -> BOOLEAN]
  /\ budget = MaxDisturbances
  /\ sends = [i \in RowIds |-> 0]
  /\ applied = [i \in RowIds |-> [st \in Steps |-> 0]]

\* the task belongs to the running coordinator
Mine(c) == up /\ claims[c].worker = worker

\* the actor waits for the task's handler
Attended(c) == Live(c) /\ Mine(c) /\ ~claims[c].zombie

\* assertClaimUsable
Usable(c) == Mine(c) /\ ~claims[c].finalized /\ ~claims[c].aborted

\* one disturbance of this kind, and one more when a write fails with it
Disturb(kind, persisted) ==
  LET cost == (IF kind = "none" THEN 0 ELSE 1) + (IF persisted THEN 0 ELSE 1)
  IN  /\ kind \in Disturbances \cup {"none"}
      /\ persisted \/ "persist" \in Disturbances
      /\ cost <= budget
      /\ budget' = budget - cost

--------------------------------------------------------------------------------
(* What turns do to the outbox: a row operation, then scheduleOutbox *)

AppendOutbox(s, p) ==
  /\ up
  /\ InsertOutbox(s, p, "none", NoRow)
  /\ scan' = TRUE
  /\ UNCHANGED <<worker, up, lanes, wakes, expiries, claimed, claims, online, budget, ghostVars>>

AppendHeldOutbox(s, p) ==
  /\ up
  /\ Disturb("hold", TRUE)
  /\ InsertOutbox(s, p, "held", NoRow)
  /\ scan' = TRUE
  /\ UNCHANGED <<worker, up, lanes, wakes, expiries, claimed, claims, online, ghostVars>>

ReleaseOutbox(i, outcome) ==
  /\ up
  /\ ReleaseHeldOutbox(i, outcome)
  /\ scan' = TRUE
  /\ UNCHANGED <<worker, up, lanes, wakes, expiries, claimed, claims, online, budget, ghostVars>>

--------------------------------------------------------------------------------
(* scheduleOutbox: claim until nothing is left, then offer a ready probe *)

ActiveLanes == {rows[i].partition : i \in claimed}

\* mutant: paused partitions are not excluded from the claim
ClaimableWhilePaused(i) ==
  /\ Eligible(i)
  /\ rows[i].state = "pending" => rows[i].partition \notin ActiveLanes

Claimable(i) ==
  /\ Eligible(i)
  /\ rows[i].state = "pending" => rows[i].partition \notin lanes.paused \cup ActiveLanes

Probeable(i, p) ==
  /\ Eligible(i) /\ rows[i].partition = p
  /\ rows[i].state = "pending" => p \notin ActiveLanes

NewTask(i) ==
  [row |-> i, worker |-> worker, pc |-> "queued",
   phase |-> IF rows[i].state = "sent_remote" THEN "settle" ELSE "send",
   attempts |-> ClaimedRow(rows[i], worker).attempts,
   fresh |-> rows[i].state = "pending",
   done |-> rows[i].steps, cur |-> NoStep,
   finalized |-> FALSE, tried |-> FALSE, aborted |-> FALSE,
   proven |-> FALSE, zombie |-> FALSE]

TakeClaim(i, c) ==
  /\ ~Live(c)
  /\ ClaimOutbox(i, worker)
  /\ claims' = [claims EXCEPT ![c] = NewTask(i)]
  /\ claimed' = claimed \cup {i}

Claim(i, c) ==
  /\ up /\ scan
  /\ Claimable(i)
  /\ TakeClaim(i, c)
  /\ UNCHANGED <<worker, up, scan, lanes, wakes, expiries, online, budget, ghostVars>>

ClaimProbe(p, i, c) ==
  /\ up /\ scan
  /\ p \in lanes.ready
  /\ \A j \in RowIds : ~Claimable(j)
  /\ Probeable(i, p)
  /\ TakeClaim(i, c)
  /\ lanes' = TakeReady(lanes, p)
  /\ UNCHANGED <<worker, up, scan, wakes, expiries, online, budget, ghostVars>>

\* nothing to claim: a ready partition without a row is probed again later
EndScan ==
  /\ up /\ scan
  /\ \A j \in RowIds : ~Claimable(j)
  /\ \/ lanes.ready = {} /\ UNCHANGED lanes
     \/ \E p \in lanes.ready :
          /\ \A j \in RowIds : ~Probeable(j, p)
          /\ lanes' = RetryLane(TakeReady(lanes, p), p)
  /\ scan' = FALSE
  /\ UNCHANGED <<storeVars, worker, up, wakes, expiries, claimed, claims, online, budget, ghostVars>>

--------------------------------------------------------------------------------
(* How a task ends *)

\* mutant: no scan follows the end of a task
LeaveQuietly(c, l) ==
  /\ claims' = [claims EXCEPT ![c] = FreeTask]
  /\ lanes' = IF Mine(c) THEN CompleteAttempt(l, Lane(c), claims[c].proven) ELSE lanes
  /\ claimed' = IF Attended(c) THEN claimed \ {claims[c].row} ELSE claimed
  /\ UNCHANGED scan

\* the handler returned: the actor resolves, the claim is dropped, a scan follows
Leave(c, l) ==
  /\ claims' = [claims EXCEPT ![c] = FreeTask]
  /\ lanes' = IF Mine(c) THEN CompleteAttempt(l, Lane(c), claims[c].proven) ELSE lanes
  /\ claimed' = IF Attended(c) THEN claimed \ {claims[c].row} ELSE claimed
  /\ scan' = (scan \/ Attended(c))

\* the actor timed out: the claim is dropped, the handler keeps running
Abandon(c, l, finalized) ==
  /\ claims' = [claims EXCEPT ![c].zombie = TRUE, ![c].aborted = TRUE,
                              ![c].tried = TRUE, ![c].finalized = finalized]
  /\ lanes' = l
  /\ claimed' = claimed \ {claims[c].row}
  /\ scan' = TRUE

End(c, l, finalized, how) ==
  \/ how = "returned" /\ Leave(c, l)
  \/ how = "timed out" /\ Abandon(c, l, finalized)

\* the outcome finishOutboxFailure writes, and "none" when it writes nothing
FailureOutcome(c, disconnected) ==
  LET r == Row(c)
      unsent == /\ r.state \notin Terminal \cup {"sent_remote"}
                /\ r.uncertain = NoStep /\ ~r.started
  IN  IF r.state \in Terminal THEN "none"
      ELSE IF r.state = "sent_remote" /\ r.uncertain = NoStep THEN "retry later"
      ELSE IF ~unsent THEN "delivery_unknown"
      ELSE IF disconnected THEN "retry now"
      ELSE IF claims[c].attempts < MaxAttempts THEN "retry later" ELSE "dead"

StoredOutcome(outcome) ==
  IF outcome \in {"retry now", "retry later"} THEN "retry" ELSE outcome

AlreadyFinal(c) == claims[c].finalized \/ claims[c].tried \/ ~Mine(c)

\* finishOutboxFailure; persisted says whether the store accepts the write
FinishFailure(c, disconnected, persisted, how) ==
  LET i == claims[c].row
      outcome == FailureOutcome(c, disconnected)
      stored == persisted /\ CanFinishOutbox(i, claims[c].worker, StoredOutcome(outcome))
  IN  \/ /\ persisted /\ (AlreadyFinal(c) \/ outcome = "none")
         /\ End(c, lanes, TRUE, how)
         /\ UNCHANGED <<storeVars, wakes, expiries>>
      \/ /\ ~AlreadyFinal(c) /\ outcome # "none" /\ stored
         /\ FinishOutbox(i, StoredOutcome(outcome), outcome = "retry now")
         /\ wakes' = IF outcome = "retry later" THEN wakes \cup {i} ELSE wakes
         /\ UNCHANGED expiries
         /\ End(c, IF outcome = "retry now" THEN PauseLane(lanes, Lane(c)) ELSE lanes,
                TRUE, how)
      \/ /\ ~AlreadyFinal(c) /\ ~stored /\ (outcome # "none" \/ ~persisted)
         /\ expiries' = expiries \cup {i}
         /\ End(c, lanes, FALSE, how)
         /\ UNCHANGED <<storeVars, wakes>>

\* a task fails with a disturbance of this kind
FailTask(c, kind, disconnected, how) ==
  /\ \E persisted \in BOOLEAN :
       /\ Disturb(kind, persisted)
       /\ FinishFailure(c, disconnected, persisted, how)
  /\ UNCHANGED <<worker, up, online, ghostVars>>

--------------------------------------------------------------------------------
(* The handler: deliverOutbox with its delivery context *)

\* the actor runs one task of a session at a time and at most MaxConcurrency
Running(c) == Attended(c) /\ claims[c].pc # "queued"

Begin(c) ==
  /\ Live(c) /\ Mine(c) /\ claims[c].pc = "queued"
  /\ \A d \in Slots : Running(d) => Row(d).session # Row(c).session
  /\ Cardinality({d \in Slots : Running(d)}) < MaxConcurrency
  /\ claims' = [claims EXCEPT ![c].pc = "run"]
  /\ UNCHANGED <<storeVars, schedVars, online, budget, ghostVars>>

At(c, pc, phase) == claims[c].pc = pc /\ claims[c].phase = phase

\* the account is not connected: OutboxDisconnectedError before any transport
Disconnected(c) ==
  /\ At(c, "run", "send") /\ ~online[Lane(c)]
  /\ FailTask(c, "none", TRUE, "returned")

\* preparing the message fails
PrepareFails(c) ==
  /\ At(c, "run", "send")
  /\ FailTask(c, "prepare", FALSE, "returned")

\* the account is connected: the message is prepared and waits for its turn
Prepared(c) ==
  /\ At(c, "run", "send") /\ online[Lane(c)]
  /\ claims' = [claims EXCEPT ![c].pc = "paced"]
  /\ UNCHANGED <<storeVars, schedVars, online, budget, ghostVars>>

\* sendRemote up to the call of the remote operation; the account may be gone again
SendRemote(c) ==
  /\ At(c, "paced", "send")
  /\ Usable(c)
  /\ CanStartTransport(claims[c].row, claims[c].worker)
  /\ MarkOutboxTransportStarted(claims[c].row)
  /\ claims' = [claims EXCEPT ![c].pc = "remote"]
  /\ sends' = [sends EXCEPT ![claims[c].row] = @ + 1]
  /\ UNCHANGED <<schedVars, online, budget, applied>>

\* the remote operation answered: its receipt is recorded
RemoteAnswers(c) ==
  /\ At(c, "remote", "send")
  /\ Usable(c)
  /\ CanRecordReceipt(claims[c].row, claims[c].worker)
  /\ MarkOutboxRemoteSent(claims[c].row)
  /\ claims' = [claims EXCEPT ![c].pc = "run", ![c].phase = "settle", ![c].proven = TRUE]
  /\ UNCHANGED <<schedVars, online, budget, ghostVars>>

\* the steps run in order, skipping those the context knows complete
NextStep(c, st) ==
  /\ st \in Steps \ claims[c].done
  /\ \A u \in Steps \ claims[c].done : st <= u

SettleStep(c, st) ==
  /\ At(c, "run", "settle") /\ NextStep(c, st) /\ st \notin Effects
  /\ Usable(c)
  /\ claims' = [claims EXCEPT ![c].pc = "step", ![c].cur = st]
  /\ UNCHANGED <<storeVars, schedVars, online, budget, ghostVars>>

SettleStepAnswers(c) ==
  /\ At(c, "step", "settle")
  /\ Usable(c)
  /\ SentRemoteBy(claims[c].row, claims[c].worker)
  /\ CompleteOutboxSettleStep(claims[c].row, claims[c].cur)
  /\ claims' = [claims EXCEPT ![c].pc = "run", ![c].done = @ \cup {claims[c].cur},
                              ![c].cur = NoStep]
  /\ UNCHANGED <<schedVars, online, budget, ghostVars>>

SettleEffect(c, st) ==
  /\ At(c, "run", "settle") /\ NextStep(c, st) /\ st \in Effects
  /\ Usable(c)
  /\ CanBeginEffect(claims[c].row, claims[c].worker, st)
  /\ BeginOutboxSettleEffect(claims[c].row, st)
  /\ claims' = [claims EXCEPT ![c].pc = "effect", ![c].cur = st]
  /\ applied' = [applied EXCEPT ![claims[c].row][st] = @ + 1]
  /\ UNCHANGED <<schedVars, online, budget, sends>>

SettleEffectAnswers(c) ==
  /\ At(c, "effect", "settle")
  /\ Usable(c)
  /\ CanCompleteEffect(claims[c].row, claims[c].worker, claims[c].cur)
  /\ CompleteOutboxSettleEffect(claims[c].row, claims[c].cur)
  /\ claims' = [claims EXCEPT ![c].pc = "run", ![c].done = @ \cup {claims[c].cur},
                              ![c].cur = NoStep]
  /\ UNCHANGED <<schedVars, online, budget, ghostVars>>

\* the remote, settle or hook operation fails; the remote one whenever offline
OperationFails(c) ==
  \/ /\ claims[c].pc = "remote"
     /\ FailTask(c, IF online[Lane(c)] THEN "remote" ELSE "none", FALSE, "returned")
  \/ claims[c].pc \in {"step", "effect"} /\ FailTask(c, "settle", FALSE, "returned")

CanFinishSent(c) ==
  \/ Row(c).state \in Terminal
  \/ CanFinishOutbox(claims[c].row, claims[c].worker, "sent")

\* deliverOutbox returned: every step is done, or the delivery was skipped
FinishSent(c) ==
  /\ \/ At(c, "run", "settle") /\ Steps \subseteq claims[c].done /\ UNCHANGED budget
     \/ At(c, "run", "send") /\ Disturb("skip", TRUE)
  /\ Usable(c)
  /\ CanFinishSent(c)
  /\ IF Row(c).state \in Terminal
       THEN UNCHANGED storeVars
       ELSE FinishOutbox(claims[c].row, "sent", TRUE)
  /\ Leave(c, IF claims[c].proven \/ claims[c].fresh THEN ResumeLane(lanes, Lane(c)) ELSE lanes)
  /\ UNCHANGED <<worker, up, wakes, expiries, online, ghostVars>>

\* a claim that lost its right to act fails at its next check
Fenced(c) ==
  /\ Live(c) /\ ~Usable(c)
  /\ claims[c].pc = "queued" => ~Mine(c)
  /\ FailTask(c, "none", FALSE, "returned")

\* the store refuses the write the task needs next
Refused(c) ==
  /\ Live(c) /\ Usable(c)
  /\ LET i == claims[c].row
         w == claims[c].worker
     IN  \/ At(c, "paced", "send") /\ ~CanStartTransport(i, w)
         \/ At(c, "remote", "send") /\ ~CanRecordReceipt(i, w)
         \/ At(c, "step", "settle") /\ ~SentRemoteBy(i, w)
         \/ At(c, "effect", "settle") /\ ~CanCompleteEffect(i, w, claims[c].cur)
         \/ At(c, "run", "settle") /\ Steps \subseteq claims[c].done /\ ~CanFinishSent(c)
         \/ /\ At(c, "run", "settle")
            /\ \E st \in Effects : NextStep(c, st) /\ ~CanBeginEffect(i, w, st)
  /\ FailTask(c, "none", FALSE, "returned")

\* the actor's timer: the session's slot is released while the handler runs on
TimesOut(c) ==
  /\ Running(c)
  /\ FailTask(c, "timeout", FALSE, "timed out")

--------------------------------------------------------------------------------
(* Time: availability, leases and timers *)

BecomesDue(i) ==
  /\ rows[i].state \in {"pending", "sent_remote"} /\ ~rows[i].due
  /\ rows' = [rows EXCEPT ![i].due = TRUE]
  /\ UNCHANGED <<size, next, cursor, schedVars, claims, online, budget, ghostVars>>

\* a lease under renewal lapses only if the process stalls or is suspended
LeaseLapses(i) ==
  /\ Leased(i) /\ ~rows[i].lapsed
  /\ IF \E c \in Slots : Attended(c) /\ claims[c].row = i
       THEN Disturb("stall", TRUE) ELSE UNCHANGED budget
  /\ rows' = [rows EXCEPT ![i].lapsed = TRUE]
  /\ UNCHANGED <<size, next, cursor, schedVars, claims, online, ghostVars>>

RenewLease(c) ==
  /\ Attended(c) /\ Row(c).lapsed
  /\ RenewOutboxLease(claims[c].row, claims[c].worker)
  /\ UNCHANGED <<schedVars, claims, online, budget, ghostVars>>

\* the renewal throws, or finds the lease gone: the claim is aborted
RenewalAborts(c) ==
  /\ Attended(c) /\ ~claims[c].aborted
  /\ IF Leased(claims[c].row) /\ Row(c).worker = claims[c].worker
       THEN Disturb("renew", TRUE) ELSE UNCHANGED budget
  /\ claims' = [claims EXCEPT ![c].aborted = TRUE]
  /\ UNCHANGED <<storeVars, schedVars, online, ghostVars>>

\* wakeAt(availableAt) after a retry
RetryWakes(i) ==
  /\ up /\ i \in wakes /\ rows[i].due
  /\ wakes' = wakes \ {i}
  /\ scan' = TRUE
  /\ UNCHANGED <<storeVars, worker, up, lanes, expiries, claimed, claims, online, budget, ghostVars>>

\* wakeAt(now + leaseMs) after a finalization the store did not accept
ExpiryWakes(i) ==
  /\ up /\ i \in expiries
  /\ Leased(i) => rows[i].lapsed
  /\ expiries' = expiries \ {i}
  /\ scan' = TRUE
  /\ UNCHANGED <<storeVars, worker, up, lanes, wakes, claimed, claims, online, budget, ghostVars>>

ProbeTimer(p) ==
  /\ up /\ p \in lanes.probes
  /\ lanes' = ProbeFires(lanes, p)
  /\ scan' = (scan \/ p \in lanes.paused)
  /\ UNCHANGED <<storeVars, worker, up, wakes, expiries, claimed, claims, online, budget, ghostVars>>

--------------------------------------------------------------------------------
(* Connections and the operator *)

\* resume(partition) of a running coordinator
ResumePartition(p) ==
  /\ lanes' = IF up THEN ResumeLane(lanes, p) ELSE lanes
  /\ scan' = (scan \/ up)

GoesOffline(p) ==
  /\ online[p]
  /\ Disturb("offline", TRUE)
  /\ online' = [online EXCEPT ![p] = FALSE]
  /\ UNCHANGED <<storeVars, schedVars, claims, ghostVars>>

\* the account connects: the runtime calls resume
Connects(p) ==
  /\ ~online[p]
  /\ online' = [online EXCEPT ![p] = TRUE]
  /\ ResumePartition(p)
  /\ UNCHANGED <<storeVars, worker, up, wakes, expiries, claimed, claims, budget, ghostVars>>

\* an inbound message of the account: the runtime calls resume
InboundResumes(p) ==
  /\ up
  /\ Disturb("traffic", TRUE)
  /\ ResumePartition(p)
  /\ UNCHANGED <<storeVars, worker, up, wakes, expiries, claimed, claims, online, ghostVars>>

\* an operator decides through the store, then calls resume()
OperatorReplays(i) ==
  /\ Disturb("replay", TRUE)
  /\ ReplayUnknownOutbox(i)
  /\ scan' = (scan \/ up)
  /\ UNCHANGED <<worker, up, lanes, wakes, expiries, claimed, claims, online, ghostVars>>

\* not_applied takes the hook run back from the count
OperatorResolves(i, kept) ==
  /\ Disturb("resolve", TRUE)
  /\ ResolveUnknownSettle(i, kept)
  /\ applied' = IF kept \/ applied[i][rows[i].uncertain] = 0 THEN applied
                ELSE [applied EXCEPT ![i][rows[i].uncertain] = @ - 1]
  /\ scan' = (scan \/ up)
  /\ UNCHANGED <<worker, up, lanes, wakes, expiries, claimed, claims, online, sends>>

--------------------------------------------------------------------------------
(* Coordinators come and go *)

FreshCoordinator ==
  /\ worker' = worker + 1
  /\ up' = TRUE
  /\ lanes' = NoLanes
  /\ wakes' = {}
  /\ expiries' = {}
  /\ claimed' = {}

\* the first resume(): ensureStarted recovers every lease, then all is scheduled
Starts ==
  /\ ~up /\ worker < MaxWorkers
  /\ FreshCoordinator
  /\ RecoverOutbox
  /\ scan' = TRUE
  /\ UNCHANGED <<claims, online, budget, ghostVars>>

\* the recovery throws; started stays true, so no later call recovers
StartsUnrecovered ==
  /\ ~up /\ worker < MaxWorkers
  /\ Disturb("recovery", TRUE)
  /\ FreshCoordinator
  /\ scan' = FALSE
  /\ UNCHANGED <<storeVars, claims, online, ghostVars>>

GoesDown ==
  /\ up' = FALSE
  /\ scan' = FALSE
  /\ lanes' = NoLanes
  /\ wakes' = {}
  /\ expiries' = {}
  /\ claimed' = {}
  /\ UNCHANGED worker

\* stop(): timers are cleared and claims aborted; handlers run on
Stops ==
  /\ up /\ worker < MaxWorkers
  /\ Disturb("stop", TRUE)
  /\ GoesDown
  /\ claims' = [c \in Slots |-> IF Live(c) THEN [claims[c] EXCEPT !.aborted = TRUE]
                                           ELSE claims[c]]
  /\ UNCHANGED <<storeVars, online, ghostVars>>

\* the process dies with every task in it
Crashes ==
  /\ up /\ worker < MaxWorkers
  /\ Disturb("crash", TRUE)
  /\ GoesDown
  /\ claims' = [c \in Slots |-> FreeTask]
  /\ UNCHANGED <<storeVars, online, ghostVars>>

--------------------------------------------------------------------------------

TaskStep(c) ==
  \/ Begin(c)
  \/ Disconnected(c)
  \/ PrepareFails(c)
  \/ Prepared(c)
  \/ SendRemote(c)
  \/ RemoteAnswers(c)
  \/ \E st \in Steps : SettleStep(c, st) \/ SettleEffect(c, st)
  \/ SettleStepAnswers(c)
  \/ SettleEffectAnswers(c)
  \/ OperationFails(c)
  \/ FinishSent(c)
  \/ Fenced(c)
  \/ Refused(c)
  \/ TimesOut(c)
  \/ RenewLease(c)
  \/ RenewalAborts(c)

RowStep(i) ==
  \/ \E outcome \in {"released", "fallback_released"} : ReleaseOutbox(i, outcome)
  \/ \E c \in Slots : Claim(i, c) \/ \E p \in Partitions : ClaimProbe(p, i, c)
  \/ BecomesDue(i)
  \/ LeaseLapses(i)
  \/ RetryWakes(i)
  \/ ExpiryWakes(i)
  \/ OperatorReplays(i)
  \/ \E kept \in BOOLEAN : OperatorResolves(i, kept)

LaneStep(p) ==
  \/ \E s \in Sessions : AppendOutbox(s, p) \/ AppendHeldOutbox(s, p)
  \/ ProbeTimer(p)
  \/ GoesOffline(p)
  \/ Connects(p)
  \/ InboundResumes(p)

Next ==
  \/ \E c \in Slots : TaskStep(c)
  \/ \E i \in RowIds : RowStep(i)
  \/ \E p \in Partitions : LaneStep(p)
  \/ EndScan
  \/ Starts
  \/ StartsUnrecovered
  \/ Stops
  \/ Crashes

Spec == Init /\ [][Next]_vars

--------------------------------------------------------------------------------
(* Safety *)

\* A message is handed to its transport at most once, whatever retries, timeouts,
\* stops, crashes and recoveries happen: finishOutboxFailure and
\* recoverOutboxLeases never put a row whose transport started back to pending.
AtMostOneSend == \A i \in RowIds : sends[i] <= 1

\* No message overtakes an earlier one of its session or of its delivery
\* partition: when claimNextOutbox lets a row be sent, no later row of either
\* was sent before it.
SendsInOrder ==
  [][\A i \in RowIds : sends'[i] > sends[i] =>
       \A j \in RowIds :
         (/\ i < j /\ rows[j].state # "absent"
          /\ \/ rows[j].partition = rows[i].partition
             \/ rows[j].session = rows[i].session) => sends[j] = 0]_vars

\* The session cursor splits a session's rows: those up to it are closed for
\* good, those behind it are open, or closed by an unknown settle effect at the
\* head, which is where finishOutbox leaves the cursor behind.
CursorSplitsSession ==
  \A i \in RowIds : rows[i].state # "absent" =>
    IF rows[i].seq <= cursor[rows[i].session]
      THEN rows[i].state \in Terminal /\ rows[i].uncertain = NoStep
      ELSE rows[i].state \in Terminal =>
             rows[i].state = "delivery_unknown" /\ rows[i].uncertain # NoStep /\ IsHead(i)

\* The store and the coordinator's memory keep their shape, and with it the split.
SessionsSplit == DeliveryTypeOK /\ CursorSplitsSession

\* Two messages of one delivery partition are never in transport together.
OneTransportPerPartition ==
  \A i, j \in RowIds :
    (i # j /\ rows[i].state = "sending" /\ rows[j].state = "sending") =>
      rows[i].partition # rows[j].partition

\* A hook (settleEffectStep) runs at most once, unless the operator confirmed
\* that its last run was not applied.
EffectOnce == \A i \in RowIds, st \in Effects : applied[i][st] <= 1

\* A paused partition is always on its way to a probe: its timer is armed, its
\* probe is ready, or an attempt is out whose end re-arms it.
PausedIsProbed ==
  up => \A p \in lanes.paused :
          \/ p \in lanes.probes \cup lanes.ready
          \/ \E c \in Slots : Live(c) /\ Mine(c) /\ Lane(c) = p

\* A lease outlives its task only where something will still take the row up: a
\* timer after a failed finalization, or a lapsed lease claimNextOutbox accepts.
LeaseIsRecoverable ==
  up => \A i \in RowIds : Leased(i) =>
          \/ \E c \in Slots : Attended(c) /\ claims[c].row = i
          \/ i \in expiries
          \/ rows[i].state = "sent_remote" /\ rows[i].lapsed

\* Every row that may be claimed has a scan or a timer coming for it, or waits for
\* its account to connect.
NoLostWakeup ==
  up => \A i \in RowIds :
          (Claimable(i) /\ ~Leased(i) /\ online[rows[i].partition]) => (scan \/ i \in wakes)

\* Nothing sleeps for good while timers, scans, probes and late attempts cross: neither a
\* paused partition nor a row that may be claimed.
DeliveryWatched == PausedIsProbed /\ NoLostWakeup

--------------------------------------------------------------------------------
(* The promise: OrderedOutbox *)

Fate(r) ==
  IF r.state = "absent" THEN "absent"
  ELSE IF r.state = "pending" \/ (r.state = "sending" /\ ~r.started) THEN "waiting"
  ELSE IF r.state \in {"sending", "sent_remote"} THEN "out"
  ELSE IF r.uncertain # NoStep THEN "doubtful" ELSE "closed"

LogOfRows ==
  [i \in RowIds |-> [session |-> rows[i].session, partition |-> rows[i].partition,
                     fate |-> Fate(rows[i])]]

Ordered == INSTANCE OrderedOutbox WITH log <- LogOfRows, length <- size

\* Whatever the coordinators do, the rows behave as the ordered outbox: at most
\* one transport per message, session and partition order, doubt held until settled.
KeepsOrder == Ordered!OrderedSpec

--------------------------------------------------------------------------------
(* Liveness *)

\* the steps a task's handler owes once it runs: every operation answers
Handler(c) ==
  \/ Disconnected(c)
  \/ Prepared(c)
  \/ SendRemote(c)
  \/ RemoteAnswers(c)
  \/ \E st \in Steps : SettleStep(c, st) \/ SettleEffect(c, st)
  \/ SettleStepAnswers(c)
  \/ SettleEffectAnswers(c)
  \/ FinishSent(c)
  \/ Fenced(c)
  \/ Refused(c)

Claims ==
  \E i \in RowIds, c \in Slots : Claim(i, c) \/ \E p \in Partitions : ClaimProbe(p, i, c)

\* A scheduled scan runs, timers fire, handlers answer, the actor takes sessions in
\* turn, a turn decides about its held row, the process starts.
HostFairness ==
  /\ WF_vars(Starts)
  /\ WF_vars(Claims)
  /\ WF_vars(EndScan)
  /\ \A c \in Slots : SF_vars(Begin(c)) /\ WF_vars(Handler(c)) /\ WF_vars(RenewLease(c))
  /\ \A i \in RowIds :
       /\ WF_vars(BecomesDue(i))
       /\ WF_vars(LeaseLapses(i))
       /\ WF_vars(RetryWakes(i))
       /\ WF_vars(ExpiryWakes(i))
       /\ WF_vars(ReleaseOutbox(i, "released") \/ ReleaseOutbox(i, "fallback_released"))
  /\ \A p \in Partitions : WF_vars(ProbeTimer(p))

HostSpec == Spec /\ HostFairness

InDoubt == \E j \in RowIds : rows[j].state \in Terminal /\ rows[j].uncertain # NoStep

BehindOffline(i) ==
  \E e \in 1..i :
    /\ rows[e].state \notin Terminal /\ ~online[rows[e].partition]
    /\ rows[e].session = rows[i].session \/ rows[e].partition = rows[i].partition

\* Every message is sent, given up or declared unknown, over failures, restarts and
\* crashes, unless an effect in doubt waits for the operator.  An account that never
\* connects again stops only its own partition and the sessions with a message in it.
EveryMessageConcludes ==
  \A i \in RowIds :
    \/ <>[]BehindOffline(i)
    \/ (rows[i].state # "absent") ~> (rows[i].state \in Terminal \/ InDoubt)

================================================================================
