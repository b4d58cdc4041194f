------------------------------- MODULE TurnQueue -------------------------------
(***************************************************************************)
(* The turn half of the session coordinator over the turn store: the       *)
(* synchronous scan that claims, the one timer for future deadlines        *)
(* (sessionTurnWake.ts), the actor that runs the handlers, the handlers'   *)
(* writes (turnOutboxEmitter.ts, systemConfigReply.ts) and the results     *)
(* they apply (sessionTurnResultCoordinator.ts).                           *)
(*                                                                         *)
(* A task is named by its turn <<e, a>>.  A handler is any sequence of     *)
(* writes ending in a result; what a provider answers may differ from      *)
(* attempt to attempt.                                                     *)
(***************************************************************************)
EXTENDS TurnStore, FiniteSets

CONSTANTS
  Cap,              \* maxSessionConcurrency
  MaxWorkers,       \* bound on the coordinators ever started
  Bounds            \* how far behaviours may go, one of these records each

NoTimer == -1

Result == {"replied", "no_reply", "failed", "deferred"}

\* A small instance: how many events are enqueued, which rows a handler appends and
\* which results it returns, how late the clock runs, how many coordinators start,
\* which disturbances (failures and reschedulings) may happen and how many.
Bound ==
  [events : 0..MaxEvents, ordinals : SUBSET Ordinals, results : SUBSET Result,
   time : 0..MaxTime, workers : 0..MaxWorkers, kinds : SUBSET STRING, faults : Nat]

ASSUME QueueAssumption ==
  /\ Cap \in Nat \ {0}
  /\ MaxWorkers \in Nat
  /\ Bounds \subseteq Bound

Body == CHOOSE b \in Bodies : TRUE

VARIABLES
  now,      \* the clock
  worker,   \* the latest coordinator
  up,       \* it is started and not stopped
  scan,     \* a scan of its turns is due
  timer,    \* the wake timer's deadline
  tasks,    \* turn -> task in the actor
  budget,   \* disturbances left
  bound,    \* how far this behaviour goes
  commits   \* event -> times its staged mutation was committed

hostVars == <<now, worker, up, budget, bound>>
vars == <<turnVars, now, worker, up, scan, timer, tasks, budget, bound, commits>>

Task ==
  [pc       : {"none", "queued", "run", "held", "committed", "refused", "confirmed", "over"},
   ordinal  : {0} \cup Ordinals,
   worker   : 0..MaxWorkers,
   expected : 0..MaxTime,    \* available_at as the claim read it
   aborted  : BOOLEAN,       \* the claim's abort signal
   late     : BOOLEAN,       \* the actor timed out and waits no longer
   final    : BOOLEAN]       \* ClaimState.finalized

NoTask ==
  [pc |-> "none", ordinal |-> 0, worker |-> NoWorker, expected |-> 0,
   aborted |-> FALSE, late |-> FALSE, final |-> FALSE]

QueueTypeOK ==
  /\ TurnTypeOK
  /\ now \in 0..bound.time /\ \A e \in EventIds : events[e].at <= bound.time
  /\ worker \in 0..MaxWorkers /\ up \in BOOLEAN /\ scan \in BOOLEAN
  /\ timer \in {NoTimer} \cup 0..MaxTime
  /\ tasks \in [EventIds -> [Attempts -> Task]]
  /\ budget \in 0..bound.faults /\ bound \in Bounds
  /\ commits \in [EventIds -> Nat]

Init ==
  /\ TurnStoreInit
  /\ now = 0 /\ worker = NoWorker /\ up = FALSE /\ scan = FALSE /\ timer = NoTimer
  /\ tasks = [e \in EventIds |-> [a \in Attempts |-> NoTask]]
  /\ bound \in Bounds /\ budget = bound.faults
  /\ commits = [e \in EventIds |-> 0]

Disturb(kind) ==
  /\ kind \in bound.kinds /\ budget > 0
  /\ budget' = budget - 1 /\ UNCHANGED bound

Mine(e, a) == up /\ tasks[e][a].worker = worker
InHandler(e, a) == tasks[e][a].pc \notin {"none", "queued", "over"}
HoldsSlot(e, a) == InHandler(e, a) /\ ~tasks[e][a].late

\* assertClaimUsable
Usable(e, a) == ~tasks[e][a].final /\ ~tasks[e][a].aborted /\ ~tasks[e][a].late

--------------------------------------------------------------------------------
(* The wake's operations: a store operation, then scheduleTurns *)

Enqueue(s, at) ==
  /\ up
  /\ at >= now
  /\ filled < bound.events /\ at <= bound.time
  /\ EnqueueEvent(s, NoKey, Body, at)
  /\ scan' = TRUE
  /\ UNCHANGED <<hostVars, timer, tasks, commits>>

\* updateActiveEvent and bumpActiveEventAvailableAt
MoveDeadline(e, at) ==
  /\ up
  /\ at > events[e].at /\ at <= bound.time
  /\ UpdateActiveEvent(e, at, Body)
  /\ scan' = TRUE
  /\ UNCHANGED <<hostVars, timer, tasks, commits>>

Reschedule(e, at) ==
  /\ up
  /\ Disturb("reschedule") /\ at <= bound.time
  /\ ReschedulePendingEvent(e, at)
  /\ scan' = TRUE
  /\ UNCHANGED <<now, worker, up, timer, tasks, commits>>

--------------------------------------------------------------------------------
(* scheduleTurns: claim all there is, then arm the timer for the rest *)

\* mutant: the timer is armed from the latest deadline
LatestWaiting(W) ==
  IF W = {} THEN NoTimer ELSE CHOOSE t \in W : \A u \in W : t >= u

\* nextClaimableEventAvailableAt
EarliestOf(W) ==
  IF W = {} THEN NoTimer ELSE CHOOSE t \in W : \A u \in W : t <= u

\* the deadlines of the events waiting once the events of C are running
WaitingDeadlines(C) ==
  {events[e].at : e \in {e \in EventIds :
      Waiting(e) /\ \A c \in C : events[c].session # events[e].session}}

NewTask(e) ==
  [NoTask EXCEPT !.pc = "queued", !.worker = worker, !.expected = events[e].at]

ScanTurns(C) ==
  /\ ClaimTurns(C, worker)
  /\ tasks' = [e \in EventIds |-> [a \in Attempts |->
                 IF e \in C /\ a = events[e].attempts + 1 THEN NewTask(e) ELSE tasks[e][a]]]
  /\ scan' = FALSE
  /\ timer' = EarliestOf(WaitingDeadlines(C))
  /\ UNCHANGED <<now, worker, up, commits>>

Scan ==
  /\ up /\ scan
  /\ ScanTurns({e \in EventIds : ClaimableAt(e, now)})
  /\ UNCHANGED <<budget, bound>>

\* the store refuses a claim: the scan ends there and still arms the timer
ScanFails ==
  /\ up /\ scan
  /\ Disturb("persist")
  /\ \E C \in SUBSET {e \in EventIds : ClaimableAt(e, now)} : ScanTurns(C)

TimerFires ==
  /\ up /\ timer # NoTimer /\ timer <= now
  /\ timer' = NoTimer
  /\ scan' = TRUE
  /\ UNCHANGED <<turnVars, hostVars, tasks, commits>>

--------------------------------------------------------------------------------
(* How a task ends: settling the actor's promise schedules another scan *)

Rescan(e, a) == scan \/ Mine(e, a)

\* mutant: the end of a turn schedules nothing
EndWithoutRescan(e, a, final) ==
  /\ tasks' = [tasks EXCEPT ![e][a].pc = "over", ![e][a].final = final]
  /\ UNCHANGED <<scan, timer, now, worker, up, commits>>

End(e, a, final) ==
  /\ tasks' = [tasks EXCEPT ![e][a].pc = "over", ![e][a].final = final]
  /\ scan' = Rescan(e, a)
  /\ UNCHANGED <<timer, now, worker, up, commits>>

\* finishTurn accepts the write
CanFinish(e, a) == RunsFor(e, a, tasks[e][a].worker)

FailureOutcome(e, a) ==
  IF tasks[e][a].aborted \/ tasks[e][a].late THEN "timed_out" ELSE "failed"

\* results.fail, and failActorTask when it throws
Fail(e, a) ==
  /\ IF tasks[e][a].final \/ ~Mine(e, a) \/ ~CanFinish(e, a)
       THEN UNCHANGED turnVars ELSE FinishTurn(e, a, FailureOutcome(e, a))
  /\ End(e, a, TRUE)

\* the handler throws, or returns after its claim became unusable
HandlerFails(e, a) ==
  /\ InHandler(e, a)
  /\ Fail(e, a)
  /\ UNCHANGED <<budget, bound>>

\* the store also refuses the two failures
FailUnwritten(e, a) ==
  /\ InHandler(e, a)
  /\ ~tasks[e][a].final /\ Mine(e, a)
  /\ Disturb("persist")
  /\ End(e, a, TRUE)
  /\ UNCHANGED turnVars

\* the actor gives up waiting; written says whether failActorTask's write succeeds
ActorTimesOut(e, a, written) ==
  /\ HoldsSlot(e, a)
  /\ Disturb(IF written THEN "timeout" ELSE "persist")
  /\ IF written /\ ~tasks[e][a].final /\ Mine(e, a) /\ CanFinish(e, a)
       THEN FinishTurn(e, a, "timed_out") ELSE UNCHANGED turnVars
  /\ tasks' = [tasks EXCEPT ![e][a].late = TRUE, ![e][a].final = @ \/ Mine(e, a)]
  /\ scan' = Rescan(e, a)
  /\ UNCHANGED <<timer, now, worker, up, commits>>

RenewFails(e, a) ==
  /\ tasks[e][a].pc # "over" /\ tasks[e][a].pc # "none" /\ ~tasks[e][a].aborted
  /\ Mine(e, a)
  /\ Disturb("renew")
  /\ tasks' = [tasks EXCEPT ![e][a].aborted = TRUE]
  /\ UNCHANGED <<turnVars, now, worker, up, scan, timer, commits>>

--------------------------------------------------------------------------------
(* The handler *)

\* the actor runs one task of a session at a time and at most Cap
Begin(e, a) ==
  /\ tasks[e][a].pc = "queued"
  /\ LET others == {t \in EventIds \X Attempts :
                      HoldsSlot(t[1], t[2]) /\ tasks[t[1]][t[2]].worker = tasks[e][a].worker}
     IN /\ \A t \in others : events[t[1]].session # events[e].session
        /\ Cardinality(others) < Cap
  /\ tasks' = [tasks EXCEPT ![e][a].pc = "run"]
  /\ UNCHANGED <<turnVars, hostVars, scan, timer, commits>>

\* emitTurnOutbox and emitTurnHeldOutbox; a refused row makes the handler throw
Emit(e, a, k, text, held) ==
  /\ tasks[e][a].pc = "run"
  /\ k = tasks[e][a].ordinal + 1 /\ k \in bound.ordinals
  /\ Usable(e, a)
  /\ CanAppend(e, a, tasks[e][a].worker, k, text, held)
  /\ AppendTurnOutbox(e, a, k, text, held)
  /\ tasks' = [tasks EXCEPT ![e][a].ordinal = k, ![e][a].pc = IF held THEN "held" ELSE @]
  /\ UNCHANGED <<hostVars, scan, timer, commits>>

\* the staged mutation is committed without looking at the claim again
Commit(e, a) ==
  /\ tasks[e][a].pc = "held"
  /\ commits' = [commits EXCEPT ![e] = @ + 1]
  /\ tasks' = [tasks EXCEPT ![e][a].pc = "committed"]
  /\ UNCHANGED <<turnVars, hostVars, scan, timer>>

CommitRefused(e, a) ==
  /\ tasks[e][a].pc = "held"
  /\ Disturb("commit")
  /\ tasks' = [tasks EXCEPT ![e][a].pc = "refused"]
  /\ UNCHANGED <<turnVars, now, worker, up, scan, timer, commits>>

HeldOutcome(pc) == IF pc = "committed" THEN "released" ELSE "fallback_released"

\* release after the commit, neutralizeAndRelease after its refusal (which then throws)
Release(e, a) ==
  LET k == tasks[e][a].ordinal
      outcome == HeldOutcome(tasks[e][a].pc)
  IN /\ tasks[e][a].pc \in {"committed", "refused"}
     /\ Usable(e, a)
     /\ CanRelease(e, k, outcome)
     /\ ReleaseHeld(e, k, outcome)
     /\ tasks' = [tasks EXCEPT ![e][a].pc = IF @ = "committed" THEN "confirmed" ELSE @]
     /\ UNCHANGED <<hostVars, scan, timer, commits>>

\* results.apply of a completed, no_reply, failed or deferred result
Finish(e, a, outcome) ==
  /\ tasks[e][a].pc \in {"run", "confirmed"}
  /\ Usable(e, a)
  /\ CanFinish(e, a)
  /\ outcome \in bound.results
  /\ FinishTurn(e, a, outcome)
  /\ End(e, a, TRUE)
  /\ UNCHANGED <<budget, bound>>

\* applyHandoff to another session
Handoff(e, a, s) ==
  /\ tasks[e][a].pc = "run"
  /\ s # events[e].session
  /\ Usable(e, a)
  /\ CanFinish(e, a)
  /\ HandoffTurn(e, a, s, NoKey, Body, tasks[e][a].expected, now)
  /\ filled' <= bound.events
  /\ End(e, a, TRUE)
  /\ UNCHANGED <<budget, bound>>

\* recoverHandoffFailure: the turn is interrupted and the event retried
HandoffFails(e, a) ==
  /\ tasks[e][a].pc = "run"
  /\ Usable(e, a) /\ CanFinish(e, a)
  /\ Disturb("handoff")
  /\ InterruptTurn(e, a)
  /\ End(e, a, TRUE)

\* the interrupting write fails too and leaves the turn running
HandoffUnwritten(e, a) ==
  /\ tasks[e][a].pc = "run"
  /\ Usable(e, a) /\ CanFinish(e, a)
  /\ Disturb("persist")
  /\ End(e, a, FALSE)
  /\ UNCHANGED turnVars

Handler(e, a) ==
  \/ Begin(e, a)
  \/ \E k \in Ordinals, text \in Texts, held \in BOOLEAN : Emit(e, a, k, text, held)
  \/ Commit(e, a) \/ CommitRefused(e, a) \/ Release(e, a)
  \/ \E outcome \in Result : Finish(e, a, outcome)
  \/ \E s \in Sessions : Handoff(e, a, s)
  \/ HandoffFails(e, a) \/ HandoffUnwritten(e, a)
  \/ HandlerFails(e, a) \/ FailUnwritten(e, a)

--------------------------------------------------------------------------------
(* The process *)

\* the first resume() of a coordinator recovers every lease and scans
Start ==
  /\ ~up /\ worker < bound.workers
  /\ worker' = worker + 1
  /\ up' = TRUE
  /\ RecoverTurnLeases(now)
  /\ scan' = TRUE
  /\ UNCHANGED <<now, timer, tasks, budget, bound, commits>>

\* stop(): handlers of the stopped coordinator run on with an aborted signal
Stop ==
  /\ up
  /\ Disturb("stop")
  /\ up' = FALSE /\ scan' = FALSE /\ timer' = NoTimer
  /\ tasks' = [e \in EventIds |-> [a \in Attempts |->
                 IF tasks[e][a].worker = worker THEN [tasks[e][a] EXCEPT !.aborted = TRUE]
                                                ELSE tasks[e][a]]]
  /\ UNCHANGED <<turnVars, now, worker, commits>>

Crash ==
  /\ Disturb("crash")
  /\ up' = FALSE /\ scan' = FALSE /\ timer' = NoTimer
  /\ tasks' = [e \in EventIds |-> [a \in Attempts |-> NoTask]]
  /\ UNCHANGED <<turnVars, now, worker, commits>>

Tick ==
  /\ now < bound.time
  /\ now' = now + 1
  /\ UNCHANGED <<turnVars, worker, up, scan, timer, tasks, budget, bound, commits>>

Next ==
  \/ \E s \in Sessions, at \in 0..MaxTime : Enqueue(s, at)
  \/ \E e \in EventIds, at \in 0..MaxTime : MoveDeadline(e, at) \/ Reschedule(e, at)
  \/ Scan \/ ScanFails \/ TimerFires
  \/ \E e \in EventIds, a \in Attempts :
       \/ Handler(e, a)
       \/ \E written \in BOOLEAN : ActorTimesOut(e, a, written)
       \/ RenewFails(e, a)
  \/ Start \/ Stop \/ Crash \/ Tick

Spec == Init /\ [][Next]_vars

HandlerEnds(e, a) ==
  HandlerFails(e, a) \/ \E outcome \in Result : Finish(e, a, outcome)

\* timers fire, scans and queued tasks run, handlers end, a process is restarted
Fairness ==
  /\ WF_vars(Scan) /\ WF_vars(TimerFires) /\ WF_vars(Tick) /\ WF_vars(Start)
  /\ \A e \in EventIds, a \in Attempts :
       WF_vars(Begin(e, a)) /\ WF_vars(HandlerEnds(e, a))

FairSpec == Spec /\ Fairness

--------------------------------------------------------------------------------
(* Properties *)

RunningTurns(s) ==
  {t \in EventIds \X Attempts : events[t[1]].session = s /\ turns[t[1]][t[2]].status = "running"}

\* A session has at most one running turn, the latest attempt of its head event, and an
\* event is running exactly when its turn is: what the claim's NOT EXISTS, the recovery
\* and the interrupts keep together over two tables.
OneRunningTurn ==
  /\ \A s \in Sessions : Cardinality(RunningTurns(s)) <= 1
  /\ \A e \in EventIds :
       (events[e].state = "running") <=>
         \E a \in Attempts : turns[e][a].status = "running" /\ a = events[e].attempts /\ IsHead(e)

\* The cursor of a session stands between its completed events and the others: FIFO
\* survives failures, interrupts, handoffs and recoveries.
EventCursorSplits ==
  \A e \in EventIds :
    events[e].state # "absent" =>
      ((events[e].state = "completed") <=> (events[e].seq <= done[events[e].session]))

\* An event that could be claimed now or later is watched: a scan is due or the timer
\* fires no later than its deadline, however deadlines moved meanwhile.
NoSleepingTurn ==
  up => \A e \in EventIds :
          Waiting(e) => scan \/ (timer # NoTimer /\ timer <= events[e].at)

\* A configuration change that a held confirmation announces is committed at most once
\* per event, over timeouts, crashes and the recovery of its turn.
MutationOnce == \A e \in EventIds : commits[e] <= 1

\* A confirmation that says the change was made is released only after the commit.
ConfirmationIsTrue ==
  \A e \in EventIds, k \in Ordinals : said[e][k].hold = "released" => commits[e] = 1

KeepsRows ==
  \A e \in EventIds, k \in Ordinals :
    said[e][k].hold # "absent" =>
      /\ said'[e][k].text = said[e][k].text
      /\ said[e][k].hold # "held" => said'[e][k] = said[e][k]

\* What a turn appended is never replaced or taken back by a later attempt, whose
\* provider may answer otherwise.
RowsStand == [][KeepsRows]_vars

\* Every event is concluded, as long as the store accepts the writes: no deadline,
\* failure, timeout, stop or crash makes its session wait for ever.
EveryEventConcludes ==
  \A e \in EventIds :
    (events[e].state = "pending" /\ "persist" \notin bound.kinds)
      ~> (events[e].state = "completed" \/ events[e].attempts = MaxAttempts)

\* The two tables of turns and events agree, over failures, interrupts, handoffs and
\* recoveries: one running turn per session, and a FIFO cursor.
TurnsInOrder == QueueTypeOK /\ OneRunningTurn /\ EventCursorSplits

\* What a conversation is told of a configuration change is what has happened to it: the
\* change is made once, and confirmed only when it is made.
ChangeIsTold == MutationOnce /\ ConfirmationIsTrue

================================================================================
