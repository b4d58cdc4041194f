----------------------------- MODULE ScheduledTasks ----------------------------
(* Scheduled tasks: the definitions and runs of adapters/sqlite/               *)
(* scheduledTaskStore.ts, the scheduler of services/scheduling/scheduler.ts    *)
(* that drains them, and the callback events runtime/scheduledTasks.ts queues  *)
(* for every target of a run.                                                  *)
(*                                                                             *)
(* Time is an integer clock. A worker is one scheduler object: a restarted     *)
(* process, or a runtime that is closed and opened again, makes a new one, and *)
(* the drain of a closed one runs on. The statements between two awaits are    *)
(* one step. Names, contexts and targets of a task are left out, so are the    *)
(* permanent_retention flag and tasks of a disabled director.                  *)
EXTENDS Naturals, FiniteSets, FiniteSetsExt

CONSTANTS
  Tasks,
  Once,             \* the tasks with a one-time schedule, the others are cron
  MaxTargets,       \* bounds the conversations a run is delivered to
  Backoff,          \* the longest delivery retry delay
  Retention,        \* ARCHIVE_RETENTION_MS
  Period,           \* a cron task is due at its multiples
  MaxTime,          \* bounds the clock
  MaxWorkers,       \* bounds the schedulers
  Bounds            \* how far behaviours may go, one of these records each

(* A small instance: the tasks the administrator may create, the targets of a  *)
(* run, leaseMs, and how many edits, schedulers and disturbances (failures,    *)
(* lost renewals, stops and crashes) there may be.                             *)
Bound ==
  [tasks : SUBSET Tasks, targets : 1 .. MaxTargets, lease : Nat \ {0},
   edits : Nat, workers : 1 .. MaxWorkers, faults : Nat]

ASSUME SchedulerAssumption ==
  /\ Once \subseteq Tasks
  /\ {MaxTargets, MaxWorkers, Backoff, Retention, Period, MaxTime} \subseteq Nat \ {0}
  /\ Bounds \subseteq Bound

VARIABLES now, task, run, events, worker, current, edits, bound, budget

vars == <<now, task, run, events, worker, current, edits, bound, budget>>

Lease == bound.lease

NoTime == 0
NoWorker == 0
MaxDeliveries == 3

Times == 1 .. MaxTime + Period
Runs == Tasks \X Times
Targets == 1 .. bound.targets
Workers == 1 .. MaxWorkers

NoTask == [exists |-> FALSE, enabled |-> FALSE, next |-> NoTime]
NoRun == [status |-> "none", text |-> 0, tries |-> 0, retry |-> NoTime, owner |-> NoWorker,
          lease |-> NoTime, done |-> NoTime]
NewRun == [NoRun EXCEPT !.status = "pending"]
NoScheduler == [alive |-> FALSE, started |-> FALSE, timer |-> NoTime, phase |-> "idle",
                holds |-> <<>>, aborted |-> FALSE]

SchedulerTypeOK ==
  /\ now \in 1 .. MaxTime
  /\ task \in [Tasks -> [exists : BOOLEAN, enabled : BOOLEAN, next : Times \cup {NoTime}]]
  /\ DOMAIN run = Runs
  /\ \A r \in Runs :
       /\ run[r].status \in {"none", "pending", "running", "generated", "completed", "failed"}
       /\ run[r].tries \in 0 .. MaxDeliveries
       /\ run[r].owner \in Workers \cup {NoWorker}
       /\ (run[r].lease # NoTime) <=> (run[r].status \in {"running", "generated"})
       /\ (run[r].done # NoTime) <=> (run[r].status \in {"completed", "failed"})
       /\ run[r].text > 0 => run[r].status \in {"generated", "completed", "failed"}
  /\ events \subseteq [run : Runs, target : 1 .. MaxTargets, text : Nat]
  /\ \A w \in Workers : worker[w].phase \in {"idle", "loop", "generating", "deliver", "logging", "ended"}
  /\ current \in Workers
  /\ bound \in Bounds
  /\ edits \in 0 .. bound.edits
  /\ budget \in 0 .. bound.faults

Spend == budget > 0 /\ budget' = budget - 1 /\ UNCHANGED bound

(* nextScheduledAt of a cron task, and firstScheduledAt of both kinds *)
CronAfter(time) == ((time \div Period) + 1) * Period

\* mutant: a schedule may start at this very moment
FirstOrNow(t) == IF t \in Once THEN now .. MaxTime ELSE {CronAfter(now - 1)}

FirstAt(t) == IF t \in Once THEN now + 1 .. MaxTime ELSE {CronAfter(now)}

NextAfter(t) == IF t \in Once THEN NoTime ELSE CronAfter(now)

--------------------------------------------------------------------------------
(* The store *)

(* The operators take the definitions T and the runs R that an edit leaves.    *)
Latest(R, r) ==
  /\ R[r].status # "none"
  /\ \A q \in Runs : q[1] = r[1] /\ R[q].status # "none" => q[2] <= r[2]

(* The runs whose task is archived: one-time, not scheduled, and over *)
Archived(T, R) ==
  {r \in Runs : /\ r[1] \in Once /\ T[r[1]].exists /\ T[r[1]].next = NoTime
                /\ Latest(R, r) /\ R[r].done # NoTime}

(* purgeExpiredArchivedTasks *)
Expired(T, R, t) == \E r \in Archived(T, R) : r[1] = t /\ R[r].done + Retention <= now

Due(T, t) == T[t].enabled /\ T[t].next # NoTime /\ T[t].next <= now

(* The purge and the claims of every due occurrence, each of which makes a run *)
(* and moves its task on. A claim that met the run of another revision would   *)
(* throw: OccurrenceIsNew shows there is none.                                 *)
DrainedTasks(T, R) ==
  [t \in Tasks |->
     IF Expired(T, R, t) THEN NoTask
     ELSE IF Due(T, t) THEN [T[t] EXCEPT !.next = NextAfter(t)]
     ELSE T[t]]

DrainedRuns(T, R) ==
  [r \in Runs |->
     IF Due(T, r[1]) /\ T[r[1]].next = r[2] /\ R[r].status = "none" THEN NewRun ELSE R[r]]

Claimable(r) ==
  \/ run[r].status = "pending"
  \/ run[r].status = "running" /\ run[r].lease <= now
  \/ run[r].status = "generated" /\ run[r].lease <= now /\ run[r].retry <= now

ClaimRank(r) ==
  (CASE run[r].status = "generated" -> 0 [] run[r].status = "pending" -> 1 [] OTHER -> 2)
     * (MaxTime + Period + 1) + r[2]

\* mutant: a run is rendered again when it is claimed again
ClaimedAfresh(r, w) ==
  [run[r] EXCEPT !.status = "running", !.owner = w, !.lease = now + Lease, !.retry = NoTime]

Claimed(r, w) ==
  [run[r] EXCEPT !.status = IF @ = "generated" THEN "generated" ELSE "running",
                 !.owner = w, !.lease = now + Lease, !.retry = NoTime]

\* mutant: a call names nothing but the run
OwnsNothing(r, w, statuses) == TRUE

(* The condition of renew, markGenerated, complete, fail and the failures *)
Owns(r, w, statuses) ==
  /\ run[r].owner = w
  /\ run[r].status \in statuses
  /\ run[r].lease > now

Ended(r, status) ==
  [run[r] EXCEPT !.status = status, !.owner = NoWorker, !.lease = NoTime, !.retry = NoTime, !.done = now]

(* recordDeliveryFailure *)
DeliveryFailed(r, delay) ==
  IF run[r].tries + 1 >= MaxDeliveries
  THEN [Ended(r, "failed") EXCEPT !.tries = @ + 1]
  ELSE [run[r] EXCEPT !.tries = @ + 1, !.retry = now + delay, !.lease = now + delay]

(* nextWakeAt. A pending run has been there since its creation. *)
WakesOf(T, R) ==
  {T[t].next : t \in {t \in Tasks : T[t].enabled /\ T[t].next # NoTime}}
    \cup {IF R[r].status = "pending" THEN r[2] ELSE IF R[r].retry # NoTime THEN R[r].retry ELSE R[r].lease :
            r \in {r \in Runs : R[r].status \in {"pending", "running", "generated"}}}
    \cup {R[r].done + Retention : r \in Archived(T, R)}

NextWakeAt == LET W == WakesOf(task, run) IN IF W = {} THEN NoTime ELSE Min(W)

--------------------------------------------------------------------------------
(* The scheduler *)

Init ==
  /\ now = 1
  /\ task = [t \in Tasks |-> NoTask]
  /\ run = [r \in Runs |-> NoRun]
  /\ events = {}
  /\ current = 1
  /\ worker = [w \in Workers |-> IF w = 1
                 THEN [NoScheduler EXCEPT !.alive = TRUE, !.started = TRUE, !.phase = "ended"]
                 ELSE NoScheduler]
  /\ bound \in Bounds
  /\ edits = bound.edits
  /\ budget = bound.faults

Tick ==
  /\ now < MaxTime
  /\ now' = now + 1
  /\ UNCHANGED <<task, run, events, worker, current, edits, bound, budget>>

(* runOnce by w over the definitions T and the runs R: a drain under way is    *)
(* not joined by another, the timer is cleared in both cases.                  *)
RunOnce(w, T, R) ==
  IF worker[w].phase = "idle"
  THEN /\ task' = DrainedTasks(T, R)
       /\ run' = DrainedRuns(T, R)
       /\ worker' = [worker EXCEPT ![w].phase = "loop", ![w].timer = NoTime]
  ELSE /\ task' = T
       /\ run' = R
       /\ worker' = [worker EXCEPT ![w].timer = NoTime]

TimerFires(w) ==
  /\ worker[w].timer # NoTime
  /\ worker[w].timer <= now
  /\ RunOnce(w, task, run)
  /\ UNCHANGED <<now, events, current, edits, bound, budget>>

(* create, update and delete, and replayDelivery, each followed by wake *)
Edit(T, R) ==
  /\ edits > 0
  /\ edits' = edits - 1
  /\ worker[current].started
  /\ RunOnce(current, T, R)
  /\ UNCHANGED <<now, events, current, bound, budget>>

Create(t) ==
  /\ t \in bound.tasks /\ ~task[t].exists
  /\ \E at \in FirstAt(t) :
       Edit([task EXCEPT ![t] = [exists |-> TRUE, enabled |-> TRUE, next |-> at]], run)

(* update to another schedule or back to enabled, and update to disabled *)
Reschedule(t) ==
  /\ task[t].exists
  /\ \E at \in FirstAt(t) : Edit([task EXCEPT ![t].enabled = TRUE, ![t].next = at], run)

Disable(t) ==
  /\ task[t].exists
  /\ Edit([task EXCEPT ![t].enabled = FALSE, ![t].next = NoTime], run)

Delete(t) ==
  /\ task[t].exists
  /\ Edit([task EXCEPT ![t] = NoTask], run)

Goto(w, phase) == worker' = [worker EXCEPT ![w].phase = phase]

Put(r, row) == run' = [run EXCEPT ![r] = row]

Holds(w) == worker[w].holds

Claim(w) ==
  /\ worker[w].phase = "loop"
  /\ \E r \in Runs :
       /\ Claimable(r)
       /\ \A q \in Runs : Claimable(q) => ClaimRank(r) <= ClaimRank(q)
       /\ Put(r, Claimed(r, w))
       /\ worker' = [worker EXCEPT ![w].holds = r, ![w].aborted = FALSE,
                       ![w].phase = IF Claimed(r, w).status = "generated" THEN "deliver" ELSE "generating"]
  /\ UNCHANGED <<now, task, events, current, edits, bound, budget>>

LoopEnds(w) ==
  /\ worker[w].phase = "loop"
  /\ \A r \in Runs : ~Claimable(r)
  /\ Goto(w, "ended")
  /\ UNCHANGED <<now, task, run, events, current, edits, bound, budget>>

\* mutant: runs are not waited for
ArmForTasks(w) ==
  /\ worker[w].phase = "ended"
  /\ LET W == WakesOf(task, [r \in Runs |-> NoRun])
     IN worker' = [worker EXCEPT ![w].phase = "idle",
                     ![w].timer = IF worker[w].started /\ W # {} THEN Min(W) ELSE NoTime]
  /\ UNCHANGED <<now, task, run, events, current, edits, bound, budget>>

(* runOnce's finally block, and arm *)
Arm(w) ==
  /\ worker[w].phase = "ended"
  /\ worker' = [worker EXCEPT ![w].phase = "idle",
                  ![w].timer = IF worker[w].started THEN NextWakeAt ELSE @]
  /\ UNCHANGED <<now, task, run, events, current, edits, bound, budget>>

Generated(w) ==
  /\ worker[w].phase = "generating"
  /\ IF ~worker[w].aborted /\ Owns(Holds(w), w, {"running"})
     THEN /\ Put(Holds(w), [run[Holds(w)] EXCEPT !.status = "generated", !.text = @ + 1, !.tries = 0,
                                                 !.retry = NoTime])
          /\ worker' = [worker EXCEPT ![w].phase = "deliver"]
     ELSE Goto(w, "loop") /\ UNCHANGED run
  /\ UNCHANGED <<now, task, events, current, edits, bound, budget>>

GenerateFails(w) ==
  /\ worker[w].phase = "generating"
  /\ Spend
  /\ Goto(w, "loop")
  /\ IF ~worker[w].aborted /\ Owns(Holds(w), w, {"running", "generated"})
     THEN Put(Holds(w), Ended(Holds(w), "failed"))
     ELSE UNCHANGED run
  /\ UNCHANGED <<now, task, events, current, edits>>

(* enqueueCallback: the session queue keeps one event per run and session *)
Queued(r, targets) ==
  events \cup {[run |-> r, target |-> i, text |-> run[r].text] :
                 i \in {i \in targets : \A e \in events : ~(e.run = r /\ e.target = i)}}

(* enqueueDeliveries up to its await *)
Deliver(w) ==
  /\ worker[w].phase = "deliver"
  /\ IF worker[w].aborted
     THEN Goto(w, "loop") /\ UNCHANGED events
     ELSE events' = Queued(Holds(w), Targets) /\ Goto(w, "logging")
  /\ UNCHANGED <<now, task, run, current, edits, bound, budget>>

(* An enqueue throws before the last target, or the log write throws. *)
FailDelivery(w) ==
  /\ Spend
  /\ Goto(w, "loop")
  /\ IF ~worker[w].aborted /\ Owns(Holds(w), w, {"generated"})
     THEN \E delay \in 1 .. Backoff : Put(Holds(w), DeliveryFailed(Holds(w), delay))
     ELSE UNCHANGED run
  /\ UNCHANGED <<now, task, current, edits>>

EnqueueFails(w) ==
  /\ worker[w].phase = "deliver"
  /\ ~worker[w].aborted
  /\ \E n \in 0 .. bound.targets - 1 : events' = Queued(Holds(w), 1 .. n)
  /\ FailDelivery(w)

LogFails(w) ==
  /\ worker[w].phase = "logging"
  /\ FailDelivery(w)
  /\ UNCHANGED events

Complete(w) ==
  /\ worker[w].phase = "logging"
  /\ Goto(w, "loop")
  /\ IF ~worker[w].aborted /\ Owns(Holds(w), w, {"generated"})
     THEN Put(Holds(w), Ended(Holds(w), "completed"))
     ELSE UNCHANGED run
  /\ UNCHANGED <<now, task, events, current, edits, bound, budget>>

(* The renewal interval, which runs on after an abort; a lease that is lost, or *)
(* an error, aborts the call.                                                  *)
Renew(w) ==
  /\ worker[w].phase \in {"generating", "logging"}
  /\ IF Owns(Holds(w), w, {"running", "generated"})
     THEN /\ run[Holds(w)].lease < now + Lease
          /\ Put(Holds(w), [run[Holds(w)] EXCEPT !.lease = now + Lease])
          /\ UNCHANGED worker
     ELSE worker' = [worker EXCEPT ![w].aborted = TRUE] /\ UNCHANGED run
  /\ UNCHANGED <<now, task, events, current, edits, bound, budget>>

RenewFails(w) ==
  /\ worker[w].phase \in {"generating", "logging"}
  /\ ~worker[w].aborted
  /\ Spend
  /\ worker' = [worker EXCEPT ![w].aborted = TRUE]
  /\ UNCHANGED <<now, task, run, events, current, edits>>

(* replayDelivery: the row of a run that failed may be claimed at once *)
Replay(r) ==
  /\ run[r].status = "failed" /\ run[r].text > 0 /\ run[r].tries > 0
  /\ Edit(task, [run EXCEPT ![r].status = "generated", ![r].tries = 0, ![r].retry = now,
                            ![r].owner = NoWorker, ![r].lease = now, ![r].done = NoTime])

(* stop aborts the call under way; the loop goes on with the next run. *)
Stop ==
  /\ worker[current].started
  /\ Spend
  /\ worker' = [worker EXCEPT ![current].started = FALSE, ![current].timer = NoTime,
                              ![current].aborted = TRUE]
  /\ UNCHANGED <<now, task, run, events, current, edits>>

Crash ==
  /\ worker[current].alive
  /\ Spend
  /\ worker' = [w \in Workers |-> NoScheduler]
  /\ UNCHANGED <<now, task, run, events, current, edits>>

(* start of the next scheduler, which wakes at once *)
Start ==
  /\ ~worker[current].started
  /\ current < bound.workers
  /\ current' = current + 1
  /\ worker' = [worker EXCEPT ![current + 1] =
                  [NoScheduler EXCEPT !.alive = TRUE, !.started = TRUE, !.phase = "loop"]]
  /\ task' = DrainedTasks(task, run)
  /\ run' = DrainedRuns(task, run)
  /\ UNCHANGED <<now, events, edits, bound, budget>>

Next ==
  \/ Tick \/ Stop \/ Crash \/ Start
  \/ \E t \in Tasks : Create(t) \/ Reschedule(t) \/ Disable(t) \/ Delete(t)
  \/ \E r \in Runs : Replay(r)
  \/ \E w \in Workers :
       \/ TimerFires(w) \/ Claim(w) \/ LoopEnds(w) \/ Arm(w)
       \/ Generated(w) \/ GenerateFails(w)
       \/ Deliver(w) \/ EnqueueFails(w) \/ LogFails(w) \/ Complete(w)
       \/ Renew(w) \/ RenewFails(w)

Spec == Init /\ [][Next]_vars

--------------------------------------------------------------------------------
(* The next occurrence of a task never has a run already, whatever is edited,  *)
(* deleted and created again under the same id: claimDueOccurrence would throw *)
(* on every drain and stop all tasks.                                          *)
OccurrenceIsNew ==
  \A t \in Tasks : task[t].next # NoTime => run[<<t, task[t].next>>].status = "none"

(* A run is completed only when every target has its event, over partial       *)
(* failures, lapsed leases and a second scheduler.                             *)
CompletedIsQueued ==
  \A r \in Runs : run[r].status = "completed" =>
    \A i \in Targets : \E e \in events : e.run = r /\ e.target = i

(* What was rendered for a run is rendered once: all its targets get the same  *)
(* text, though it is delivered by several workers and replayed by hand.       *)
OneText ==
  \A e \in events : e.text = run[e.run].text

(* A rendered run is given up only after its third failed delivery: a late     *)
(* worker does not end a run that another one delivers.                        *)
GivenUpAfterThree ==
  \A r \in Runs : run[r].status = "failed" /\ run[r].text > 0 => run[r].tries = MaxDeliveries

(* A scheduler that is started and not draining has a timer whenever there is  *)
(* something to wait for; alone, it is never later than the first of it.       *)
SleepsInTime ==
  \A w \in Workers :
    worker[w].started /\ worker[w].phase = "idle" /\ NextWakeAt # NoTime =>
      /\ worker[w].timer # NoTime
      /\ \/ worker[w].timer <= NextWakeAt
         \/ \E v \in Workers \ {w} : worker[v].alive

(* A completed run stays as it is, and a failed one changes only by a replay.  *)
OutcomeStands ==
  [][\A r \in Runs :
       /\ run[r].status = "completed" => run'[r] = run[r]
       /\ run[r].status = "failed" /\ run'[r] # run[r] => run'[r].retry = now /\ run'[r].text = run[r].text]_vars

(* The next occurrence of every task can be claimed.                           *)
OccurrencesOpen == SchedulerTypeOK /\ OccurrenceIsNew

(* A run is delivered as one thing, over retries, lapsed leases and a second   *)
(* scheduler: one text, to all its targets or given up after the third try.    *)
DeliveredAsOne == CompletedIsQueued /\ OneText /\ GivenUpAfterThree

================================================================================
