--------------------------- MODULE ScheduledTaskProofs --------------------------
(* Proofs about ScheduledTasks for any number of tasks, schedulers, targets and *)
(* disturbances, and any times.                                                 *)
EXTENDS ScheduledTasks, WellFoundedInduction, TLAPS

TaskRow == [exists : BOOLEAN, enabled : BOOLEAN, next : Times \cup {NoTime}]

RunRow ==
  [status : {"none", "pending", "running", "generated", "completed", "failed"},
   text : Nat, tries : 0 .. MaxDeliveries, retry : Nat, owner : Workers \cup {NoWorker},
   lease : Nat, done : Nat]

Scheduler ==
  [alive : BOOLEAN, started : BOOLEAN, timer : Nat,
   phase : {"idle", "loop", "generating", "deliver", "logging", "ended"},
   holds : Runs \cup {<<>>}, aborted : BOOLEAN]

AllQueued(r) == \A i \in Targets : \E e \in events : e.run = r /\ e.target = i

\* What the row x of the run r says, is so.
RowOK(r, x) ==
  /\ x \in RunRow
  /\ (x.lease # NoTime) <=> (x.status \in {"running", "generated"})
  /\ (x.done # NoTime) <=> (x.status \in {"completed", "failed"})
  /\ x.text > 0 => x.status \in {"generated", "completed", "failed"}
  /\ x.status # "none" => r[2] <= now
  /\ x.status = "generated" => x.text > 0 /\ x.tries < MaxDeliveries
  /\ x.status = "failed" /\ x.text > 0 => x.tries = MaxDeliveries
  /\ x.status = "completed" => AllQueued(r)

\* The next occurrence of a task in T has no run in R yet.
TaskOK(T, R, t) == T[t].next # NoTime => R[<<t, T[t].next>>].status = "none"

EventOK(e) ==
  /\ e \in [run : Runs, target : 1 .. MaxTargets, text : Nat]
  /\ e.text > 0 /\ e.text = run[e.run].text

\* Only the current scheduler is started; one that is not has no timer.
LifeOK(w) ==
  /\ worker[w] \in Scheduler
  /\ worker[w].phase # "idle" \/ worker[w].started => worker[w].alive
  /\ worker[w].started => w = current
  /\ worker[w].timer # NoTime => worker[w].started

\* What a drain that holds a run knows of it, even after it lost its lease.
HolderOK(w) ==
  /\ worker[w].phase \in {"generating", "deliver", "logging"} => Holds(w) \in Runs
  /\ worker[w].phase = "generating" /\ run[Holds(w)].owner = w => run[Holds(w)].status = "running"
  /\ worker[w].phase \in {"deliver", "logging"} => run[Holds(w)].text > 0
  /\ worker[w].phase = "logging" => AllQueued(Holds(w))

Wakes == WakesOf(task, run)

Asleep(w) == worker[w].started /\ worker[w].phase = "idle"

\* The timer of a scheduler that sleeps.
TimerOK(w) ==
  Asleep(w) => /\ worker[w].timer = NoTime => Wakes = {}
               /\ worker[w].timer = NextWakeAt \/ \E v \in Workers \ {w} : worker[v].alive

Frame ==
  /\ now \in 1 .. MaxTime /\ bound \in Bounds /\ current \in Workers
  /\ edits \in 0 .. bound.edits /\ budget \in 0 .. bound.faults
  /\ task \in [Tasks -> TaskRow] /\ run \in [Runs -> RunRow]
  /\ worker \in [Workers -> Scheduler]

Inv ==
  /\ Frame
  /\ \A t \in Tasks : TaskOK(task, run, t)
  /\ \A r \in Runs : RowOK(r, run[r])
  /\ \A e \in events : EventOK(e)
  /\ \A w \in Workers : LifeOK(w) /\ HolderOK(w) /\ TimerOK(w)

--------------------------------------------------------------------------------
(* Times *)

\* A time after now, at which a cron task is due.
LEMMA CronLater ==
  ASSUME now \in 1 .. MaxTime
  PROVE  CronAfter(now) \in Times /\ CronAfter(now) > now
<1>1. Period \in Nat \ {0} /\ MaxTime \in Nat /\ now \in Nat
  BY SchedulerAssumption
<1>2. ((now \div Period) + 1) * Period > now /\ (now \div Period) * Period <= now
      /\ now \div Period \in Nat
  BY <1>1
<1>3. ((now \div Period) + 1) * Period = (now \div Period) * Period + Period
      /\ (now \div Period) * Period \in Nat
  BY <1>1, <1>2
<1> QED  BY <1>1, <1>2, <1>3 DEF CronAfter, Times

\* A schedule starts later than now.
LEMMA FirstLater ==
  ASSUME now \in 1 .. MaxTime, NEW t \in Tasks
  PROVE  FirstAt(t) \subseteq Times /\ \A at \in FirstAt(t) : at > now
<1>1. Period \in Nat \ {0} /\ MaxTime \in Nat
  BY SchedulerAssumption
<1>2. now + 1 .. MaxTime \subseteq Times
  BY <1>1 DEF Times
<1> QED  BY <1>1, <1>2, CronLater DEF FirstAt

\* A set of numbers has a least one (Min is a CHOOSE).
LEMMA LeastIn ==
  ASSUME NEW W \in SUBSET Nat, W # {}
  PROVE  Min(W) \in W /\ \A x \in W : Min(W) <= x
<1> DEFINE less == OpToRel(<, Nat)
<1>1. IsWellFoundedOn(less, Nat)
  BY NatLessThanWellFounded
<1>2. \A t, u \in Nat : ~(<<u, t>> \in less) => t <= u
  BY DEF OpToRel
<1> HIDE DEF less
<1>3. \E t \in W : \A u \in W : ~(<<u, t>> \in less)
  BY <1>1, WFMin
<1>4. \E t \in W : \A u \in W : t <= u
  BY <1>2, <1>3
<1> QED  BY <1>4 DEF Min

\* What a scheduler waits for are times.
LEMMA WakesAreTimes ==
  ASSUME Frame, \A r \in Runs : RowOK(r, run[r])
  PROVE  Wakes \subseteq Nat \ {0}
<1>0. Period \in Nat \ {0} /\ MaxTime \in Nat /\ Retention \in Nat \ {0}
  BY SchedulerAssumption
<1>1. \A t \in Tasks : task[t].next # NoTime => task[t].next \in Nat \ {0}
  BY <1>0 DEF Frame, TaskRow, Times, NoTime
<1>2. ASSUME NEW r \in Runs
      PROVE  /\ r[2] \in Nat \ {0} /\ run[r].done \in Nat /\ run[r].retry \in Nat
             /\ run[r].status \in {"running", "generated"} => run[r].lease \in Nat \ {0}
  <2>1. r[2] \in Times /\ run[r] \in RunRow /\ RowOK(r, run[r])
    BY DEF Runs, Frame
  <2> QED  BY <1>0, <2>1 DEF Times, RunRow, RowOK, NoTime
<1>3. Archived(task, run) \subseteq Runs
  BY DEF Archived
<1> QED  BY <1>0, <1>1, <1>2, <1>3 DEF Wakes, WakesOf, NoTime

\* NextWakeAt is the first of them, or none.
LEMMA NextWakeIs ==
  ASSUME Frame, \A r \in Runs : RowOK(r, run[r])
  PROVE  /\ NextWakeAt \in Nat
         /\ NextWakeAt = NoTime <=> Wakes = {}
<1>1. CASE Wakes = {}
  BY <1>1 DEF NextWakeAt, Wakes, NoTime
<1>2. CASE Wakes # {}
  <2>1. Min(Wakes) \in Nat \ {0}
    BY <1>2, WakesAreTimes, LeastIn
  <2>2. NextWakeAt = Min(Wakes)
    BY <1>2 DEF NextWakeAt, Wakes
  <2> QED  BY <1>2, <2>1, <2>2 DEF NoTime
<1> QED  BY <1>1, <1>2

--------------------------------------------------------------------------------
(* Rows that change *)

\* A holder of w keeps what it knows when rows change under it as they may.
KeptFor(w) ==
  \A r \in Runs : run'[r] # run[r] =>
    run'[r].owner # w /\ (run[r].text > 0 => run'[r].text = run[r].text)

\* What has been queued stays queued.
LEMMA QueuedStays ==
  ASSUME NEW r, AllQueued(r), events \subseteq events', bound' = bound
  PROVE  AllQueued(r)'
  BY DEF AllQueued, Targets

\* The holder keeps what it knows.
LEMMA HolderKept ==
  ASSUME NEW w \in Workers, HolderOK(w), KeptFor(w), events \subseteq events', bound' = bound,
         worker'[w].phase = worker[w].phase, worker'[w].holds = worker[w].holds,
         run \in [Runs -> RunRow], run' \in [Runs -> RunRow]
  PROVE  HolderOK(w)'
<1>1. CASE worker[w].phase \notin {"generating", "deliver", "logging"}
  BY <1>1 DEF HolderOK
<1>2. CASE worker[w].phase \in {"generating", "deliver", "logging"}
  <2>1. Holds(w) \in Runs /\ Holds(w)' = Holds(w)
    BY <1>2 DEF HolderOK, Holds
  <2>2. run'[Holds(w)] # run[Holds(w)] => /\ run'[Holds(w)].owner # w
                                          /\ run[Holds(w)].text > 0 => run'[Holds(w)].text = run[Holds(w)].text
    BY <2>1 DEF KeptFor
  <2>3. AllQueued(Holds(w)) => AllQueued(Holds(w))'
    BY <2>1, QueuedStays
  <2> QED  BY <2>1, <2>2, <2>3 DEF HolderOK
<1> QED  BY <1>1, <1>2

--------------------------------------------------------------------------------
(* Steps of one scheduler *)

Active == {"pending", "running", "generated"}

Counted == (budget' = budget /\ bound' = bound) \/ Spend

\* the rows that w may change, and how
Changes(w) ==
  \A r \in Runs : run'[r] # run[r] =>
    /\ run[r].status \in Active /\ run'[r].owner \in {w, NoWorker}
    /\ run[r].text > 0 => run'[r].text = run[r].text
    /\ RowOK(r, run[r])'

\* Disturbances are spent, the bound stays.
LEMMA CountedTyped ==
  ASSUME Frame, Counted
  PROVE  bound' = bound /\ bound' \in Bounds /\ budget' \in 0 .. bound'.faults
<1>1. bound \in Bounds /\ bound.faults \in Nat /\ budget \in 0 .. bound.faults
  BY SchedulerAssumption DEF Frame, Bound
<1> QED  BY <1>1 DEF Counted, Spend

\* The rows and events that a step of w leaves.
LEMMA ChangesKeep ==
  ASSUME Inv, NEW w \in Workers, Changes(w), run' \in [Runs -> RunRow],
         UNCHANGED <<now, task, current, edits>>, Counted, events \subseteq events',
         \A e \in events' : e \in events \/ EventOK(e)
  PROVE  /\ \A t \in Tasks : TaskOK(task, run, t)'
         /\ \A r \in Runs : RowOK(r, run[r])'
         /\ \A e \in events' : EventOK(e)'
         /\ \A v \in Workers \ {w} : KeptFor(v)
<1>0. /\ bound' = bound /\ run \in [Runs -> RunRow] /\ task \in [Tasks -> TaskRow]
      /\ now \in 1 .. MaxTime /\ MaxTime \in Nat /\ now' = now /\ task' = task
  BY CountedTyped, SchedulerAssumption DEF Inv, Frame
<1>1. ASSUME NEW t \in Tasks PROVE TaskOK(task, run, t)'
  <2> SUFFICES ASSUME task[t].next # NoTime PROVE run'[<<t, task[t].next>>].status = "none"
    BY <1>0 DEF TaskOK
  <2>1. <<t, task[t].next>> \in Runs
    BY <1>0 DEF TaskRow, Runs
  <2>2. run[<<t, task[t].next>>].status = "none"
    BY DEF Inv, TaskOK
  <2> QED  BY <2>1, <2>2 DEF Changes, Active
<1>2. ASSUME NEW r \in Runs PROVE RowOK(r, run[r])'
  <2>1. CASE run'[r] # run[r]
    BY <2>1 DEF Changes
  <2>2. CASE run'[r] = run[r]
    <3>1. RowOK(r, run[r])
      BY DEF Inv
    <3>2. now \in Nat /\ now' \in Nat /\ now <= now'
      BY <1>0
    <3>3. AllQueued(r) => AllQueued(r)'
      BY <1>0, QueuedStays
    <3> QED  BY <1>0, <2>2, <3>1, <3>3 DEF RowOK
  <2> QED  BY <2>1, <2>2
<1>3. ASSUME NEW e \in events' PROVE EventOK(e)'
  <2>1. EventOK(e)
    BY <1>3 DEF Inv
  <2> QED  BY <2>1 DEF EventOK, Changes
<1>4. ASSUME NEW v \in Workers \ {w} PROVE KeptFor(v)
  <2>1. v # NoWorker
    BY SchedulerAssumption DEF Workers, NoWorker
  <2> QED  BY <1>4, <2>1 DEF KeptFor, Changes
<1> QED  BY <1>1, <1>2, <1>3, <1>4

\* Who sleeps without anything to wait for has nothing to wait for after it.
LEMMA NothingComes ==
  ASSUME Inv, NEW w \in Workers, Changes(w), run' \in [Runs -> RunRow], task' = task,
         Wakes = {}
  PROVE  run' = run /\ Wakes' = {}
<1>1. run \in [Runs -> RunRow]
  BY DEF Inv, Frame
<1>2. ASSUME NEW r \in Runs, run[r].status \in Active PROVE FALSE
  <2> DEFINE at == IF run[r].status = "pending" THEN r[2]
                   ELSE IF run[r].retry # NoTime THEN run[r].retry ELSE run[r].lease
  <2>1. at \in Wakes
    BY <1>2 DEF Wakes, WakesOf, Active
  <2> QED  BY <2>1
<1>3. \A r \in Runs : run'[r] = run[r]
  BY <1>2 DEF Changes
<1>4. run' = run
  BY <1>1, <1>3
<1> QED  BY <1>4 DEF Wakes

\* A drain of w goes on, or another one begins.
LEMMA MovesKeep ==
  ASSUME Inv, NEW w \in Workers, NEW y \in Scheduler, worker' = [worker EXCEPT ![w] = y],
         worker[w].phase # "idle", y.phase # "idle", y.alive = worker[w].alive,
         y.started = worker[w].started, y.timer = worker[w].timer,
         UNCHANGED <<now, task, current, edits>>, Counted,
         run' \in [Runs -> RunRow], Changes(w), events \subseteq events',
         \A e \in events' : e \in events \/ EventOK(e), HolderOK(w)'
  PROVE  Inv'
<1>0. /\ worker \in [Workers -> Scheduler] /\ worker' \in [Workers -> Scheduler]
      /\ worker'[w] = y /\ \A v \in Workers \ {w} : worker'[v] = worker[v]
      /\ bound' = bound /\ task' = task /\ current' = current
      /\ run \in [Runs -> RunRow]
  BY CountedTyped DEF Inv, Frame
<1>1. Frame'
  BY <1>0, CountedTyped DEF Inv, Frame
<1>2. /\ \A t \in Tasks : TaskOK(task, run, t)'
      /\ \A r \in Runs : RowOK(r, run[r])'
      /\ \A e \in events' : EventOK(e)'
      /\ \A v \in Workers \ {w} : KeptFor(v)
  BY ChangesKeep
<1>3. LifeOK(w)' /\ TimerOK(w)'
  BY <1>0 DEF Inv, LifeOK, TimerOK, Asleep
<1>4. ASSUME NEW v \in Workers, v # w PROVE LifeOK(v)' /\ HolderOK(v)' /\ TimerOK(v)'
  <2>0. LifeOK(v) /\ HolderOK(v) /\ TimerOK(v) /\ worker'[v] = worker[v]
    BY <1>0, <1>4 DEF Inv
  <2>1. LifeOK(v)'
    BY <1>0, <2>0 DEF LifeOK
  <2>2. HolderOK(v)'
    BY <1>0, <1>2, <1>4, <2>0, HolderKept
  <2>3. worker'[w].alive
    BY <1>0 DEF Inv, LifeOK
  <2>4. TimerOK(v)'
    BY <1>0, <1>4, <2>0, <2>3, NothingComes DEF TimerOK, Asleep
  <2> QED  BY <2>1, <2>2, <2>4
<1> QED  BY <1>1, <1>2, <1>3, <1>4 DEF Inv

\* One row is put.
LEMMA PutKeeps ==
  ASSUME Inv, NEW w \in Workers, NEW h \in Runs, NEW x, Put(h, x), RowOK(h, x),
         run[h].status \in Active, x.owner \in {w, NoWorker}, run[h].text > 0 => x.text = run[h].text,
         events \subseteq events', bound' = bound, now' = now
  PROVE  run' \in [Runs -> RunRow] /\ run'[h] = x /\ Changes(w)
<1>1. run \in [Runs -> RunRow] /\ x \in RunRow /\ run' = [run EXCEPT ![h] = x]
  BY DEF Inv, Frame, RowOK, Put
<1>2. run' \in [Runs -> RunRow] /\ run'[h] = x /\ \A r \in Runs \ {h} : run'[r] = run[r]
  BY <1>1
<1>3. AllQueued(h) => AllQueued(h)'
  BY QueuedStays
<1>4. RowOK(h, run[h])'
  BY <1>2, <1>3 DEF RowOK
<1> QED  BY <1>2, <1>4 DEF Changes

\* No row is.
LEMMA NoPut == run' = run => \A w : Changes(w)
  BY DEF Changes

\* What is known before a step of w.
LEMMA Before ==
  ASSUME Inv, NEW w \in Workers
  PROVE  /\ worker \in [Workers -> Scheduler] /\ worker[w] \in Scheduler
         /\ run \in [Runs -> RunRow] /\ LifeOK(w) /\ HolderOK(w)
         /\ now \in Nat \ {0} /\ Lease \in Nat \ {0} /\ w # NoWorker
         /\ worker[w].phase \in {"generating", "deliver", "logging"} =>
              Holds(w) \in Runs /\ RowOK(Holds(w), run[Holds(w)])
<1>1. MaxTime \in Nat /\ bound.lease \in Nat \ {0}
  BY SchedulerAssumption DEF Inv, Frame, Bound
<1>2. now \in Nat \ {0} /\ w # NoWorker
  BY <1>1, SchedulerAssumption DEF Inv, Frame, Workers, NoWorker
<1> QED  BY <1>1, <1>2 DEF Inv, Frame, HolderOK, Lease

\* The scheduler w goes on in another phase, holding what it holds.
LEMMA GoesOn ==
  ASSUME Inv, NEW w \in Workers,
         NEW phase \in {"loop", "generating", "deliver", "logging", "ended"}, Goto(w, phase),
         worker[w].phase # "idle", UNCHANGED <<now, task, current, edits>>, Counted,
         run' \in [Runs -> RunRow], Changes(w), events \subseteq events',
         \A e \in events' : e \in events \/ EventOK(e),
         phase = "generating" /\ run'[Holds(w)].owner = w => run'[Holds(w)].status = "running",
         phase \in {"generating", "deliver", "logging"} => Holds(w) \in Runs,
         phase \in {"deliver", "logging"} => run'[Holds(w)].text > 0,
         phase = "logging" => AllQueued(Holds(w))'
  PROVE  Inv'
<1> DEFINE y == [worker[w] EXCEPT !.phase = phase]
<1>0. worker \in [Workers -> Scheduler] /\ worker[w] \in Scheduler
  BY Before
<1>1. worker' = [worker EXCEPT ![w] = y]
  BY DEF Goto
<1>2. /\ y \in Scheduler /\ y.phase = phase /\ y.alive = worker[w].alive /\ y.holds = Holds(w)
      /\ y.started = worker[w].started /\ y.timer = worker[w].timer
  BY <1>0 DEF Scheduler, Holds
<1>3. Holds(w)' = Holds(w) /\ worker'[w].phase = phase
  BY <1>0, <1>1, <1>2 DEF Holds
<1>4. HolderOK(w)'
  <2>1. Holds(w)' \in Runs <=> Holds(w) \in Runs
    BY <1>3 DEF Runs, Times
  <2> QED  BY <1>3, <2>1 DEF HolderOK
<1>5. phase # "idle"
  OBVIOUS
<1> HIDE DEF y
<1> QED  BY <1>1, <1>2, <1>4, <1>5, MovesKeep

\* A claim takes the run for this scheduler alone.
LEMMA ClaimKeeps == ASSUME Inv, NEW w \in Workers, Claim(w) PROVE Inv'
<1>0. /\ worker \in [Workers -> Scheduler] /\ worker[w] \in Scheduler /\ w # NoWorker
      /\ now \in Nat \ {0} /\ Lease \in Nat \ {0} /\ worker[w].phase = "loop"
      /\ UNCHANGED <<now, task, events, current, edits, bound, budget>>
      /\ run \in [Runs -> RunRow]
  BY Before DEF Claim
<1> DEFINE x(r) == Claimed(r, w)
<1> DEFINE y(r) == [worker[w] EXCEPT !.holds = r, !.aborted = FALSE,
                      !.phase = IF x(r).status = "generated" THEN "deliver" ELSE "generating"]
<1>1. PICK r \in Runs : Claimable(r) /\ Put(r, x(r)) /\ worker' = [worker EXCEPT ![w] = y(r)]
  BY DEF Claim
<1>2. /\ x(r) \in RunRow /\ x(r).owner = w /\ x(r).lease # NoTime /\ x(r).done = run[r].done
      /\ x(r).text = run[r].text /\ x(r).tries = run[r].tries
      /\ x(r).status = IF run[r].status = "generated" THEN "generated" ELSE "running"
  <2>1. run[r] \in RunRow /\ now + Lease \in Nat /\ now + Lease # 0 /\ NoTime \in Nat
    BY <1>0 DEF NoTime
  <2> QED  BY <2>1 DEF Claimed, RunRow, NoTime
<1> HIDE DEF x
<1>3. run[r].status \in Active /\ RowOK(r, run[r])
  BY <1>1 DEF Claimable, Active, Inv
<1>4. RowOK(r, x(r))
  BY <1>2, <1>3 DEF RowOK, Active
<1>5. run' \in [Runs -> RunRow] /\ run'[r] = x(r) /\ Changes(w)
  <2>1. x(r).owner \in {w, NoWorker} /\ (run[r].text > 0 => x(r).text = run[r].text)
    BY <1>2
  <2>2. events \subseteq events' /\ bound' = bound /\ now' = now
    BY <1>0
  <2>3. Put(r, x(r))
    BY <1>1
  <2> QED  BY <1>3, <1>4, <2>1, <2>2, <2>3, PutKeeps
<1>6. /\ y(r) \in Scheduler /\ y(r).holds = r
      /\ y(r).phase = IF x(r).status = "generated" THEN "deliver" ELSE "generating"
      /\ y(r).alive = worker[w].alive /\ y(r).started = worker[w].started
      /\ y(r).timer = worker[w].timer
  BY <1>0 DEF Scheduler
<1> HIDE DEF y
<1>7. worker'[w] = y(r)
  BY <1>0, <1>1
<1>8. HolderOK(w)'
  <2>1. Holds(w)' = r /\ worker'[w].phase \in {"deliver", "generating"} /\ Runs' = Runs
    BY <1>6, <1>7 DEF Holds, Runs, Times
  <2>2. worker'[w].phase = "generating" => run'[r].status = "running"
    BY <1>2, <1>5, <1>6, <1>7
  <2>3. worker'[w].phase = "deliver" => run'[r].text > 0
    BY <1>2, <1>3, <1>5, <1>6, <1>7 DEF RowOK
  <2> QED  BY <2>1, <2>2, <2>3 DEF HolderOK
<1>9. y(r).phase # "idle" /\ worker[w].phase # "idle" /\ Counted
      /\ UNCHANGED <<now, task, current, edits>> /\ events' = events
  BY <1>0, <1>6 DEF Counted
<1> QED  BY <1>1, <1>5, <1>6, <1>8, <1>9, MovesKeep

\* The loop ends when nothing can be claimed.
LEMMA LoopEndsKeeps == ASSUME Inv, NEW w \in Workers, LoopEnds(w) PROVE Inv'
<1>1. /\ worker[w].phase # "idle" /\ Counted /\ run' = run /\ events' = events
      /\ UNCHANGED <<now, task, current, edits>> /\ Goto(w, "ended")
  BY DEF LoopEnds, Counted
<1>2. run' \in [Runs -> RunRow] /\ Changes(w)
  BY <1>1, Before, NoPut
<1> QED  BY <1>1, <1>2, GoesOn

\* A drain that has ended arms the timer for what there is to wait for.
LEMMA ArmKeeps == ASSUME Inv, NEW w \in Workers, Arm(w) PROVE Inv'
<1> DEFINE y == [worker[w] EXCEPT !.phase = "idle",
                   !.timer = IF worker[w].started THEN NextWakeAt ELSE @]
<1>0. /\ worker \in [Workers -> Scheduler] /\ worker[w] \in Scheduler /\ LifeOK(w)
      /\ worker' = [worker EXCEPT ![w] = y] /\ worker[w].phase = "ended"
      /\ now' = now /\ task' = task /\ run' = run /\ events' = events /\ current' = current
      /\ edits' = edits /\ bound' = bound /\ budget' = budget
  BY Before DEF Arm
<1>1. NextWakeAt \in Nat /\ (NextWakeAt = NoTime <=> Wakes = {})
  BY NextWakeIs DEF Inv
<1>2. /\ y \in Scheduler /\ y.phase = "idle" /\ y.alive = worker[w].alive
      /\ y.started = worker[w].started
      /\ y.timer = IF worker[w].started THEN NextWakeAt ELSE worker[w].timer
  BY <1>0, <1>1 DEF Scheduler
<1> HIDE DEF y
<1>3. /\ worker' \in [Workers -> Scheduler] /\ worker'[w] = y
      /\ \A v \in Workers \ {w} : worker'[v] = worker[v]
  BY <1>0, <1>2
<1>4. Frame'
  BY <1>0, <1>3 DEF Inv, Frame
<1>5. /\ \A t \in Tasks : TaskOK(task, run, t)'
      /\ \A r \in Runs : RowOK(r, run[r])'
      /\ \A e \in events' : EventOK(e)'
      /\ \A v \in Workers \ {w} : KeptFor(v)
  <2>1. Changes(w) /\ run' \in [Runs -> RunRow] /\ Counted
    BY <1>0, Before, NoPut DEF Counted
  <2> QED  BY <1>0, <2>1, ChangesKeep
<1>6. LifeOK(w)' /\ HolderOK(w)'
  BY <1>0, <1>2, <1>3 DEF LifeOK, HolderOK
<1>7. TimerOK(w)'
  <2>1. NextWakeAt' = NextWakeAt /\ Wakes' = Wakes
    BY <1>0 DEF NextWakeAt, Wakes, WakesOf, Archived, Latest
  <2> QED  BY <1>1, <1>2, <1>3, <2>1 DEF TimerOK, Asleep
<1>8. ASSUME NEW v \in Workers, v # w PROVE LifeOK(v)' /\ HolderOK(v)' /\ TimerOK(v)'
  <2>0. LifeOK(v) /\ HolderOK(v) /\ TimerOK(v) /\ worker'[v] = worker[v]
    BY <1>3, <1>8 DEF Inv
  <2>1. LifeOK(v)'
    BY <1>0, <2>0 DEF LifeOK
  <2>2. HolderOK(v)'
    <3>1. KeptFor(v) /\ run \in [Runs -> RunRow]
      BY <1>5, <1>8, Before
    <3> QED  BY <1>0, <2>0, <3>1, HolderKept
  <2>3. worker'[w].alive
    BY <1>0, <1>2, <1>3 DEF LifeOK
  <2>4. TimerOK(v)'
    BY <1>0, <1>8, <2>0, <2>3 DEF TimerOK, Asleep, Wakes
  <2> QED  BY <2>1, <2>2, <2>4
<1> QED  BY <1>4, <1>5, <1>6, <1>7, <1>8 DEF Inv

\* The text of a run is rendered by its owner while it runs, so for the first time.
LEMMA GeneratedKeeps == ASSUME Inv, NEW w \in Workers, Generated(w) PROVE Inv'
<1> DEFINE h == Holds(w)
<1> DEFINE x == [run[h] EXCEPT !.status = "generated", !.text = @ + 1, !.tries = 0, !.retry = NoTime]
<1>0. /\ h \in Runs /\ RowOK(h, run[h]) /\ worker[w].phase # "idle" /\ Counted /\ events' = events
      /\ now' = now /\ bound' = bound /\ UNCHANGED <<now, task, current, edits>>
      /\ run \in [Runs -> RunRow] /\ run[h] \in RunRow
  BY Before DEF Generated, Counted
<1>1. CASE run' = run /\ Goto(w, "loop")
  BY <1>0, <1>1, NoPut, GoesOn
<1>2. CASE Owns(h, w, {"running"}) /\ Put(h, x) /\ Goto(w, "deliver")
  <2>1. run[h].owner = w /\ run[h].status = "running" /\ run[h].text = 0
    BY <1>0, <1>2 DEF Owns, RowOK, RunRow
  <2>2. /\ x \in RunRow /\ x.text = 1 /\ x.owner = w /\ x.status = "generated" /\ x.tries = 0
        /\ x.lease = run[h].lease /\ x.done = run[h].done
    <3> DEFINE z(n, m, k) ==
          [run[h] EXCEPT !.status = "generated", !.text = n, !.tries = m, !.retry = k]
    <3>1. x = z(1, 0, NoTime)
      BY <2>1
    <3>2. \A n \in Nat, m \in 0 .. MaxDeliveries, k \in Nat :
            /\ z(n, m, k) \in RunRow /\ z(n, m, k).text = n /\ z(n, m, k).owner = run[h].owner
            /\ z(n, m, k).status = "generated" /\ z(n, m, k).tries = m
            /\ z(n, m, k).lease = run[h].lease /\ z(n, m, k).done = run[h].done
      BY <1>0 DEF RunRow
    <3>3. 0 \in 0 .. MaxDeliveries /\ NoTime \in Nat /\ 1 \in Nat
      BY DEF NoTime, MaxDeliveries
    <3> HIDE DEF x, h, z
    <3> QED  BY <2>1, <3>1, <3>2, <3>3
  <2> HIDE DEF x, h
  <2>3. RowOK(h, x)
    BY <1>0, <2>1, <2>2 DEF RowOK, MaxDeliveries
  <2>4. run' \in [Runs -> RunRow] /\ run'[h] = x /\ Changes(w)
    BY <1>0, <1>2, <2>1, <2>2, <2>3, PutKeeps DEF Active
  <2>5. run'[h].text > 0
    BY <2>2, <2>4
  <2> QED  BY <1>0, <1>2, <2>4, <2>5, GoesOn DEF h
<1>3. \/ run' = run /\ Goto(w, "loop")
      \/ Owns(h, w, {"running"}) /\ Put(h, x) /\ Goto(w, "deliver")
  BY DEF Generated, Goto
<1> QED  BY <1>1, <1>2, <1>3

\* The row of a run that has ended.
LEMMA EndedRow ==
  ASSUME Inv, NEW h \in Runs, NEW status \in {"completed", "failed"}
  PROVE  /\ Ended(h, status) \in RunRow /\ Ended(h, status).status = status
         /\ Ended(h, status).owner = NoWorker /\ Ended(h, status).lease = NoTime
         /\ Ended(h, status).done = now /\ Ended(h, status).done # NoTime
         /\ Ended(h, status).text = run[h].text /\ Ended(h, status).tries = run[h].tries
<1>1. run[h] \in RunRow /\ NoWorker \in Workers \cup {NoWorker} /\ NoTime \in Nat
  BY DEF Inv, Frame, NoTime
<1>2. now \in Nat /\ now # NoTime
  BY SchedulerAssumption DEF Inv, Frame, NoTime
<1> DEFINE z(o, l, k, d) ==
      [run[h] EXCEPT !.status = status, !.owner = o, !.lease = l, !.retry = k, !.done = d]
<1>3. ASSUME NEW o \in Workers \cup {NoWorker}, NEW l \in Nat, NEW k \in Nat, NEW d \in Nat
      PROVE  /\ z(o, l, k, d) \in RunRow /\ z(o, l, k, d).status = status /\ z(o, l, k, d).owner = o
             /\ z(o, l, k, d).lease = l /\ z(o, l, k, d).done = d
             /\ z(o, l, k, d).text = run[h].text /\ z(o, l, k, d).tries = run[h].tries
  <2>1. z(o, l, k, d) \in RunRow
    BY <1>1 DEF RunRow
  <2>2. /\ z(o, l, k, d).status = status /\ z(o, l, k, d).owner = o
        /\ z(o, l, k, d).lease = l /\ z(o, l, k, d).done = d
        /\ z(o, l, k, d).text = run[h].text /\ z(o, l, k, d).tries = run[h].tries
    BY <1>1 DEF RunRow
  <2> QED  BY <2>1, <2>2
<1>4. Ended(h, status) = z(NoWorker, NoTime, NoTime, now)
  BY DEF Ended
<1> HIDE DEF z
<1> DEFINE e == z(NoWorker, NoTime, NoTime, now)
<1>5. /\ e \in RunRow /\ e.status = status /\ e.owner = NoWorker
      /\ e.lease = NoTime /\ e.done = now /\ e.text = run[h].text /\ e.tries = run[h].tries
  BY <1>1, <1>2, <1>3
<1> HIDE DEF e
<1> QED  BY <1>2, <1>4, <1>5 DEF e

\* A rendering that fails ends a run that has no text yet.
LEMMA GenerateFailsKeeps == ASSUME Inv, NEW w \in Workers, GenerateFails(w) PROVE Inv'
<1> DEFINE h == Holds(w)
<1> DEFINE x == Ended(h, "failed")
<1>0. /\ h \in Runs /\ RowOK(h, run[h]) /\ worker[w].phase = "generating" /\ Counted
      /\ events' = events /\ now' = now /\ bound' = bound
      /\ UNCHANGED <<now, task, current, edits>> /\ Goto(w, "loop")
      /\ run \in [Runs -> RunRow] /\ HolderOK(w)
  BY Before DEF GenerateFails, Counted, Spend
<1>1. CASE run' = run
  BY <1>0, <1>1, NoPut, GoesOn
<1>2. CASE Owns(h, w, {"running", "generated"}) /\ Put(h, x)
  <2>1. run[h].status = "running" /\ run[h].text = 0
    BY <1>0, <1>2 DEF Owns, HolderOK, RowOK, RunRow
  <2>2. /\ x \in RunRow /\ x.status = "failed" /\ x.owner = NoWorker /\ x.lease = NoTime
        /\ x.done # NoTime /\ x.text = 0
    BY <1>0, <2>1, EndedRow
  <2> HIDE DEF x, h
  <2>3. RowOK(h, x)
    BY <1>0, <2>1, <2>2 DEF RowOK
  <2>4. run' \in [Runs -> RunRow] /\ Changes(w)
    BY <1>0, <1>2, <2>1, <2>2, <2>3, PutKeeps DEF Active
  <2> QED  BY <1>0, <2>4, GoesOn DEF h
<1>3. run' = run \/ (Owns(h, w, {"running", "generated"}) /\ Put(h, x))
  BY DEF GenerateFails
<1> QED  BY <1>1, <1>2, <1>3

\* Events are queued for targets that have none, with the text of the run.
LEMMA QueuedEvents ==
  ASSUME Inv, NEW h \in Runs, run[h].text > 0, NEW S \in SUBSET Targets, events' = Queued(h, S),
         bound' = bound
  PROVE  /\ events \subseteq events' /\ \A e \in events' : e \in events \/ EventOK(e)
         /\ S = Targets => AllQueued(h)'
<1>0. run[h].text \in Nat /\ Targets \subseteq 1 .. MaxTargets /\ Targets' = Targets
  <2>1. run[h] \in RunRow /\ bound \in Bound
    BY SchedulerAssumption DEF Inv, Frame
  <2>2. bound.targets \in 1 .. MaxTargets /\ MaxTargets \in Nat
    BY <2>1, SchedulerAssumption DEF Bound
  <2> QED  BY <2>1, <2>2 DEF RunRow, Targets
<1>1. \A i \in Targets : [run |-> h, target |-> i, text |-> run[h].text]
        \in [run : Runs, target : 1 .. MaxTargets, text : Nat]
  BY <1>0
<1>2. \A e \in events' : e \in events \/ EventOK(e)
  BY <1>0, <1>1 DEF Queued, EventOK
<1>3. ASSUME S = Targets, NEW i \in Targets PROVE \E e \in events' : e.run = h /\ e.target = i
  <2>1. CASE \E e \in events : e.run = h /\ e.target = i
    BY <2>1 DEF Queued
  <2>2. CASE \A e \in events : ~(e.run = h /\ e.target = i)
    <3>1. [run |-> h, target |-> i, text |-> run[h].text] \in events'
      BY <1>3, <2>2 DEF Queued
    <3> QED  BY <3>1
  <2> QED  BY <2>1, <2>2
<1> QED  BY <1>0, <1>2, <1>3 DEF AllQueued, Queued

\* All targets have their events when the log is written.
LEMMA DeliverKeeps == ASSUME Inv, NEW w \in Workers, Deliver(w) PROVE Inv'
<1>0. /\ Holds(w) \in Runs /\ run[Holds(w)].text > 0 /\ worker[w].phase = "deliver" /\ Counted
      /\ run' = run /\ bound' = bound /\ UNCHANGED <<now, task, current, edits>>
      /\ run \in [Runs -> RunRow]
  BY Before DEF Deliver, Counted, HolderOK
<1>1. CASE Goto(w, "loop") /\ events' = events
  BY <1>0, <1>1, NoPut, GoesOn
<1>2. CASE events' = Queued(Holds(w), Targets) /\ Goto(w, "logging")
  <2>1. /\ events \subseteq events' /\ \A e \in events' : e \in events \/ EventOK(e)
        /\ \A i \in Targets : \E e \in events' : e.run = Holds(w) /\ e.target = i
    BY <1>0, <1>2, QueuedEvents DEF AllQueued, Targets
  <2>2. Holds(w)' = Holds(w)
    BY <1>2, Before DEF Goto, Holds, Scheduler
  <2>3. AllQueued(Holds(w))'
    BY <1>0, <2>1, <2>2 DEF AllQueued, Targets
  <2> QED  BY <1>0, <1>2, <2>1, <2>3, NoPut, GoesOn
<1> QED  BY <1>1, <1>2 DEF Deliver

\* A delivery that fails is tried again, or ends the run the third time.
LEMMA FailDeliveryKeeps ==
  ASSUME Inv, NEW w \in Workers, worker[w].phase \in {"deliver", "logging"}, FailDelivery(w),
         events \subseteq events', \A e \in events' : e \in events \/ EventOK(e)
  PROVE  Inv'
<1> DEFINE h == Holds(w)
<1>0. /\ h \in Runs /\ RowOK(h, run[h]) /\ worker[w].phase # "idle" /\ Counted
      /\ now' = now /\ bound' = bound /\ now \in Nat \ {0} /\ w # NoWorker
      /\ UNCHANGED <<now, task, current, edits>> /\ Goto(w, "loop")
      /\ run \in [Runs -> RunRow] /\ run[h] \in RunRow
  BY Before DEF FailDelivery, Counted, Spend
<1>1. CASE run' = run
  BY <1>0, <1>1, NoPut, GoesOn
<1>2. ASSUME NEW delay \in 1 .. Backoff, Owns(h, w, {"generated"}), Put(h, DeliveryFailed(h, delay))
      PROVE  Inv'
  <2> DEFINE x == DeliveryFailed(h, delay)
  <2>1. /\ run[h].status = "generated" /\ run[h].text > 0 /\ run[h].owner = w
        /\ run[h].tries \in 0 .. 2 /\ delay \in Nat \ {0}
    BY <1>0, <1>2, SchedulerAssumption DEF Owns, RowOK, RunRow, MaxDeliveries
  <2>2. RowOK(h, x) /\ x.owner \in {w, NoWorker} /\ x.text = run[h].text
    <3>1. CASE run[h].tries + 1 >= MaxDeliveries
      <4>1. x = [Ended(h, "failed") EXCEPT !.tries = @ + 1]
        BY <3>1 DEF DeliveryFailed
      <4>2. /\ Ended(h, "failed") \in RunRow /\ Ended(h, "failed").status = "failed"
            /\ Ended(h, "failed").owner = NoWorker /\ Ended(h, "failed").lease = NoTime
            /\ Ended(h, "failed").done # NoTime
            /\ Ended(h, "failed").text = run[h].text /\ Ended(h, "failed").tries = run[h].tries
        BY <1>0, EndedRow
      <4>3. run[h].tries + 1 = MaxDeliveries /\ MaxDeliveries \in 0 .. MaxDeliveries
        BY <2>1, <3>1 DEF MaxDeliveries
      <4>4. /\ x \in RunRow /\ x.status = "failed" /\ x.owner = NoWorker /\ x.lease = NoTime
            /\ x.done # NoTime /\ x.text = run[h].text /\ x.tries = MaxDeliveries
        BY <4>1, <4>2, <4>3 DEF RunRow
      <4> QED  BY <1>0, <2>1, <4>4 DEF RowOK
    <3>2. CASE ~(run[h].tries + 1 >= MaxDeliveries)
      <4>1. x = [run[h] EXCEPT !.tries = @ + 1, !.retry = now + delay, !.lease = now + delay]
        BY <3>2 DEF DeliveryFailed
      <4>2. run[h].tries + 1 \in 0 .. MaxDeliveries /\ run[h].tries + 1 < MaxDeliveries
            /\ now + delay \in Nat /\ now + delay # NoTime
        BY <1>0, <2>1, <3>2 DEF MaxDeliveries, NoTime
      <4>3. /\ x \in RunRow /\ x.status = "generated" /\ x.owner = w /\ x.lease # NoTime
            /\ x.done = run[h].done /\ x.text = run[h].text /\ x.tries < MaxDeliveries
        BY <1>0, <2>1, <4>1, <4>2 DEF RunRow
      <4> QED  BY <1>0, <2>1, <4>3 DEF RowOK
    <3> QED  BY <3>1, <3>2
  <2> HIDE DEF x, h
  <2>3. run' \in [Runs -> RunRow] /\ Changes(w)
    BY <1>0, <1>2, <2>1, <2>2, PutKeeps DEF Active, x
  <2> QED  BY <1>0, <2>3, GoesOn DEF h
<1>3. \/ run' = run
      \/ \E delay \in 1 .. Backoff : Owns(h, w, {"generated"}) /\ Put(h, DeliveryFailed(h, delay))
  BY DEF FailDelivery
<1> QED  BY <1>1, <1>2, <1>3

\* Some targets may have their events by then.
LEMMA EnqueueFailsKeeps == ASSUME Inv, NEW w \in Workers, EnqueueFails(w) PROVE Inv'
<1>0. /\ Holds(w) \in Runs /\ run[Holds(w)].text > 0 /\ worker[w].phase = "deliver"
      /\ FailDelivery(w) /\ bound' = bound
  BY Before DEF EnqueueFails, FailDelivery, Spend, HolderOK
<1>1. PICK n \in 0 .. bound.targets - 1 : events' = Queued(Holds(w), 1 .. n)
  BY DEF EnqueueFails
<1>2. 1 .. n \subseteq Targets
  <2>1. bound.targets \in Nat
    BY SchedulerAssumption DEF Inv, Frame, Bound
  <2> QED  BY <1>1, <2>1 DEF Targets
<1>3. events \subseteq events' /\ \A e \in events' : e \in events \/ EventOK(e)
  BY <1>0, <1>1, <1>2, QueuedEvents
<1> QED  BY <1>0, <1>3, FailDeliveryKeeps

\* All have them, but the log is not written.
LEMMA LogFailsKeeps == ASSUME Inv, NEW w \in Workers, LogFails(w) PROVE Inv'
  BY FailDeliveryKeeps DEF LogFails

\* A run is completed by its owner after every target has its event.
LEMMA CompleteKeeps == ASSUME Inv, NEW w \in Workers, Complete(w) PROVE Inv'
<1> DEFINE h == Holds(w)
<1> DEFINE x == Ended(h, "completed")
<1>0. /\ h \in Runs /\ RowOK(h, run[h]) /\ worker[w].phase # "idle" /\ Counted
      /\ now' = now /\ bound' = bound /\ events' = events /\ AllQueued(h)
      /\ UNCHANGED <<now, task, current, edits>> /\ Goto(w, "loop")
      /\ run \in [Runs -> RunRow] /\ run[h] \in RunRow
  BY Before DEF Complete, Counted, HolderOK
<1>1. CASE run' = run
  BY <1>0, <1>1, NoPut, GoesOn
<1>2. CASE Owns(h, w, {"generated"}) /\ Put(h, x)
  <2>1. run[h].status = "generated"
    BY <1>2 DEF Owns
  <2>2. /\ x \in RunRow /\ x.status = "completed" /\ x.owner = NoWorker /\ x.lease = NoTime
        /\ x.done # NoTime /\ x.text = run[h].text
    BY <1>0, EndedRow
  <2> HIDE DEF x, h
  <2>3. RowOK(h, x)
    BY <1>0, <2>1, <2>2 DEF RowOK
  <2>4. run' \in [Runs -> RunRow] /\ Changes(w)
    BY <1>0, <1>2, <2>1, <2>2, <2>3, PutKeeps DEF Active
  <2> QED  BY <1>0, <2>4, GoesOn DEF h
<1>3. run' = run \/ (Owns(h, w, {"generated"}) /\ Put(h, x))
  BY DEF Complete
<1> QED  BY <1>1, <1>2, <1>3

\* A call that is aborted goes on until it looks.
LEMMA AbortKeeps ==
  ASSUME Inv, NEW w \in Workers, worker[w].phase \in {"generating", "logging"},
         worker' = [worker EXCEPT ![w].aborted = TRUE],
         UNCHANGED <<now, task, run, events, current, edits>>, Counted
  PROVE  Inv'
<1> DEFINE y == [worker[w] EXCEPT !.aborted = TRUE]
<1>0. /\ worker \in [Workers -> Scheduler] /\ worker[w] \in Scheduler /\ HolderOK(w)
      /\ worker' = [worker EXCEPT ![w] = y] /\ run' = run /\ events' = events /\ bound' = bound
      /\ run' \in [Runs -> RunRow] /\ Changes(w)
  BY Before, NoPut DEF Counted, Spend
<1>1. /\ y \in Scheduler /\ y.phase = worker[w].phase /\ y.alive = worker[w].alive
      /\ y.holds = worker[w].holds /\ y.started = worker[w].started /\ y.timer = worker[w].timer
  BY <1>0 DEF Scheduler
<1> HIDE DEF y
<1>2. worker'[w] = y
  BY <1>0
<1>3. HolderOK(w)'
  BY <1>0, <1>1, <1>2, HolderKept DEF KeptFor
<1> QED  BY <1>0, <1>1, <1>3, MovesKeep

\* A renewal that fails aborts the call.
LEMMA RenewFailsKeeps == ASSUME Inv, NEW w \in Workers, RenewFails(w) PROVE Inv'
  BY AbortKeeps DEF RenewFails, Counted

\* The owner renews its lease, another one is aborted.
LEMMA RenewKeeps == ASSUME Inv, NEW w \in Workers, Renew(w) PROVE Inv'
<1> DEFINE h == Holds(w)
<1> DEFINE x == [run[h] EXCEPT !.lease = now + Lease]
<1>0. /\ h \in Runs /\ RowOK(h, run[h]) /\ worker[w].phase \in {"generating", "logging"}
      /\ Counted /\ now' = now /\ bound' = bound /\ events' = events
      /\ UNCHANGED <<now, task, events, current, edits>> /\ HolderOK(w)
      /\ run \in [Runs -> RunRow] /\ run[h] \in RunRow
      /\ now + Lease \in Nat /\ now + Lease # NoTime
  BY Before DEF Renew, Counted, NoTime
<1>1. CASE worker' = [worker EXCEPT ![w].aborted = TRUE] /\ run' = run
  BY <1>0, <1>1, AbortKeeps
<1>2. CASE Owns(h, w, {"running", "generated"}) /\ Put(h, x) /\ worker' = worker
  <2>1. run[h].owner = w /\ run[h].status \in {"running", "generated"}
    BY <1>2 DEF Owns
  <2>2. /\ x \in RunRow /\ x.status = run[h].status /\ x.owner = w /\ x.lease # NoTime
        /\ x.done = run[h].done /\ x.text = run[h].text /\ x.tries = run[h].tries
    BY <1>0, <2>1 DEF RunRow
  <2> HIDE DEF x
  <2>3. RowOK(h, x)
    BY <1>0, <2>1, <2>2 DEF RowOK
  <2> HIDE DEF h
  <2>4. run' \in [Runs -> RunRow] /\ run'[h] = x /\ Changes(w)
    BY <1>0, <1>2, <2>1, <2>2, <2>3, PutKeeps DEF Active
  <2>5. Goto(w, worker[w].phase)
    BY <1>2, Before DEF Goto, Scheduler
  <2>6. /\ worker[w].phase = "generating" /\ run'[h].owner = w => run'[h].status = "running"
        /\ worker[w].phase = "logging" => run'[h].text > 0 /\ AllQueued(h)
    BY <1>0, <2>1, <2>2, <2>4 DEF HolderOK, h
  <2>7. worker[w].phase = "logging" => AllQueued(Holds(w))'
    BY <1>0, <1>2, <2>6 DEF AllQueued, Targets, Holds, h
  <2> QED  BY <1>0, <2>4, <2>5, <2>6, <2>7, GoesOn DEF h
<1>3. \/ worker' = [worker EXCEPT ![w].aborted = TRUE] /\ run' = run
      \/ Owns(h, w, {"running", "generated"}) /\ Put(h, x) /\ worker' = worker
  BY DEF Renew
<1> QED  BY <1>1, <1>2, <1>3

--------------------------------------------------------------------------------
(* The drain, edits and lives *)

\* A run that is made for an occurrence.
LEMMA NewRow ==
  ASSUME Inv, NEW r \in Runs, r[2] <= now PROVE RowOK(r, NewRun) /\ NewRun.owner = NoWorker
<1> DEFINE z(n, m, o) == [status |-> "pending", text |-> n, tries |-> m, retry |-> n,
                          owner |-> o, lease |-> n, done |-> n]
<1>1. \A n \in Nat, m \in 0 .. MaxDeliveries, o \in Workers \cup {NoWorker} :
        /\ z(n, m, o) \in RunRow /\ z(n, m, o).status = "pending" /\ z(n, m, o).text = n
        /\ z(n, m, o).lease = n /\ z(n, m, o).done = n /\ z(n, m, o).owner = o
  BY DEF RunRow
<1>2. 0 \in Nat /\ 0 \in 0 .. MaxDeliveries /\ NoWorker \in Workers \cup {NoWorker}
  BY DEF MaxDeliveries
<1>3. NewRun = z(0, 0, NoWorker)
  BY DEF NewRun, NoRun, NoTime
<1> HIDE DEF z
<1>4. /\ NewRun \in RunRow /\ NewRun.status = "pending" /\ NewRun.text = 0
      /\ NewRun.lease = 0 /\ NewRun.done = 0 /\ NewRun.owner = NoWorker
  BY <1>1, <1>2, <1>3
<1> QED  BY <1>4 DEF RowOK, NoTime

\* A drain makes the runs that are due and moves their tasks past them.
LEMMA Drained ==
  ASSUME Inv, NEW T \in [Tasks -> TaskRow], NEW R \in [Runs -> RunRow],
         \A t \in Tasks : TaskOK(T, R, t), \A r \in Runs : RowOK(r, R[r])
  PROVE  /\ DrainedTasks(T, R) \in [Tasks -> TaskRow]
         /\ DrainedRuns(T, R) \in [Runs -> RunRow]
         /\ \A t \in Tasks : TaskOK(DrainedTasks(T, R), DrainedRuns(T, R), t)
         /\ \A r \in Runs : RowOK(r, DrainedRuns(T, R)[r])
         /\ \A r \in Runs : \/ DrainedRuns(T, R)[r] = R[r]
                            \/ R[r].status = "none" /\ DrainedRuns(T, R)[r] = NewRun
<1> DEFINE T2 == DrainedTasks(T, R)
<1> DEFINE R2 == DrainedRuns(T, R)
<1>0. now \in 1 .. MaxTime /\ MaxTime \in Nat /\ Period \in Nat
  BY SchedulerAssumption DEF Inv, Frame
<1>1. ASSUME NEW r \in Runs
      PROVE  /\ \/ R2[r] = R[r]
                \/ /\ Due(T, r[1]) /\ T[r[1]].next = r[2] /\ R[r].status = "none" /\ R2[r] = NewRun
             /\ RowOK(r, R2[r])
  <2>1. R2[r] = IF Due(T, r[1]) /\ T[r[1]].next = r[2] /\ R[r].status = "none" THEN NewRun ELSE R[r]
    BY DEF DrainedRuns
  <2>2. CASE R2[r] = R[r]
    BY <2>2
  <2>3. CASE Due(T, r[1]) /\ T[r[1]].next = r[2] /\ R[r].status = "none" /\ R2[r] = NewRun
    <3>1. r[2] <= now
      BY <2>3 DEF Due
    <3> QED  BY <2>3, <3>1, NewRow
  <2> QED  BY <2>1, <2>2, <2>3
<1>2. R2 \in [Runs -> RunRow]
  <2>1. \A r \in Runs : R2[r] \in RunRow
    BY <1>1 DEF RowOK
  <2> QED  BY <2>1 DEF DrainedRuns
<1>3. ASSUME NEW t \in Tasks
      PROVE  T2[t] \in TaskRow /\ TaskOK(T2, R2, t)
  <2>0. T[t] \in TaskRow
    OBVIOUS
  <2>1. CASE Expired(T, R, t)
    <3>1. T2[t] = NoTask
      BY <2>1 DEF DrainedTasks
    <3> QED  BY <3>1 DEF NoTask, TaskRow, TaskOK, NoTime
  <2>2. CASE ~Expired(T, R, t) /\ Due(T, t)
    <3>1. T2[t] = [T[t] EXCEPT !.next = NextAfter(t)]
      BY <2>2 DEF DrainedTasks
    <3>2. NextAfter(t) = NoTime \/ (NextAfter(t) \in Times /\ NextAfter(t) > now)
      BY <1>0, CronLater DEF NextAfter
    <3>3. T2[t] \in TaskRow /\ T2[t].next = NextAfter(t)
      BY <2>0, <3>1, <3>2 DEF TaskRow
    <3>4. ASSUME NextAfter(t) # NoTime PROVE R2[<<t, NextAfter(t)>>].status = "none"
      <4>1. <<t, NextAfter(t)>> \in Runs /\ NextAfter(t) > now
        BY <3>2, <3>4 DEF Runs
      <4>2. R[<<t, NextAfter(t)>>].status = "none"
        <5>1. RowOK(<<t, NextAfter(t)>>, R[<<t, NextAfter(t)>>])
          BY <4>1
        <5>2. R[<<t, NextAfter(t)>>].status # "none" => NextAfter(t) <= now
          BY <5>1 DEF RowOK
        <5>3. NextAfter(t) \in Nat
          BY <1>0, <3>2, <3>4 DEF Times
        <5> QED  BY <1>0, <4>1, <5>2, <5>3
      <4>3. T[t].next <= now
        BY <2>2 DEF Due
      <4>4. T[t].next # NextAfter(t)
        BY <1>0, <4>1, <4>3, <3>2, <3>4 DEF Times
      <4> QED  BY <1>1, <4>1, <4>2, <4>4
    <3> QED  BY <3>3, <3>4 DEF TaskOK
  <2>3. CASE ~Expired(T, R, t) /\ ~Due(T, t)
    <3>1. T2[t] = T[t]
      BY <2>3 DEF DrainedTasks
    <3>2. ASSUME T[t].next # NoTime PROVE R2[<<t, T[t].next>>].status = "none"
      <4>1. <<t, T[t].next>> \in Runs
        BY <2>0, <3>2 DEF TaskRow, Runs
      <4>2. R[<<t, T[t].next>>].status = "none"
        BY <3>2 DEF TaskOK
      <4> QED  BY <1>1, <2>3, <4>1, <4>2
    <3> QED  BY <2>0, <3>1, <3>2 DEF TaskOK
  <2> QED  BY <2>1, <2>2, <2>3
<1>4. T2 \in [Tasks -> TaskRow]
  BY <1>3 DEF DrainedTasks
<1> QED  BY <1>1, <1>2, <1>3, <1>4

\* Steps that queue no events and end or leave what a scheduler holds.
LEMMA HostKeeps ==
  ASSUME Inv, Frame', events' = events, bound' = bound,
         \A t \in Tasks : TaskOK(task, run, t)', \A r \in Runs : RowOK(r, run[r])',
         \A w \in Workers : KeptFor(w),
         \A w \in Workers : \/ worker'[w].phase \in {"idle", "loop", "ended"}
                            \/ /\ worker'[w].phase = worker[w].phase
                               /\ worker'[w].holds = worker[w].holds,
         \A w \in Workers : LifeOK(w)' /\ TimerOK(w)'
  PROVE  Inv'
<1>1. ASSUME NEW e \in events' PROVE EventOK(e)'
  <2>1. EventOK(e) /\ current \in Workers
    BY <1>1 DEF Inv, Frame
  <2> QED  BY <2>1 DEF EventOK, KeptFor
<1>2. ASSUME NEW w \in Workers PROVE HolderOK(w)'
  <2>1. CASE worker'[w].phase \in {"idle", "loop", "ended"}
    BY <2>1 DEF HolderOK
  <2>2. CASE worker'[w].phase = worker[w].phase /\ worker'[w].holds = worker[w].holds
    BY <2>2, HolderKept DEF Inv, Frame
  <2> QED  BY <2>1, <2>2
<1> QED  BY <1>1, <1>2 DEF Inv

\* The rows R that an edit leaves take nothing from a holder.
Edited(R) ==
  \A r \in Runs : /\ RowOK(r, R[r])
                  /\ R[r] # run[r] =>
                       R[r].owner = NoWorker /\ (run[r].text > 0 => R[r].text = run[r].text)

\* So do those that a drain makes of them.
LEMMA EditedKept ==
  ASSUME Inv, NEW R \in [Runs -> RunRow], Edited(R),
         \A r \in Runs : run'[r] = R[r] \/ (R[r].status = "none" /\ run'[r] = NewRun)
  PROVE  \A w \in Workers : KeptFor(w)
<1> SUFFICES ASSUME NEW w \in Workers, NEW r \in Runs, run'[r] # run[r]
             PROVE  run'[r].owner # w /\ (run[r].text > 0 => run'[r].text = run[r].text)
  BY DEF KeptFor
<1>1. /\ w # NoWorker /\ run[r] \in RunRow /\ R[r] \in RunRow /\ RowOK(r, R[r])
      /\ R[r] = run[r] \/ (R[r].owner = NoWorker /\ (run[r].text > 0 => R[r].text = run[r].text))
  BY Before DEF Inv, Frame, Edited
<1>2. CASE run'[r] = R[r]
  BY <1>1, <1>2
<1>3. CASE R[r].status = "none" /\ run'[r] = NewRun
  <2>1. NewRun.owner = NoWorker
    BY DEF NewRun, NoRun
  <2>2. ~(R[r].text > 0)
    BY <1>1, <1>3 DEF RowOK
  <2> QED  BY <1>1, <1>3, <2>1, <2>2
<1> QED  BY <1>2, <1>3

\* Whoever is woken drains, or was draining.
LEMMA RunOnceKeeps ==
  ASSUME Inv, NEW w \in Workers, worker[w].started, NEW T \in [Tasks -> TaskRow],
         NEW R \in [Runs -> RunRow], \A t \in Tasks : TaskOK(T, R, t), Edited(R),
         RunOnce(w, T, R), UNCHANGED <<now, events, current, bound, budget>>,
         edits' \in 0 .. bound.edits
  PROVE  Inv'
<1> DEFINE y == IF worker[w].phase = "idle"
                  THEN [worker[w] EXCEPT !.phase = "loop", !.timer = NoTime]
                  ELSE [worker[w] EXCEPT !.timer = NoTime]
<1>0. /\ worker \in [Workers -> Scheduler] /\ worker[w] \in Scheduler /\ w = current
      /\ now' = now /\ events' = events /\ current' = current /\ bound' = bound
      /\ budget' = budget /\ worker[w].alive
  BY Before DEF LifeOK
<1>1. /\ y \in Scheduler /\ y.phase # "idle" /\ y.timer = NoTime /\ y.started = worker[w].started
      /\ y.alive = worker[w].alive /\ y.holds = worker[w].holds
      /\ y.phase = worker[w].phase \/ y.phase = "loop"
  <2>1. NoTime \in Nat
    BY DEF NoTime
  <2> QED  BY <1>0, <2>1 DEF Scheduler
<1>2. worker' = [worker EXCEPT ![w] = y]
  BY DEF RunOnce
<1> HIDE DEF y
<1>3. worker'[w] = y /\ \A v \in Workers \ {w} : worker'[v] = worker[v]
  BY <1>0, <1>2
<1>4. \A r \in Runs : RowOK(r, R[r])
  BY DEF Edited
<1>5. /\ task' \in [Tasks -> TaskRow] /\ run' \in [Runs -> RunRow]
      /\ \A t \in Tasks : TaskOK(task', run', t)
      /\ \A r \in Runs : RowOK(r, run'[r])
      /\ \A r \in Runs : run'[r] = R[r] \/ (R[r].status = "none" /\ run'[r] = NewRun)
  <2>1. CASE worker[w].phase = "idle"
    <3>1. task' = DrainedTasks(T, R) /\ run' = DrainedRuns(T, R)
      BY <2>1 DEF RunOnce
    <3> QED  BY <1>4, <3>1, Drained
  <2>2. CASE worker[w].phase # "idle"
    <3>1. task' = T /\ run' = R
      BY <2>2 DEF RunOnce
    <3> QED  BY <1>4, <3>1
  <2> QED  BY <2>1, <2>2
<1>6. Frame'
  BY <1>0, <1>1, <1>2, <1>5 DEF Inv, Frame
<1>7. \A t \in Tasks : TaskOK(task, run, t)'
  BY <1>5 DEF TaskOK
<1>8. \A r \in Runs : RowOK(r, run[r])'
  <2> SUFFICES ASSUME NEW r \in Runs PROVE RowOK(r, run[r])'
    OBVIOUS
  <2>1. AllQueued(r)' <=> AllQueued(r)
    BY <1>0 DEF AllQueued, Targets
  <2>2. RowOK(r, run'[r])
    BY <1>5
  <2> QED  BY <1>0, <2>1, <2>2 DEF RowOK
<1>9. ASSUME NEW v \in Workers
      PROVE  /\ LifeOK(v)' /\ TimerOK(v)'
             /\ \/ worker'[v].phase \in {"idle", "loop", "ended"}
                \/ worker'[v].phase = worker[v].phase /\ worker'[v].holds = worker[v].holds
  <2>1. CASE v = w
    BY <1>0, <1>1, <1>3, <2>1 DEF LifeOK, TimerOK, Asleep
  <2>2. CASE v # w
    <3>1. worker'[v] = worker[v] /\ LifeOK(v)
      BY <1>3, <2>2 DEF Inv
    <3> QED  BY <1>0, <2>2, <3>1 DEF LifeOK, TimerOK, Asleep
  <2> QED  BY <2>1, <2>2
<1> QED  BY <1>0, <1>5, <1>6, <1>7, <1>8, <1>9, EditedKept, HostKeeps

\* The rows as they are.
LEMMA NoEdit == ASSUME Inv PROVE Edited(run) /\ run \in [Runs -> RunRow] /\ task \in [Tasks -> TaskRow]
  BY DEF Inv, Frame, Edited

\* A timer belongs to the scheduler that is started.
LEMMA TimerFiresKeeps == ASSUME Inv, NEW w \in Workers, TimerFires(w) PROVE Inv'
<1>1. worker[w].started /\ edits' \in 0 .. bound.edits
      /\ UNCHANGED <<now, events, current, bound, budget>> /\ RunOnce(w, task, run)
  BY DEF TimerFires, Inv, LifeOK, Frame
<1>2. \A t \in Tasks : TaskOK(task, run, t)
  BY DEF Inv
<1> QED  BY <1>1, <1>2, NoEdit, RunOnceKeeps

\* An edit leaves open occurrences and rows that are true.
LEMMA EditKeeps ==
  ASSUME Inv, NEW T \in [Tasks -> TaskRow], NEW R \in [Runs -> RunRow],
         \A t \in Tasks : TaskOK(T, R, t), Edited(R), Edit(T, R)
  PROVE  Inv'
<1>1. bound.edits \in Nat
  BY SchedulerAssumption DEF Inv, Frame, Bound
<1>2. edits' \in 0 .. bound.edits /\ current \in Workers
  BY <1>1 DEF Inv, Frame, Edit
<1> QED  BY <1>2, RunOnceKeeps DEF Edit

\* One task is given another row.
LEMMA TaskEditKeeps ==
  ASSUME Inv, NEW t \in Tasks, NEW x \in TaskRow, x.next # NoTime => x.next > now,
         Edit([task EXCEPT ![t] = x], run)
  PROVE  Inv'
<1> DEFINE T == [task EXCEPT ![t] = x]
<1>0. task \in [Tasks -> TaskRow] /\ now \in Nat
  BY SchedulerAssumption DEF Inv, Frame
<1>1. T \in [Tasks -> TaskRow] /\ T[t] = x /\ \A u \in Tasks \ {t} : T[u] = task[u]
  BY <1>0
<1>2. ASSUME NEW u \in Tasks PROVE TaskOK(T, run, u)
  <2>1. CASE u # t
    BY <1>1, <2>1 DEF Inv, TaskOK
  <2>2. CASE u = t
    <3> SUFFICES ASSUME x.next # NoTime PROVE run[<<t, x.next>>].status = "none"
      BY <1>1, <2>2 DEF TaskOK
    <3>1. <<t, x.next>> \in Runs /\ x.next \in Nat /\ x.next > now
      BY SchedulerAssumption DEF TaskRow, Runs, Times
    <3>2. RowOK(<<t, x.next>>, run[<<t, x.next>>])
      BY <3>1 DEF Inv
    <3>3. run[<<t, x.next>>].status # "none" => x.next <= now
      BY <3>2 DEF RowOK
    <3> QED  BY <1>0, <3>1, <3>3
  <2> QED  BY <2>1, <2>2
<1> HIDE DEF T
<1> QED  BY <1>1, <1>2, NoEdit, EditKeeps DEF T

\* The first time of a schedule is in the future.
LEMMA CreateKeeps == ASSUME Inv, NEW t \in Tasks, Create(t) PROVE Inv'
<1>1. PICK at \in FirstAt(t) :
        Edit([task EXCEPT ![t] = [exists |-> TRUE, enabled |-> TRUE, next |-> at]], run)
  BY DEF Create
<1>2. at \in Times /\ at > now
  BY FirstLater DEF Inv, Frame
<1> DEFINE x == [exists |-> TRUE, enabled |-> TRUE, next |-> at]
<1>3. x \in TaskRow /\ x.next > now
  BY <1>2 DEF TaskRow
<1> HIDE DEF x
<1> QED  BY <1>1, <1>3, TaskEditKeeps DEF x

\* The same for another schedule.
LEMMA RescheduleKeeps == ASSUME Inv, NEW t \in Tasks, Reschedule(t) PROVE Inv'
<1>1. PICK at \in FirstAt(t) : Edit([task EXCEPT ![t].enabled = TRUE, ![t].next = at], run)
  BY DEF Reschedule
<1>2. at \in Times /\ at > now /\ task[t] \in TaskRow
  BY FirstLater DEF Inv, Frame
<1> DEFINE x == [task[t] EXCEPT !.enabled = TRUE, !.next = at]
<1>3. x \in TaskRow /\ x.next > now
  BY <1>2 DEF TaskRow
<1>4. Edit([task EXCEPT ![t] = x], run)
  BY <1>1
<1> HIDE DEF x
<1> QED  BY <1>3, <1>4, TaskEditKeeps

\* A disabled task has no next time.
LEMMA DisableKeeps == ASSUME Inv, NEW t \in Tasks, Disable(t) PROVE Inv'
<1> DEFINE x == [task[t] EXCEPT !.enabled = FALSE, !.next = NoTime]
<1>1. task[t] \in TaskRow
  BY DEF Inv, Frame
<1>2. x \in TaskRow /\ x.next = NoTime
  BY <1>1 DEF TaskRow
<1>3. Edit([task EXCEPT ![t] = x], run)
  BY DEF Disable
<1> HIDE DEF x
<1> QED  BY <1>2, <1>3, TaskEditKeeps

\* Nor has one that is deleted.
LEMMA DeleteKeeps == ASSUME Inv, NEW t \in Tasks, Delete(t) PROVE Inv'
<1>1. NoTask \in TaskRow /\ NoTask.next = NoTime
  BY DEF NoTask, TaskRow
<1> QED  BY <1>1, TaskEditKeeps DEF Delete

\* A replay offers a run that failed to any scheduler, with its text.
LEMMA ReplayKeeps == ASSUME Inv, NEW r \in Runs, Replay(r) PROVE Inv'
<1> DEFINE x == [run[r] EXCEPT !.status = "generated", !.tries = 0, !.retry = now,
                               !.owner = NoWorker, !.lease = now, !.done = NoTime]
<1> DEFINE R == [run EXCEPT ![r] = x]
<1>0. /\ run[r] \in RunRow /\ RowOK(r, run[r]) /\ run \in [Runs -> RunRow]
      /\ run[r].status = "failed" /\ run[r].text > 0 /\ now \in Nat /\ now # NoTime
      /\ Edit(task, R)
  <2>1. run[r] \in RunRow /\ RowOK(r, run[r]) /\ run \in [Runs -> RunRow]
    BY DEF Inv, Frame
  <2>2. now \in Nat /\ now # NoTime
    BY SchedulerAssumption DEF Inv, Frame, NoTime
  <2>3. run[r].status = "failed" /\ run[r].text > 0
    BY DEF Replay
  <2>4. Edit(task, R)
    BY DEF Replay
  <2> QED  BY <2>1, <2>2, <2>3, <2>4
<1>1. /\ x \in RunRow /\ x.status = "generated" /\ x.tries = 0 /\ x.owner = NoWorker
      /\ x.lease = now /\ x.done = NoTime /\ x.text = run[r].text
  <2> DEFINE z(m, k, o, d) == [run[r] EXCEPT !.status = "generated", !.tries = m, !.retry = k,
                                             !.owner = o, !.lease = k, !.done = d]
  <2>1. ASSUME NEW m \in 0 .. MaxDeliveries, NEW k \in Nat, NEW o \in Workers \cup {NoWorker},
               NEW d \in Nat
        PROVE  /\ z(m, k, o, d) \in RunRow /\ z(m, k, o, d).status = "generated"
               /\ z(m, k, o, d).tries = m /\ z(m, k, o, d).owner = o /\ z(m, k, o, d).lease = k
               /\ z(m, k, o, d).done = d /\ z(m, k, o, d).text = run[r].text
    <3>1. z(m, k, o, d) \in RunRow
      BY <1>0 DEF RunRow
    <3>2. /\ z(m, k, o, d).status = "generated"
          /\ z(m, k, o, d).tries = m /\ z(m, k, o, d).owner = o /\ z(m, k, o, d).lease = k
          /\ z(m, k, o, d).done = d /\ z(m, k, o, d).text = run[r].text
      BY <1>0 DEF RunRow
    <3> QED  BY <3>1, <3>2
  <2>2. 0 \in 0 .. MaxDeliveries /\ NoTime \in Nat /\ NoWorker \in Workers \cup {NoWorker}
    BY DEF MaxDeliveries, NoTime
  <2>3. x = z(0, now, NoWorker, NoTime)
    OBVIOUS
  <2> HIDE DEF x, z
  <2> QED  BY <1>0, <2>1, <2>2, <2>3
<1> HIDE DEF x
<1>2. R \in [Runs -> RunRow] /\ R[r] = x /\ \A q \in Runs \ {r} : R[q] = run[q]
  BY <1>0, <1>1
<1>3. RowOK(r, x)
  BY <1>0, <1>1 DEF RowOK, MaxDeliveries
<1>4. Edited(R)
  BY <1>1, <1>2, <1>3 DEF Edited, Inv
<1>5. \A t \in Tasks : TaskOK(task, R, t)
  <2> SUFFICES ASSUME NEW t \in Tasks, task[t].next # NoTime
               PROVE  R[<<t, task[t].next>>].status = "none"
    BY DEF TaskOK
  <2>1. task[t] \in TaskRow /\ run[<<t, task[t].next>>].status = "none"
    BY DEF Inv, Frame, TaskOK
  <2>2. <<t, task[t].next>> \in Runs
    BY <2>1 DEF TaskRow, Runs
  <2> QED  BY <1>0, <1>2, <2>1, <2>2
<1> HIDE DEF R
<1> QED  BY <1>0, <1>2, <1>4, <1>5, NoEdit, EditKeeps

\* Time passes.
LEMMA TickKeeps == ASSUME Inv, Tick PROVE Inv'
<1>0. /\ now' = now + 1 /\ now < MaxTime /\ now \in 1 .. MaxTime /\ MaxTime \in Nat
      /\ task' = task /\ run' = run /\ events' = events /\ worker' = worker
      /\ current' = current /\ edits' = edits /\ bound' = bound /\ budget' = budget
  BY SchedulerAssumption DEF Tick, Inv, Frame
<1>1. Frame'
  BY <1>0 DEF Inv, Frame
<1>2. \A t \in Tasks : TaskOK(task, run, t)'
  BY <1>0 DEF Inv, TaskOK
<1>3. ASSUME NEW r \in Runs PROVE RowOK(r, run[r])'
  <2>1. RowOK(r, run[r]) /\ (AllQueued(r)' <=> AllQueued(r))
    BY <1>0 DEF Inv, AllQueued, Targets
  <2>2. r[2] \in Nat
    BY <1>0, SchedulerAssumption DEF Runs, Times
  <2> QED  BY <1>0, <2>1, <2>2 DEF RowOK
<1>4. ASSUME NEW w \in Workers PROVE LifeOK(w)' /\ TimerOK(w)'
  <2>1. LifeOK(w) /\ TimerOK(w)
    BY DEF Inv
  <2>2. NextWakeAt' = NextWakeAt /\ Wakes' = Wakes
    BY <1>0 DEF NextWakeAt, Wakes
  <2> QED  BY <1>0, <2>1, <2>2 DEF LifeOK, TimerOK, Asleep
<1>5. \A w \in Workers : KeptFor(w)
  BY <1>0 DEF KeptFor
<1> QED  BY <1>0, <1>1, <1>2, <1>3, <1>4, <1>5, HostKeeps

\* The next scheduler is started, and drains.
LEMMA StartKeeps == ASSUME Inv, Start PROVE Inv'
<1> DEFINE w == current + 1
<1> DEFINE y == [NoScheduler EXCEPT !.alive = TRUE, !.started = TRUE, !.phase = "loop"]
<1>0. /\ worker \in [Workers -> Scheduler] /\ ~worker[current].started
      /\ now' = now /\ events' = events /\ edits' = edits /\ bound' = bound /\ budget' = budget
      /\ current' = w /\ worker' = [worker EXCEPT ![w] = y]
      /\ task' = DrainedTasks(task, run) /\ run' = DrainedRuns(task, run)
  BY DEF Start, Inv, Frame
<1>1. w \in Workers /\ w # current
  <2>1. bound.workers \in 1 .. MaxWorkers /\ MaxWorkers \in Nat /\ current \in 1 .. MaxWorkers
    BY SchedulerAssumption DEF Inv, Frame, Bound, Workers
  <2>2. current < bound.workers
    BY DEF Start
  <2> QED  BY <2>1, <2>2 DEF Workers
<1>2. y \in Scheduler /\ y.alive /\ y.started /\ y.phase = "loop" /\ y.timer = NoTime
  <2>1. NoScheduler \in Scheduler /\ NoScheduler.timer = NoTime
    BY DEF NoScheduler, Scheduler, NoTime
  <2> QED  BY <2>1 DEF Scheduler
<1> HIDE DEF w, y
<1>3. worker' \in [Workers -> Scheduler] /\ worker'[w] = y
      /\ \A v \in Workers \ {w} : worker'[v] = worker[v]
  BY <1>0, <1>1, <1>2
<1>4. /\ task' \in [Tasks -> TaskRow] /\ run' \in [Runs -> RunRow]
      /\ \A t \in Tasks : TaskOK(task', run', t)
      /\ \A r \in Runs : RowOK(r, run'[r])
      /\ \A r \in Runs : run'[r] = run[r] \/ (run[r].status = "none" /\ run'[r] = NewRun)
  <2>1. /\ \A t \in Tasks : TaskOK(task, run, t)
        /\ \A r \in Runs : RowOK(r, run[r])
    BY DEF Inv
  <2> QED  BY <1>0, <2>1, NoEdit, Drained
<1>5. Frame'
  BY <1>0, <1>1, <1>3, <1>4 DEF Inv, Frame
<1>6. \A t \in Tasks : TaskOK(task, run, t)'
  BY <1>4 DEF TaskOK
<1>7. \A r \in Runs : RowOK(r, run[r])'
  <2> SUFFICES ASSUME NEW r \in Runs PROVE RowOK(r, run[r])'
    OBVIOUS
  <2>1. AllQueued(r)' <=> AllQueued(r)
    BY <1>0 DEF AllQueued, Targets
  <2>2. RowOK(r, run'[r])
    BY <1>4
  <2> QED  BY <1>0, <2>1, <2>2 DEF RowOK
<1>8. ASSUME NEW v \in Workers
      PROVE  /\ LifeOK(v)' /\ TimerOK(v)'
             /\ \/ worker'[v].phase \in {"idle", "loop", "ended"}
                \/ worker'[v].phase = worker[v].phase /\ worker'[v].holds = worker[v].holds
  <2>1. CASE v = w
    BY <1>0, <1>2, <1>3, <2>1 DEF LifeOK, TimerOK, Asleep
  <2>2. CASE v # w
    <3>1. worker'[v] = worker[v] /\ LifeOK(v) /\ ~worker[v].started
      BY <1>0, <1>3, <2>2 DEF Inv, LifeOK
    <3> QED  BY <1>0, <2>2, <3>1 DEF LifeOK, TimerOK, Asleep
  <2> QED  BY <2>1, <2>2
<1> QED  BY <1>0, <1>4, <1>5, <1>6, <1>7, <1>8, NoEdit, EditedKept, HostKeeps

\* A scheduler that is stopped has no timer, and its drain goes on.
LEMMA StopKeeps == ASSUME Inv, Stop PROVE Inv'
<1> DEFINE y == [worker[current] EXCEPT !.started = FALSE, !.timer = NoTime, !.aborted = TRUE]
<1>0. /\ worker \in [Workers -> Scheduler] /\ current \in Workers /\ worker[current] \in Scheduler
      /\ now' = now /\ task' = task /\ run' = run /\ events' = events /\ current' = current
      /\ edits' = edits /\ Counted /\ worker' = [worker EXCEPT ![current] = y]
  BY DEF Stop, Inv, Frame, Counted
<1>1. /\ y \in Scheduler /\ ~y.started /\ y.timer = NoTime /\ y.alive = worker[current].alive
      /\ y.phase = worker[current].phase /\ y.holds = worker[current].holds
  <2>1. NoTime \in Nat
    BY DEF NoTime
  <2> QED  BY <1>0, <2>1 DEF Scheduler
<1> HIDE DEF y
<1>2. worker' \in [Workers -> Scheduler] /\ worker'[current] = y
      /\ \A v \in Workers \ {current} : worker'[v] = worker[v]
  BY <1>0, <1>1
<1>3. Frame' /\ bound' = bound
  BY <1>0, <1>2, CountedTyped DEF Inv, Frame
<1>4. (\A t \in Tasks : TaskOK(task, run, t)') /\ \A w \in Workers : KeptFor(w)
  BY <1>0 DEF Inv, TaskOK, KeptFor
<1>5. ASSUME NEW r \in Runs PROVE RowOK(r, run[r])'
  <2>1. RowOK(r, run[r]) /\ (AllQueued(r)' <=> AllQueued(r))
    BY <1>0, <1>3 DEF Inv, AllQueued, Targets
  <2> QED  BY <1>0, <2>1 DEF RowOK
<1>6. ASSUME NEW v \in Workers
      PROVE  /\ LifeOK(v)' /\ TimerOK(v)'
             /\ worker'[v].phase = worker[v].phase /\ worker'[v].holds = worker[v].holds
  <2>1. LifeOK(v)
    BY DEF Inv
  <2>2. CASE v = current
    BY <1>0, <1>1, <1>2, <2>1, <2>2 DEF LifeOK, TimerOK, Asleep
  <2>3. CASE v # current
    BY <1>0, <1>2, <2>1, <2>3 DEF LifeOK, TimerOK, Asleep
  <2> QED  BY <2>2, <2>3
<1> QED  BY <1>0, <1>3, <1>4, <1>5, <1>6, HostKeeps

\* After a crash nobody holds a run.
LEMMA CrashKeeps == ASSUME Inv, Crash PROVE Inv'
<1>0. /\ now' = now /\ task' = task /\ run' = run /\ events' = events /\ current' = current
      /\ edits' = edits /\ Counted /\ worker' = [w \in Workers |-> NoScheduler]
  BY DEF Crash, Counted
<1>1. /\ NoScheduler \in Scheduler /\ ~NoScheduler.started /\ NoScheduler.timer = NoTime
      /\ NoScheduler.phase = "idle"
  BY DEF NoScheduler, Scheduler, NoTime
<1>2. worker' \in [Workers -> Scheduler] /\ \A v \in Workers : worker'[v] = NoScheduler
  BY <1>0, <1>1
<1>3. Frame' /\ bound' = bound
  BY <1>0, <1>2, CountedTyped DEF Inv, Frame
<1>4. (\A t \in Tasks : TaskOK(task, run, t)') /\ \A w \in Workers : KeptFor(w)
  BY <1>0 DEF Inv, TaskOK, KeptFor
<1>5. ASSUME NEW r \in Runs PROVE RowOK(r, run[r])'
  <2>1. RowOK(r, run[r]) /\ (AllQueued(r)' <=> AllQueued(r))
    BY <1>0, <1>3 DEF Inv, AllQueued, Targets
  <2> QED  BY <1>0, <2>1 DEF RowOK
<1>6. ASSUME NEW v \in Workers
      PROVE  LifeOK(v)' /\ TimerOK(v)' /\ worker'[v].phase = "idle"
  BY <1>1, <1>2 DEF LifeOK, TimerOK, Asleep
<1> QED  BY <1>0, <1>3, <1>4, <1>5, <1>6, HostKeeps

\* Nothing has happened yet.
LEMMA InitInv == Init => Inv
<1> SUFFICES ASSUME Init PROVE Inv
  OBVIOUS
<1> DEFINE y == [NoScheduler EXCEPT !.alive = TRUE, !.started = TRUE, !.phase = "ended"]
<1>0. /\ MaxTime \in Nat \ {0} /\ MaxWorkers \in Nat \ {0} /\ Bounds \subseteq Bound
      /\ bound \in Bounds /\ events = {} /\ current = 1 /\ now = 1
      /\ edits = bound.edits /\ budget = bound.faults
  BY SchedulerAssumption DEF Init
<1>1. /\ NoScheduler \in Scheduler /\ ~NoScheduler.started /\ NoScheduler.timer = NoTime
      /\ NoScheduler.phase = "idle"
  BY DEF NoScheduler, Scheduler, NoTime
<1>2. y \in Scheduler /\ y.alive /\ y.started /\ y.phase = "ended" /\ y.timer = NoTime
  BY <1>1 DEF Scheduler
<1>3. worker = [w \in Workers |-> IF w = 1 THEN y ELSE NoScheduler]
  BY DEF Init
<1> HIDE DEF y
<1>4. /\ worker \in [Workers -> Scheduler] /\ 1 \in Workers
      /\ \A w \in Workers : worker[w] = IF w = 1 THEN y ELSE NoScheduler
  BY <1>0, <1>1, <1>2, <1>3 DEF Workers
<1>5. NoTask \in TaskRow /\ NoTask.next = NoTime
  BY DEF NoTask, TaskRow
<1>6. /\ NoRun \in RunRow /\ NoRun.status = "none" /\ NoRun.text = 0
      /\ NoRun.lease = NoTime /\ NoRun.done = NoTime
  <2> DEFINE z(n, m, o) == [status |-> "none", text |-> n, tries |-> m, retry |-> n,
                            owner |-> o, lease |-> n, done |-> n]
  <2>1. \A n \in Nat, m \in 0 .. MaxDeliveries, o \in Workers \cup {NoWorker} :
          /\ z(n, m, o) \in RunRow /\ z(n, m, o).status = "none" /\ z(n, m, o).text = n
          /\ z(n, m, o).lease = n /\ z(n, m, o).done = n
    BY DEF RunRow
  <2>2. 0 \in Nat /\ 0 \in 0 .. MaxDeliveries /\ NoWorker \in Workers \cup {NoWorker} /\ NoTime = 0
    BY DEF MaxDeliveries, NoTime
  <2>3. NoRun = z(0, 0, NoWorker)
    BY DEF NoRun, NoTime
  <2> HIDE DEF z
  <2> QED  BY <2>1, <2>2, <2>3
<1>7. /\ task \in [Tasks -> TaskRow] /\ run \in [Runs -> RunRow]
      /\ \A t \in Tasks : task[t] = NoTask
      /\ \A r \in Runs : run[r] = NoRun
  BY <1>5, <1>6 DEF Init
<1>8. Frame
  <2>1. bound.edits \in Nat /\ bound.faults \in Nat
    BY <1>0 DEF Bound
  <2> QED  BY <1>0, <1>4, <1>7, <2>1 DEF Frame
<1>9. \A t \in Tasks : TaskOK(task, run, t)
  BY <1>5, <1>7 DEF TaskOK
<1>10. \A r \in Runs : RowOK(r, run[r])
  BY <1>6, <1>7 DEF RowOK
<1>11. \A w \in Workers : LifeOK(w) /\ HolderOK(w) /\ TimerOK(w)
  BY <1>0, <1>1, <1>2, <1>4 DEF LifeOK, HolderOK, TimerOK, Asleep, Holds
<1> QED  BY <1>0, <1>8, <1>9, <1>10, <1>11 DEF Inv

\* Every step keeps it.
LEMMA StepInv == Inv /\ [Next]_vars => Inv'
<1> SUFFICES ASSUME Inv, [Next]_vars PROVE Inv'
  OBVIOUS
<1>1. CASE UNCHANGED vars
  <2>0. /\ now' = now /\ task' = task /\ run' = run /\ events' = events /\ worker' = worker
        /\ current' = current /\ edits' = edits /\ bound' = bound /\ budget' = budget
    BY <1>1 DEF vars
  <2>1. Frame'
    BY <2>0 DEF Inv, Frame
  <2>2. (\A t \in Tasks : TaskOK(task, run, t)') /\ \A w \in Workers : KeptFor(w)
    BY <2>0 DEF Inv, TaskOK, KeptFor
  <2>3. ASSUME NEW r \in Runs PROVE RowOK(r, run[r])'
    <3>1. RowOK(r, run[r]) /\ (AllQueued(r)' <=> AllQueued(r))
      BY <2>0 DEF Inv, AllQueued, Targets
    <3> QED  BY <2>0, <3>1 DEF RowOK
  <2>4. ASSUME NEW w \in Workers PROVE LifeOK(w)' /\ TimerOK(w)'
    <3>1. LifeOK(w) /\ TimerOK(w)
      BY DEF Inv
    <3>2. NextWakeAt' = NextWakeAt /\ Wakes' = Wakes
      <4>1. UNCHANGED <<now, task, run>>
        BY <2>0
      <4> QED  BY <4>1 DEF NextWakeAt, Wakes, WakesOf, Archived, Latest
    <3> QED  BY <2>0, <3>1, <3>2 DEF LifeOK, TimerOK, Asleep
  <2> QED  BY <2>0, <2>1, <2>2, <2>3, <2>4, HostKeeps
<1>2. CASE Tick \/ Stop \/ Crash \/ Start
  BY <1>2, TickKeeps, StopKeeps, CrashKeeps, StartKeeps
<1>3. ASSUME NEW t \in Tasks, Create(t) \/ Reschedule(t) \/ Disable(t) \/ Delete(t) PROVE Inv'
  BY <1>3, CreateKeeps, RescheduleKeeps, DisableKeeps, DeleteKeeps
<1>4. ASSUME NEW r \in Runs, Replay(r) PROVE Inv'
  BY <1>4, ReplayKeeps
<1>5. ASSUME NEW w \in Workers,
             \/ TimerFires(w) \/ Claim(w) \/ LoopEnds(w) \/ Arm(w)
             \/ Generated(w) \/ GenerateFails(w) \/ Deliver(w)
      PROVE  Inv'
  BY <1>5, TimerFiresKeeps, ClaimKeeps, LoopEndsKeeps, ArmKeeps, GeneratedKeeps,
     GenerateFailsKeeps, DeliverKeeps
<1>6. ASSUME NEW w \in Workers,
             EnqueueFails(w) \/ LogFails(w) \/ Complete(w) \/ Renew(w) \/ RenewFails(w)
      PROVE  Inv'
  BY <1>6, EnqueueFailsKeeps, LogFailsKeeps, CompleteKeeps, RenewKeeps, RenewFailsKeeps
<1> QED  BY <1>1, <1>2, <1>3, <1>4, <1>5, <1>6 DEF Next

--------------------------------------------------------------------------------
(* The theorems *)

\* The invariant of the proofs: a run is made only for a time that has come and
\* for the only next time of its task; a row that is offered again has its text
\* and a try left; events carry the text of their run; a drain that holds a run
\* knows its text and its queued events even when it has lost the lease; and
\* only the current scheduler is started, with a timer at the first wake.
THEOREM SchedulerInvariance == Spec => []Inv
<1> QED  BY InitInv, StepInv, PTL DEF Spec

\* The next occurrence of every task can be claimed: claimDueOccurrence never
\* meets the run of an occurrence that was claimed before.
THEOREM OccurrencesStayOpen == Spec => []OccurrencesOpen
<1>1. Inv => OccurrencesOpen
  <2> SUFFICES ASSUME Inv PROVE OccurrencesOpen
    OBVIOUS
  <2>1. Frame /\ DOMAIN run = Runs
    BY DEF Inv, Frame
  <2>2. ASSUME NEW r \in Runs
        PROVE  /\ run[r].status \in {"none", "pending", "running", "generated", "completed", "failed"}
               /\ run[r].tries \in 0 .. MaxDeliveries
               /\ run[r].owner \in Workers \cup {NoWorker}
               /\ (run[r].lease # NoTime) <=> (run[r].status \in {"running", "generated"})
               /\ (run[r].done # NoTime) <=> (run[r].status \in {"completed", "failed"})
               /\ run[r].text > 0 => run[r].status \in {"generated", "completed", "failed"}
    <3>1. RowOK(r, run[r]) /\ run[r] \in RunRow
      BY DEF Inv, RowOK
    <3> QED  BY <3>1 DEF RowOK, RunRow
  <2>3. events \subseteq [run : Runs, target : 1 .. MaxTargets, text : Nat]
    BY DEF Inv, EventOK
  <2>4. \A w \in Workers :
          worker[w].phase \in {"idle", "loop", "generating", "deliver", "logging", "ended"}
    BY DEF Inv, Frame, Scheduler
  <2>5. task \in [Tasks -> [exists : BOOLEAN, enabled : BOOLEAN, next : Times \cup {NoTime}]]
    BY <2>1 DEF Frame, TaskRow
  <2>6. SchedulerTypeOK
    BY <2>1, <2>2, <2>3, <2>4, <2>5 DEF SchedulerTypeOK, Frame
  <2>7. OccurrenceIsNew
    BY DEF Inv, TaskOK, OccurrenceIsNew
  <2> QED  BY <2>6, <2>7 DEF OccurrencesOpen
<1> QED  BY <1>1, SchedulerInvariance, PTL

\* A run is delivered as one thing over retries, lapsed leases and a second
\* scheduler: one text, to all its targets or given up after the third try.
THEOREM DeliveredOnce == Spec => []DeliveredAsOne
<1>1. Inv => DeliveredAsOne
  <2> SUFFICES ASSUME Inv PROVE DeliveredAsOne
    OBVIOUS
  <2>1. CompletedIsQueued
    BY DEF Inv, RowOK, AllQueued, CompletedIsQueued
  <2>2. OneText
    BY DEF Inv, EventOK, OneText
  <2>3. GivenUpAfterThree
    BY DEF Inv, RowOK, GivenUpAfterThree
  <2> QED  BY <2>1, <2>2, <2>3 DEF DeliveredAsOne
<1> QED  BY <1>1, SchedulerInvariance, PTL

\* A scheduler that is started and idle has a timer when there is something to
\* wait for, and one that is alone wakes in time for it.
THEOREM TimersInTime == Spec => []SleepsInTime
<1>1. Inv => SleepsInTime
  <2> SUFFICES ASSUME Inv, NEW w \in Workers, worker[w].started, worker[w].phase = "idle",
                      NextWakeAt # NoTime
               PROVE  /\ worker[w].timer # NoTime
                      /\ \/ worker[w].timer <= NextWakeAt
                         \/ \E v \in Workers \ {w} : worker[v].alive
    BY DEF SleepsInTime
  <2>1. NextWakeAt \in Nat /\ Wakes # {}
    BY NextWakeIs DEF Inv
  <2>2. TimerOK(w)
    BY DEF Inv
  <2> QED  BY <2>1, <2>2 DEF TimerOK, Asleep
<1> QED  BY <1>1, SchedulerInvariance, PTL

\* A drain changes no run that is over, only those it owns or may claim.
LEMMA DrainsChange ==
  ASSUME Inv, NEW w \in Workers,
         \/ Claim(w) \/ LoopEnds(w) \/ Arm(w) \/ Generated(w) \/ GenerateFails(w) \/ Deliver(w)
         \/ EnqueueFails(w) \/ LogFails(w) \/ Complete(w) \/ Renew(w) \/ RenewFails(w)
  PROVE  \A r \in Runs : run'[r] = run[r] \/ run[r].status \in Active
<1>1. run \in [Runs -> RunRow]
  BY DEF Inv, Frame
<1>2. ASSUME NEW h, NEW x, Put(h, x), run[h].status \in Active
      PROVE  \A r \in Runs : run'[r] = run[r] \/ run[r].status \in Active
  BY <1>1, <1>2 DEF Put
<1>3. CASE LoopEnds(w) \/ Arm(w) \/ Deliver(w) \/ RenewFails(w)
  BY <1>3 DEF LoopEnds, Arm, Deliver, RenewFails
<1>4. CASE Claim(w)
  <2>1. PICK r \in Runs : Claimable(r) /\ Put(r, Claimed(r, w))
    BY <1>4 DEF Claim
  <2> QED  BY <1>2, <2>1 DEF Claimable, Active
<1>5. CASE Generated(w)
  BY <1>2, <1>5 DEF Generated, Owns, Active
<1>6. CASE GenerateFails(w)
  BY <1>2, <1>6 DEF GenerateFails, Owns, Active
<1>7. CASE EnqueueFails(w) \/ LogFails(w)
  <2>1. FailDelivery(w)
    BY <1>7 DEF EnqueueFails, LogFails
  <2> QED  BY <1>2, <2>1 DEF FailDelivery, Owns, Active
<1>8. CASE Complete(w)
  BY <1>2, <1>8 DEF Complete, Owns, Active
<1>9. CASE Renew(w)
  BY <1>2, <1>9 DEF Renew, Owns, Active
<1> QED  BY <1>3, <1>4, <1>5, <1>6, <1>7, <1>8, <1>9

\* A wake makes runs, and changes none.
LEMMA WakesChange ==
  ASSUME NEW w, NEW T, NEW R, RunOnce(w, T, R)
  PROVE  \A r \in Runs : run'[r] = R[r] \/ R[r].status = "none"
<1>1. run' = DrainedRuns(T, R) \/ run' = R
  BY DEF RunOnce
<1> QED  BY <1>1 DEF DrainedRuns

Stands ==
  \A r \in Runs :
    /\ run[r].status = "completed" => run'[r] = run[r]
    /\ run[r].status = "failed" /\ run'[r] # run[r] => run'[r].retry = now /\ run'[r].text = run[r].text

\* A run that is over is changed by nothing but a replay.
LEMMA StepStands == ASSUME Inv, [Next]_vars PROVE Stands
<1>0. run \in [Runs -> RunRow]
  BY DEF Inv, Frame
<1>1. (\A r \in Runs : run'[r] = run[r] \/ run[r].status \in Active \cup {"none"}) => Stands
  BY DEF Active, Stands
<1>2. CASE run' = run
  BY <1>2 DEF Stands
<1>3. ASSUME NEW w, NEW T, RunOnce(w, T, run) PROVE Stands
  BY <1>1, <1>3, WakesChange
<1>4. CASE UNCHANGED vars \/ Tick \/ Stop \/ Crash
  BY <1>2, <1>4 DEF vars, Tick, Stop, Crash
<1>5. CASE Start
  <2>1. run' = DrainedRuns(task, run)
    BY <1>5 DEF Start
  <2>2. \A r \in Runs : run'[r] = run[r] \/ run[r].status = "none"
    BY <2>1 DEF DrainedRuns
  <2> QED  BY <1>1, <2>2
<1>6. ASSUME NEW t \in Tasks, Create(t) \/ Reschedule(t) \/ Disable(t) \/ Delete(t) PROVE Stands
  <2>1. PICK T : Edit(T, run)
    BY <1>6 DEF Create, Reschedule, Disable, Delete
  <2> QED  BY <1>3, <2>1 DEF Edit
<1>7. ASSUME NEW q \in Runs, Replay(q) PROVE Stands
  <2> DEFINE x == [run[q] EXCEPT !.status = "generated", !.tries = 0, !.retry = now,
                                 !.owner = NoWorker, !.lease = now, !.done = NoTime]
  <2> DEFINE R == [run EXCEPT ![q] = x]
  <2>1. RunOnce(current, task, R) /\ run[q].status = "failed"
    BY <1>7 DEF Replay, Edit
  <2>2. run[q] \in RunRow
    BY <1>0, <1>7
  <2>3. x.status = "generated" /\ x.retry = now /\ x.text = run[q].text
    BY <2>2 DEF RunRow
  <2> HIDE DEF x
  <2>4. R[q] = x /\ \A r \in Runs \ {q} : R[r] = run[r]
    BY <1>0, <1>7
  <2> HIDE DEF R
  <2>5. \A r \in Runs : run'[r] = R[r] \/ R[r].status = "none"
    BY <2>1, WakesChange
  <2> QED  BY <1>7, <2>1, <2>3, <2>4, <2>5 DEF Stands
<1>8. ASSUME NEW w \in Workers, TimerFires(w) PROVE Stands
  BY <1>3, <1>8 DEF TimerFires
<1>9. ASSUME NEW w \in Workers,
             \/ Claim(w) \/ LoopEnds(w) \/ Arm(w) \/ Generated(w) \/ GenerateFails(w) \/ Deliver(w)
             \/ EnqueueFails(w) \/ LogFails(w) \/ Complete(w) \/ Renew(w) \/ RenewFails(w)
      PROVE  Stands
  BY <1>1, <1>9, DrainsChange
<1> QED  BY <1>4, <1>5, <1>6, <1>7, <1>8, <1>9 DEF Next

\* A completed run stays as it is, and a failed one changes only by a replay.
THEOREM OutcomesStand == Spec => OutcomeStands
<1>1. Inv /\ [Next]_vars => [Stands]_vars
  BY StepStands
<1> QED  BY <1>1, SchedulerInvariance, PTL DEF Spec, OutcomeStands, Stands

================================================================================
