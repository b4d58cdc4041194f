------------------------------ MODULE SessionActor -----------------------------
(* The in-process scheduler of services/sessions/sessionActor.ts: a queue per  *)
(* session, a list of ready sessions, a cap on the sessions at work, and the   *)
(* promises of whenIdle and drain.                                             *)
(*                                                                             *)
(* Every method runs to completion on the event loop, except that pump calls   *)
(* the handler in the middle of its loop and the handler may enqueue. A call   *)
(* is therefore a step up to the loop, a step per started task, and a step     *)
(* after the loop. Tasks are reused once they are over, so that queues never   *)
(* have to run dry.                                                            *)
EXTENDS Naturals, Sequences, FiniteSets

CONSTANTS Sessions, Tasks, MaxConcurrency, None

ASSUME ActorAssumption ==
  /\ MaxConcurrency \in Nat \ {0}
  /\ None \notin Tasks \cup Sessions
  /\ IsFiniteSet(Sessions)

VARIABLES
  sessions,       \* the keys of the map of session states
  queue,          \* the tasks a session has waiting
  active,         \* the task that holds a session's slot, or None
  settled,        \* the sessions whose task has settled and not yet finished
  ready,          \* the sessions whose ready flag is up
  readySessions,  \* the order in which ready sessions are served
  activeCount,    \* the slots in use
  handlers,       \* the tasks whose handler still runs, timed out or not
  pumping,        \* a call is inside pump's loop
  finishing,      \* the session finishTask is called for, or None
  called,         \* the loop has just called a handler
  idleWaiters,    \* the sessions somebody waits for with whenIdle
  draining        \* somebody waits in drain

vars == <<sessions, queue, active, settled, ready, readySessions, activeCount,
          handlers, pumping, finishing, called, idleWaiters, draining>>

IsActive(s) == active[s] # None

Queued(t) == \E s \in Sessions : \E i \in DOMAIN queue[s] : queue[s][i] = t

Free(t) == ~Queued(t) /\ t \notin handlers /\ \A s \in Sessions : active[s] # t

AtRest == ~pumping

ActorTypeOK ==
  /\ sessions \in SUBSET Sessions
  /\ queue \in [Sessions -> Seq(Tasks)]
  /\ active \in [Sessions -> Tasks \cup {None}]
  /\ settled \in SUBSET Sessions
  /\ ready \in SUBSET Sessions
  /\ readySessions \in Seq(Sessions)
  /\ activeCount \in Nat
  /\ handlers \in SUBSET Tasks
  /\ pumping \in BOOLEAN
  /\ finishing \in Sessions \cup {None}
  /\ called \in BOOLEAN
  /\ idleWaiters \in SUBSET Sessions
  /\ draining \in BOOLEAN

Init ==
  /\ sessions = {}
  /\ queue = [s \in Sessions |-> <<>>]
  /\ active = [s \in Sessions |-> None]
  /\ settled = {}
  /\ ready = {}
  /\ readySessions = <<>>
  /\ activeCount = 0
  /\ handlers = {}
  /\ pumping = FALSE
  /\ finishing = None
  /\ called = FALSE
  /\ idleWaiters = {}
  /\ draining = FALSE

\* mutant: a session goes to the front of the list
MarkFirst(s) ==
  IF s \in ready
  THEN UNCHANGED <<ready, readySessions>>
  ELSE ready' = ready \cup {s} /\ readySessions' = <<s>> \o readySessions

(* markReady of a session that has work *)
MarkReady(s) ==
  IF s \in ready
  THEN UNCHANGED <<ready, readySessions>>
  ELSE /\ ready' = ready \cup {s}
       /\ readySessions' = Append(readySessions, s)

(* enqueue, from outside or from the handler that pump has just called *)
Enqueue(s, t) ==
  /\ AtRest \/ called
  /\ Free(t)
  /\ sessions' = sessions \cup {s}
  /\ queue' = [queue EXCEPT ![s] = Append(@, t)]
  /\ IF IsActive(s) THEN UNCHANGED <<ready, readySessions>> ELSE MarkReady(s)
  /\ pumping' = TRUE
  /\ UNCHANGED <<active, settled, activeCount, handlers, finishing, called, idleWaiters, draining>>

\* mutant: the newest task of the session is taken
StartLatest(s) ==
  /\ ready' = ready \ {s}
  /\ readySessions' = Tail(readySessions)
  /\ queue' = [queue EXCEPT ![s] = SubSeq(@, 1, Len(@) - 1)]
  /\ active' = [active EXCEPT ![s] = queue[s][Len(queue[s])]]
  /\ activeCount' = activeCount + 1
  /\ handlers' = handlers \cup {queue[s][Len(queue[s])]}
  /\ called' = TRUE
  /\ UNCHANGED <<sessions, settled, pumping, finishing, idleWaiters, draining>>

(* One turn of pump's loop. A session of the list is in the map, idle and has  *)
(* work (ReadyHasWork), so the loop's other branches are never taken.          *)
StartHead(s) ==
  /\ ready' = ready \ {s}
  /\ readySessions' = Tail(readySessions)
  /\ queue' = [queue EXCEPT ![s] = Tail(@)]
  /\ active' = [active EXCEPT ![s] = Head(queue[s])]
  /\ activeCount' = activeCount + 1
  /\ handlers' = handlers \cup {Head(queue[s])}
  /\ called' = TRUE
  /\ UNCHANGED <<sessions, settled, pumping, finishing, idleWaiters, draining>>

\* mutant: one slot too many
PumpOver ==
  /\ pumping
  /\ activeCount <= MaxConcurrency
  /\ readySessions # <<>>
  /\ StartHead(Head(readySessions))

PumpStarts ==
  /\ pumping
  /\ activeCount < MaxConcurrency
  /\ readySessions # <<>>
  /\ StartHead(Head(readySessions))

(* resolveDrainIfIdle, and resolveSessionIdle of the session that finished *)
Resolve ==
  /\ idleWaiters' = IF finishing \in sessions THEN idleWaiters ELSE idleWaiters \ {finishing}
  /\ draining' = (draining /\ ~(sessions = {} /\ activeCount = 0))

\* mutant: a call starts at most one task
PumpOnce ==
  /\ pumping
  /\ called \/ (activeCount < MaxConcurrency => readySessions = <<>>)
  /\ Resolve
  /\ pumping' = FALSE
  /\ called' = FALSE
  /\ finishing' = None
  /\ UNCHANGED <<sessions, queue, active, settled, ready, readySessions, activeCount, handlers>>

PumpEnds ==
  /\ pumping
  /\ activeCount < MaxConcurrency => readySessions = <<>>
  /\ Resolve
  /\ pumping' = FALSE
  /\ called' = FALSE
  /\ finishing' = None
  /\ UNCHANGED <<sessions, queue, active, settled, ready, readySessions, activeCount, handlers>>

(* The handler's promise settles; it counts for the slot unless it timed out. *)
HandlerEnds(t) ==
  /\ AtRest
  /\ t \in handlers
  /\ handlers' = handlers \ {t}
  /\ settled' = settled \cup {s \in Sessions : active[s] = t}
  /\ UNCHANGED <<sessions, queue, active, ready, readySessions, activeCount,
                 pumping, finishing, called, idleWaiters, draining>>

(* The timer aborts the handler and frees the slot; the handler may run on. *)
TimesOut(s) ==
  /\ AtRest
  /\ IsActive(s)
  /\ s \notin settled
  /\ settled' = settled \cup {s}
  /\ UNCHANGED <<sessions, queue, active, ready, readySessions, activeCount, handlers,
                 pumping, finishing, called, idleWaiters, draining>>

(* finishTask up to its call of pump *)
Release(s) ==
  IF queue[s] # <<>>
  THEN MarkReady(s) /\ UNCHANGED sessions
  ELSE sessions' = sessions \ {s} /\ UNCHANGED <<ready, readySessions>>

FinishTask(s) ==
  /\ AtRest
  /\ s \in settled
  /\ settled' = settled \ {s}
  /\ active' = [active EXCEPT ![s] = None]
  /\ activeCount' = activeCount - 1
  /\ Release(s)
  /\ pumping' = TRUE
  /\ finishing' = s
  /\ UNCHANGED <<queue, handlers, called, idleWaiters, draining>>

(* whenIdle and drain resolve at once when there is nothing to wait for. *)
WhenIdle(s) ==
  /\ AtRest
  /\ s \in sessions
  /\ idleWaiters' = idleWaiters \cup {s}
  /\ UNCHANGED <<sessions, queue, active, settled, ready, readySessions, activeCount,
                 handlers, pumping, finishing, called, draining>>

Drain ==
  /\ AtRest
  /\ sessions # {}
  /\ draining' = TRUE
  /\ UNCHANGED <<sessions, queue, active, settled, ready, readySessions, activeCount,
                 handlers, pumping, finishing, called, idleWaiters>>

Next ==
  \/ PumpStarts
  \/ PumpEnds
  \/ Drain
  \/ \E t \in Tasks : HandlerEnds(t)
  \/ \E s \in Sessions :
       \/ TimesOut(s)
       \/ FinishTask(s)
       \/ WhenIdle(s)
       \/ \E t \in Tasks : Enqueue(s, t)

Spec == Init /\ [][Next]_vars

(* The loop ends, settled promises reach finishTask and every task settles or  *)
(* times out; a handler that runs on after its timeout may never end.          *)
FairSpec ==
  /\ Spec
  /\ WF_vars(PumpStarts)
  /\ WF_vars(PumpEnds)
  /\ \A s \in Sessions : WF_vars(TimesOut(s)) /\ SF_vars(FinishTask(s))

--------------------------------------------------------------------------------
(* The slots in use are the sessions at work, and never more than the cap:     *)
(* activeCount is kept by hand over timeouts, late handlers and nested calls.  *)
SlotsCounted ==
  /\ activeCount = Cardinality({s \in Sessions : IsActive(s)})
  /\ activeCount <= MaxConcurrency

(* The list of ready sessions holds each once, and exactly the known sessions  *)
(* that are idle and have work: pump never meets one it would have to skip.    *)
ReadyHasWork ==
  /\ \A i, j \in DOMAIN readySessions : readySessions[i] = readySessions[j] => i = j
  /\ ready = {readySessions[i] : i \in DOMAIN readySessions}
  /\ ready = {s \in Sessions : ~IsActive(s) /\ queue[s] # <<>>}
  /\ sessions = {s \in Sessions : IsActive(s) \/ queue[s] # <<>>}

(* When no call is under way a ready session waits only because every slot is  *)
(* taken: no timeout, late handler or nested enqueue loses a wake-up.          *)
NoStalledSession == AtRest /\ ready # {} => activeCount = MaxConcurrency

(* Whoever waits for a session or for all of them waits for work that is       *)
(* still there: the promise of whenIdle or drain is never left behind.         *)
NoForgottenWaiter ==
  AtRest => idleWaiters \subseteq sessions /\ (draining => sessions # {})

(* A task that waits for its session's slot gets it, however much other        *)
(* sessions have to do: ready sessions take turns.                             *)
EveryTaskStarts ==
  \A s \in Sessions : queue[s] # <<>> /\ ~IsActive(s) ~> IsActive(s)

(* The scheduler serves each session's tasks one at a time in their order,     *)
(* with at most MaxConcurrency sessions at work.                               *)
Abstract == INSTANCE KeyedQueues
  WITH Keys <- Sessions, Max <- MaxConcurrency, waiting <- queue, served <- active

ServesInOrder == Abstract!Spec

(* The books the actor keeps by hand (slots, ready list, session map) agree.   *)
SlotsAndQueues == ActorTypeOK /\ SlotsCounted /\ ReadyHasWork

(* When no call is under way, nobody waits for something that will not come: a *)
(* session for a slot that is free, a promise for work that is gone.           *)
NobodyForgotten == NoStalledSession /\ NoForgottenWaiter

================================================================================
