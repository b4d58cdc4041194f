# Sunabot Native Core: verification project

TLA+ models of the durable message machinery of Sunabot and of the background work
beside it, model-checked with TLC on small instances and, for most of it, proved with
TLAPS for every size. Paths below are relative to the repository;
`services/sessions/` is meant where a bare file name is given, and `src/runtime/` is
the directory of that name inside the repository's own `src/`.

## 1. Inventory of the system

Sunabot runs several chat agents over OneBot (QQ) accounts and a web chat. Inbound
messages become durable *events* of a session; a session runs one *turn* at a time;
a turn appends outbound messages to a durable *outbox*, may start a durable *tool
job*, and may hand its event to another session. All of it is kept in one SQLite
file per agent and driven by one `SessionCoordinator` per agent. Beside that, a
scheduler runs tasks at their times, a nightly *Dream* compresses the agent's memory,
and a manager starts and stops the agents' runtimes as their accounts come and go.

| component | state | operations | interacts with | what is hard | what makes it correct | status |
|---|---|---|---|---|---|---|
| outbox store (`sessionOutboxStore.ts`, `outboxSettleStore.ts`, `sessionHeldOutboxStore.ts`) | rows: state, lease, attempts, `available_at`, hold state, transport mark, settle steps; session cursors | insert, hold, release, neutralise, claim, renew, mark started / remote sent, settle steps and effects, finish, resolve, replay, recover | turns append, the coordinator claims, operators resolve | two phases around an unrepeatable remote call, recovery after a crash at any point | a message is transported at most once and in order; hooks run once; the cursor separates closed from open rows | modelled |
| delivery partitions (`outboxPartitionScheduler.ts`) | paused set, ready probes, probe timers | pause, resume, retry, take ready, complete attempt | coordinator, connection events | timers against late attempts | a paused partition is always probed; it blocks only itself | modelled |
| outbound delivery (`outboxDeliveryContext.ts`, outbox half of `sessionCoordinator.ts`) | claims in memory, abort signals, finalization flags, wake timers | schedule, claim, deliver, finish, fail, stop, resume | store, actor, partitions, runtime delivery | late handlers after a timeout or a stop, failing writes, lost wake-ups | every row concludes; a lease always has a keeper | modelled |
| session actor (`sessionActor.ts`) | queue per session, ready list, running count, waiters | enqueue, pump, run, time out, whenIdle, drain | all halves of the coordinator | a slot released while its handler runs on; a handler called inside the loop that enqueues | one task per session, FIFO, a cap, nobody forgotten | modelled |
| event and turn stores (`sessionEventStore.ts`, `sessionTurnStore.ts`) | events with sequence and `available_at`, turns with worker and lease, session cursors | enqueue, reschedule, compare-and-set, claim, append outbox, finish, hand off, defer, interrupt, recover | intake, debounce, coordinator, tool jobs | a running turn against a moved deadline; a crash between append and finish | per-session FIFO, one running turn, a hand-off all or nothing | modelled |
| turn results and wake-up (`sessionTurnResultCoordinator.ts`, `sessionTurnWake.ts`) | finalization flags, one timer | apply, fail, scan, arm | turn store | swallowed errors, one timer for all events | no running turn without an owner, no due event unscanned | modelled |
| tool jobs (`sessionToolJobStore.ts`, `sessionToolJobProcessor.ts`, `codexArtifacts.ts`) | jobs, attempts and tokens, process identity, published files | claim, record process, renew, complete, recover, clean up, publish, roll back | turns (completion event), codex process, workbench | an external process that survives a crash, late completions, files beside rows | one completion event per job, one process at a time, files of the attempt that succeeded | modelled |
| reply debounce and intake (`src/runtime/replyDebounce.ts`, `intake.ts`) | one event per sender, follow-ups, deadline, conversation records | accept, open, bump, recover, hand off | event store, conversation store | compare-and-set against a running turn, two stores without a common transaction | a message is answered once, none is dropped | partly |
| scheduled tasks (`services/scheduling`, `adapters/sqlite/scheduledTaskStore.ts`, `src/runtime/scheduledTasks.ts`) | tasks, occurrences, runs with leases, one timer | create, edit, delete, claim due, claim run, generate, deliver, fail, replay, arm | runtime, event store | leases against long generation, edits between drains, partial delivery | an occurrence runs once, one text to all targets, nobody oversleeps | modelled |
| dream pipeline (`adapters/sqlite/dream*.ts`, `src/runtime/dream*.ts`) | the day's row with status, lease, attempts, retry; running task | tick, force, claim, generate, commit, fail, finish | working memory, long-term memory | a file and a database committed one after the other; abort and lease loss | the commit is whole or undone; settled days stay settled | modelled |
| working memory (`services/memory/workingMemoryDocument.ts`) | one Markdown file, its revision | append, replace | tools, Dream | revision compared and file renamed in different awaits | an acknowledged note is not lost | partly (memory) |
| agent runtimes (`services/agents/agentRuntimeManager.ts`) | runtimes, readiness, operations per agent, orchestrator generation | start, stop, refresh, connect, disconnect, close | registry, gateway | interleaving around awaits | at most one runtime per agent, orchestrators run only under a connection | modelled |
| group orchestration and admission (`services/orchestration`) | reply times, block window | observe, admit, release | intake | messages queued before a block | a blocked window admits nothing older than it | not modelled |
| account reconciler and launcher (`services/agents/accountRuntimeReconciler.ts`, `tooling/runtime`) | owner file, request and result files, daemon processes | start, acquire, assert, release, claim, answer, recover; request, poll, time out | bot, launcher and daemon share a directory | two processes and files, starts that race, a kill between any two file operations | one daemon is in charge; a request is carried out at most once and answered | partly |
| OneBot gateway (`adapters/onebot`) | sockets, pending actions | connect, call, answer, time out | delivery, intake | answers after a time-out, reconnection | an answer reaches its request | partly (as delivery sees it) |
| extensions, MCP host (`services/extensions`, `adapters/filesystem/agentExtension*`) | server pool, approvals, journalled copies | acquire, release, copy, recover | model turns | shared servers, crash in a copy | a crash leaves old or new | not modelled |
| everything else (model adapters, media, voice, emoji, knowledge, web fetch, HTTP API, admin console, configuration, tools, migrations, deployment) | | | | pure transformations, I/O or user interface | | not modelled |

The hazards these parts are exposed to are listed, with their lines, in
`PROJECT.json`, each with the properties that would catch it.

## 2. Plan

Built, in this order:

1. **Outbox and delivery**: `OutboxStore`, `OutboxPartitions`, `OutboxDelivery`, the
   promise `OrderedOutbox`.
2. **Turns**: `TurnStore` and, over it, the coordinator's half `TurnQueue`.
3. **Reply intake**: `ReplyIntake`, the debounce over the same `TurnStore`.
4. **Tool jobs**: `ToolJobs`.
5. **Session actor**: `SessionActor` and the promise `KeyedQueues` it implements.
6. **Background work**: `ScheduledTasks`; `WorkingMemory` and, over it, `DreamRun`.
7. **Agent runtimes**: `AgentRuntimes`.
8. **Account daemon**: `RuntimeOwner` and, over it, `AccountDaemon`.

Left: the broadcast storm gate and admission of group replies, the webfetch renderer's
limiter, the first-run journal, the OneBot request table, the MCP server pool, the
journalled extension copies.

Proofs exist for every modelled part (section 5): every invariant and every action
property that a run expects to hold, and both refinements, are theorems. What is left to
TLC is liveness.

## 3. What is modelled

| module | models | notes |
|---|---|---|
| `OutboxStore` | the outbox table and its operations | one operator per transaction, guard and update apart |
| `OutboxPartitions` | `OutboxPartitionScheduler` | a value and one operator per method |
| `OutboxDelivery` | outbox half of the coordinator, delivery context, actor as far as it runs outbox tasks, runtime delivery | composes the two above |
| `OrderedOutbox` | the promise of the outbox, for a reader who does not know leases | abstract specification, refined by `OutboxDelivery` |
| `TurnStore` | events, turns, the rows a turn appends, session cursors | one operator per transaction |
| `TurnQueue` | scan, timer, actor slots, handlers' writes and results, restarts | over `TurnStore` |
| `ReplyIntake` | intake, debounce windows, conversation records, hand-off | over `TurnStore` |
| `ToolJobs` | job rows, processor, actor keys, codex processes, published files | |
| `SessionActor` | `sessionActor.ts`, call by call | |
| `KeyedQueues` | the promise of a keyed scheduler | abstract specification, refined by `SessionActor` |
| `ScheduledTasks` | task and run rows, scheduler, callback events | |
| `WorkingMemory` | the document and its writers, await by await | |
| `DreamRun` | the day's row, tasks, the commit over file and database | over `WorkingMemory` |
| `AgentRuntimes` | `agentRuntimeManager.ts` | |
| `RuntimeOwner` | `owner.json` of the account daemon, with its evidence links | one operator per file operation |
| `AccountDaemon` | launcher, daemons, the bot's requests | over `RuntimeOwner` |
| `MC…` | symmetry or small instances for TLC | section 4 |
| `SessionActorProofs` | proofs about the actor, with its refinement | section 5 |
| `TurnQueueProofs` | proofs about the turn store, and about the coordinator over it | section 5 |
| `OutboxDeliveryProofs` | proofs about the outbox rows, the delivery over them, and its refinement | section 5 |
| `AccountDaemonProofs` | proofs about the owner file and the daemons | section 5 |
| `ToolJobProofs` | proofs about the tool jobs | section 5 |
| `ScheduledTaskProofs` | proofs about the scheduled tasks | section 5 |
| `RuntimeProofs` | proofs about the agent runtimes and the reply intake | section 5 |
| `DreamRunProofs` | proofs about the working memory and the Dream over it | section 5 |

Throughout, an action stands for the statements between two awaits, since the program
is one event loop and its SQLite transactions are synchronous; in `AccountDaemon`, whose
processes share a directory, it stands for one operation on that directory (section
"Account daemon" says where it stands for several). Ghost variables, marked
as history, are read by properties only. Where a behaviour needs a misfortune, its kind
is a member of `kinds` (`Disturbances`, `Failures`) and a budget bounds how many happen;
everything else may happen whenever its guard holds.

### Outbox and delivery

**Rows.** A row's identity is its place in the global append order. The code allocates
`sequence` and `delivery_partition_sequence` in the inserting transaction, so both
orders are restrictions of that one; the partition sequence is not kept apart, while the
session sequence is, because cursors are compared with it. `hold` is `hold_state`,
`due` is `available_at <= now`, `lapsed` is `lease_until <= now`, `started` is
`transport_started_at != null`, `steps` and `uncertain` are the completed settle steps
and `settle_started_step`. Payloads, fingerprints, receipts and errors are left out:
none of the properties tells them apart.

**Tasks.** A claim of `scheduleOutbox` becomes a task in a slot. Its program counter
follows the awaits of the handler: `queued` in the actor, `run`, `paced` (the wait
before a later bubble), `remote` (the OneBot or web operation), `step` (an idempotent
settle operation), `effect` (an `after_reply` hook). The checks between awaits
(`assertClaimUsable` and the store's own worker and state checks) are guards. A task the
actor gave up on, or whose coordinator was stopped, stays as a zombie and may still
reach its next check. `finishOutboxFailure` is one action for each way a task fails,
with the outcome chosen from the row it reads, and the write may be refused by the
store or fail.

**Ghost state.** `sends` counts remote operations per row; `applied` counts hook runs
per step, taken back when the operator confirms the last one was not applied.

**Environment.** Preparation, remote and settle failures, a skipped delivery, actor
time-outs, accounts going offline, failing lease renewals, a stalled process (a lease
lapses under its task), writes the store refuses, a recovery that throws, stop, crash,
operator replay and resolution, inbound traffic (which resumes a partition), held rows.

**Coordinators.** `worker` numbers them; at most one is up. A stop leaves the handlers
of the old one running under the new one; a crash takes them along. `Starts` is the
first `resume()` with the whole recovery transaction, `StartsUnrecovered` the one whose
recovery throws.

### Turns

`TurnStore` is a library of transactions over six variables: events, the turns of each
event (attempt `a` of event `e` is `turns[e][a]`, after the unique index), the outbox
rows a turn appends (`said[e][k]`, under the dedupe key `turn-outbox:<e>:<k>`) and the
two counters of a session. Here time is a number, since `handoffTurn` compares
`available_at` with the one the claim read, and a deadline moved meanwhile sends the
turn back. `TurnQueue` adds the synchronous scan (`Scan` claims all there is to
claim), the one wake timer, tasks with their `ClaimState` (`aborted`, `late`,
`final`), the handlers as sequences of writes (an ordinary row; or a held row, the
staged mutation's commit or refusal, release or neutralisation, as
`systemConfigReply.ts` writes them), and the results with the errors the result
coordinator swallows. `commits` counts the mutations per event.

`ReplyIntake` uses the same store differently: the queue (`turnVars`) and the
conversation records (`record` in memory, `disk` as saved) are two stores that one
process writes without a common transaction, and what matters is which of them a crash,
a failed save or a second delivery finds ahead. A snapshot is a message and its
`captureSequence`, a payload a set of snapshots; recovery (`Recoverable`, `Recovered`)
checks and merges them as the code does. The coordinator is reduced to what it claims
and in which order it applies results. `window` is history: what each event answers for.
A recovery appends in memory as it goes and saves at its end; one that throws at a
snapshot keeps what it appended by then (`Throw`), and two snapshots of one sequence are
met in either order. A delivery that has passed the duplicate check stands at the gate
(`intake`) while others come and go, but no timer runs over it: what it awaits there is
settled long before a debounce ends (`AtTheGate` in `Tick`). `Calm` names the instances
in which the two stores are never at odds.

### Tool jobs

`ToolJobs` follows one job's row, the attempts' tasks (`run`, `launched`, `exited`,
`staged`), the detached codex process of each attempt, which a crash of the bot leaves
at work, and the files an attempt has published. The attempt number stands for the
attempt token. Each `await` of `process()` is a boundary; `Launch` is spawn, process
record and prompt in one synchronous piece, as in `codexTool.ts`. The actor's keys
(`toolActorKey`) make local jobs share one.

### Session actor

`SessionActor` splits each method where other code can run: a call up to `pump`'s loop,
one step per task the loop starts (which calls the handler, and the handler may enqueue
from inside), and the step after the loop. `finishTask` is the continuation of a settled
task; a handler that timed out goes on in `handlers`. Tasks are reused when they are
over, so that behaviours need not end and starvation is possible to see. The refinement
maps queues to `waiting` and active tasks to `served`.

### Scheduled tasks and Dream

In `ScheduledTasks` a *worker* is one scheduler object; the drain of a closed one runs on
beside its successor. A run is named by its task and occurrence, and its row carries
status, text, tries, retry time, owner and lease, compared with the clock as the SQL
does. `Deliver` enqueues the callback events of all targets, `EnqueueFails` those of
some. Every change by the administrator ends in `wake()` with a drain, which is part of
the action.

`WorkingMemory` is the document with one writer per note and one per Dream task; each
file operation is a step, and a document's revision is its content. `DreamRun` adds the
row of one day and the tasks: capture, acceptance of the claim, model, log, a second
capture, the replacement, the database commit, the rollback of the document, completion.
An aborted task ends at its next check. A suspended host is how a 45-minute lease lapses
under a 10-minute task. `torn` and `raced` are history that says which loss is excused:
`torn` that a compression stayed though its commit was refused or lost, `raced` which
writers renamed while another one was between its last look at the revision and its
reading back. Those may be two notes, a note and a Dream, or two Dreams: the rollback of a
cancelled one and the replacement of its successor.

### Agent runtimes

`lanes` is the chain of promises per agent; `step` is what the first operation of a lane
awaits and what it read before. `generation` and `active` are the orchestrator
activation; a resume is named by the generation it belongs to and starts every agent
again before it resumes their orchestrators. `close` waits for the lanes and then closes
what is loaded; it may be called again after it threw. A runtime's own `close` may throw
wherever it is called, having closed the runtime or not (`CloseThrows`): a runtime that
was to leave the map then stays in it, one that was ready too late enters it, and one
whose `initialize` threw before is `abandoned`: nothing knows it any more, but for the
default agent's, which its next start opens again.

### Account daemon

In `RuntimeOwner` a file is an inode: whose record it holds and which copy of it. It is
linked to the owner path from an evidence file (`Publish`), renamed away (`TakeAside`),
compared with what was inspected (`IsExpected`) and removed with its evidence or
published again as a new inode (`Restore`). In `AccountDaemon` a daemon is the number of
its start, and its first steps are those of its launcher. `aim` says what the inspection
under way is for; an inspection reads the file in one step and judges evidence and
process in another, which is where others come in between. A request's `place` is the
directory of its file. `GivesUp` stands for the two seconds after which a daemon without
a running owner stops, and may happen sooner. Some operations that
the code does one after another are one step: `Rechecks` reads the republished owner file
again, compares it and its evidence and removes the copy kept aside; `CloseClaim` looks
for a result, reads the request, and removes it or writes the result. A launcher that gives up after three
seconds is one of the stops and crashes.

## 4. Runs

Several modules name their small instances in the `MC` module as *bounds*: `Init`
chooses one of them and the disturbances, deadlines, numbers of events and coordinators
it allows. One run then covers several instances, each wide where its hazards are, and a
property that does not hold in an instance has that instance's kinds in its antecedent.

| run | instance | what it shows |
|---|---|---|
| `delivery_faults` | 2 sessions in 1 partition, 2 rows, 2 coordinators, every kind of disturbance, any 2 of them | types, at most one send, the cursor, exclusive transport, refinement of `OrderedOutbox` |
| `delivery_lanes` | 2 sessions, 2 partitions, 2 rows, accounts going offline | paused partitions are probed and no wake-up is lost (`DeliveryWatched`), no lease is stranded |
| `delivery_conclude` | 2 sessions in 2 partitions, 2 rows with a hook, 1 slot in the actor, 2 coordinators; one failure, stop, crash or account that goes offline, perhaps for good | hooks run once; every message concludes across a restart, and only messages behind an offline account wait |
| `turns` | `Faulty`: 2 sessions, any 2 failures; `Mutating`: 1 event, 2 rows and a staged change through 3 coordinators; `Waking`: 2 events with deadlines that move; `Lasting`: 2 events, 1 disturbance, no refused write | one running turn and a FIFO cursor (`TurnsInOrder`), a change is made once and confirmed only if made (`ChangeIsTold`), every waiting event has a scan or timer, rows of a turn are never replaced, every event concludes |
| `intake` | `Windows`: 3 messages of 2 senders; `Unsaved`: 2 messages delivered twice, failing saves; `Direct` and `Immediate`: no debounce, with and without failures; `Lasting`: one sender's 2 messages over a crash; `Doubled`: the same delivered twice; `Conflicting`: 3 messages, a failing save lets two windows claim one sequence | the two stores fit (`RecordsFit`), one answer per message, the hand-off carries the window, every window is answered |
| `tools` | `Crashing`: a codex job and a plain one, 3 lives; `Unwritten`: a codex job, every disturbance, any 3; `Files`: 2 local jobs, 2 lives; `Side`: 2 local jobs, 1 life, failing rollbacks | exclusion of processes, files as announced, one completion, every job completes |
| `actor` | 3 sessions, 4 tasks, 2 slots | books agree, nobody is forgotten, refinement of `KeyedQueues`, no starvation |
| `schedule` | `Delivering`: a one-time run, 2 targets, 2 schedulers, 3 faults; `Editing`: a one-time and a cron task under 3 edits | occurrences stay open, delivery as one thing, the timer is in time, outcomes stand |
| `dream` | `Appending`: 2 notes against a Dream; `Crashing`: 2 runtimes, a note, an edit; `Forcing`: a forced round; `Rounds`: 2 runtimes, 3 faults | the row tells the truth, every loss is accounted for, the long-term memory is kept, no late write, the day settles |
| `runtimes` | 2 agents, 3 runtimes, 3 calls, 3 generations, any 2 failures | no stray runtime, the suspension wins, close is final |
| `daemon` | `Racing`: a daemon was killed in charge, 3 starts and a waiting request; `Killing`: the same with 2 starts and another kill; `Replacing`: 2 starts, 2 requests, any 2 stops, crashes and time-outs | the owner file names who is in charge (`OneOwner`), requests are neither repeated nor cut short, one daemon remains and serves |
| `note_overwritten` | 2 notes and a Dream, nothing fails | violation, the finding below |

Deadlock is checked in `actor` only: elsewhere the work is finite, and when it is done
and the disturbances are used up the system rests.

**Why the bounds are enough.** Order and exclusion are about two rows, events or jobs
that share a session, a partition or a key, so two of them show every combination; for
the outbox the proofs cover any number. Two coordinators suffice for a zombie of the old
one against the new; `Mutating` and the tool jobs take three, since a third attempt has
to meet the leavings of two. Two disturbances let a failure meet a time-out, a crash or a
failing write; where a property needs a longer chain (three deliveries until a run is
given up, three claims of a Dream) the budget is three. `MaxAttempts` is the smallest
that reaches both a retry and giving up. `MaxFollowUps` is 1 where the code has 64: what
matters is a window with more follow-ups than fit. Three sessions over two slots are the
least where one can be passed over. Two agents suffice for the runtimes, since agents
meet only in a resume and in `close`, and the default agent differs from the others. A
start of the daemon can be misled by one that is faster, and it takes a third to use the
path meanwhile; so three of them, with the stale file they compete for, show every way
in which two can be in charge.

**Named parts.** A property of a run is often a conjunction of parts defined apart, each
with its comment: `TurnsInOrder` (types, `OneRunningTurn`, `EventCursorSplits`),
`ChangeIsTold` (`MutationOnce`, `ConfirmationIsTrue`), `RecordsFit` (types,
`RecordedOnce`, `SnapshotsRecoverable`), `ProcessesExclude` (types, `OneProcessPerJob`,
`LocalAlone`), `FilesMatchOutcome` (`SuccessHasFiles`, `NoStrayFiles`), `SlotsAndQueues`
(types, `SlotsCounted`, `ReadyHasWork`), `NobodyForgotten` (`NoStalledSession`,
`NoForgottenWaiter`), `OccurrencesOpen` (types, `OccurrenceIsNew`), `DeliveredAsOne`
(`CompletedIsQueued`, `OneText`, `GivenUpAfterThree`), `RowIsTrue` (types,
`ThreeAutomaticClaims`, `CommitIsWhole`), `DocumentAccounted` (`LossNeedsRace`,
`CompressionsRecorded`), `NoLateWrite` (`OutcomeStands`, `CancelledIsSilent`),
`RuntimesAccounted` (types, `NoStrayRuntime`, `RoutableIsOpen`), `OrchestratorsFollow`
(`SuspensionWins`, `EveryoneResumed`), `DeliveryWatched` (`PausedIsProbed`,
`NoLostWakeup`), `SessionsSplit` (types, `CursorSplitsSession`), `OneOwner` (types,
`OwnerWhole`, `LeaseStands`), `RequestsHandledOnce` (`CarriedOutOnce`, `ClosedForCause`),
`DaemonSettles` (`OneRemains`, `RequestsAreServed`).

**Antecedents.** What a property leaves out, and why:

- `LeaseIsRecoverable` and `EveryMessageConcludes` run without refused writes and failing
  recoveries, and `delivery_conclude` without failures before the transport; see the
  observations below.
- `EveryEventConcludes` asks that the store refuses no write: after a refusal the turn
  stays running until the next process.
- `SnapshotsRecoverable` holds in calm instances (`Calm`): no save fails, and a message has
  one delivery at the gate at a time or, with no debounce, nothing crashes. Otherwise a
  captured sequence can be lost: a plain save that failed is only logged (item 11 of the
  observations), and items 10 and 12.
- `AnsweredOnce` and `HandoffCarriesAll` hold with no debounce, and with one in calm
  instances; items 11 and 12 say what happens otherwise. TLC shows both in instances
  larger than those of the run: with two senders, 4 messages and a failing strict save, or
  with 6 messages delivered twice.
- `EveryWindowAnswered` allows crashes only: a gate that closes drops the window.
- `LocalAlone` leaves out crash, stop and time-out: each frees the key while the process
  may still work.
- `NoStrayFiles` leaves out crashes and failing rollbacks, after which files remain.
- `EveryJobCompletes` asks that the store takes the writes and that there are more
  attempts than disturbances.
- `SleepsInTime` compares the timer with the wake time only while one scheduler lives.
- `DocumentAccounted` and `CommitIsWhole` excuse the race between two renames, which is
  the finding; a note is excused only if it renamed in such a race itself, a compression
  if anybody did. The race of two Dreams takes a failure, an abort and a second launch,
  more than one instance of the run allows together; the invariant of the proof showed it.
- `RoutableIsOpen` leaves out a `resume` or `close` that throws, `EveryoneResumed` a
  `resume`; `NoStrayRuntime` and `ClosedForGood` do not count an abandoned runtime (item 7
  of the observations).
- `LeaseStands`, `ClosedForCause` and `RequestsAreServed` excuse the moments in which a
  living daemon's file has been taken by a start that judged an earlier one (`Robbed`,
  `Dispute`); `OneRemains` says that they pass.

### Finding

`note_overwritten`: `replaceWorkingMemoryDocument` reads the revision again and then
awaits two more operations before its rename. An `add_workmemory` that completes in
between has succeeded, and is overwritten by the Dream's document; the specification
(`docs/specs/04-memory-and-media.md`) says that it must not be.

### Other observations

Behaviours of the code met while modelling that no document rules out, which the
antecedents above leave aside:

1. A `sending` row whose final write failed keeps a lease nobody takes up: the rescan
   armed for its expiry (`sessionCoordinator.ts:572`) cannot claim it, since
   `claimNextOutbox` takes `pending` and `sent_remote` rows only. It waits for the next
   process.
2. `ensureStarted` sets `started` before it recovers; when recovery throws, no later
   `resume()` recovers.
3. When a lease lapses under a task that is settling, the row can be claimed again, and
   the hook that the first task completes meanwhile is run again by the second:
   `beginOutboxSettleEffect` is silent about a completed step.
4. The timer of a retry is only in memory. A coordinator replaced within the delay
   (250 ms by default) leaves the row to whatever schedules the outbox next.
5. `failActorTask` (`sessionTurnResultCoordinator.ts:119`) marks the claim final before
   the write and swallows its error: the turn stays running, and blocks its session,
   until the next process.
6. A bump moves the window's deadline before the record is written; if the record cannot
   be merged or saved, the deadline has moved all the same.
7. A disabled agent keeps its readiness key, so the next connection or invalidation
   starts it again; the default runtime is closed when its `initialize` fails and is
   initialised again, closed, by the next start; a runtime whose resume throws after it
   entered the map stays loaded but closed, and so may one whose close threw when it was
   to be unloaded, which the next start finds and offers again; a runtime whose
   `initialize` and whose `close` both throw (`agentRuntimeManager.ts:121-124`) is known
   to nobody; one agent that fails to start during a resume suspends all of them until
   the next connection.
8. A start of the account daemon that judged a stale owner file renames whatever is at the
   owner path by then. If that is the file of a daemon that has just published, the path
   is free for a moment: a third start may publish, both daemons are in charge until
   the first one looks again, and the third closes claims as abandoned, or has its own
   closed, while they are worked on. A request is still carried out once at most. With
   two starts the outcome may be no daemon at all, the first one having found its
   publication gone and the other having put it back and failed; the launchers report
   both. The unit test of that race (`tests/unit/account-runtime-daemon.test.ts`) expects
   exactly one.
9. The answer to a request whose bot gave up stays in `results/`.
10. With no debounce, a crash between the reply event and the record
   (`intake.ts:215-289`) leaves a payload that nothing recovers before the next message
   (`recoverActiveConversation` returns at once). If that message is recorded before the
   reply is processed, it takes the captured sequence, and the reply's recovery throws.
11. A captured sequence that another message takes, after a save that failed, is a conflict:
   `recoverSnapshots` throws for every window of the conversation until one of the two is
   over. A bump goes on meanwhile without its record (item 6), so a message that a later
   one pushes out of the payload (64 follow-ups) is on no record and in no answer's
   context; delivered again, it is taken for a new one and answered twice.
12. `bump` gives a follow-up the next sequence after those recorded and captured. A second
   delivery of a message that was recorded outside the window, and that passed the
   duplicate check before that (`intake.ts:214`), enters the window at a sequence the
   record never gets, with the consequences of item 11.

### Fairness

Each specification assumes only what the event loop and the timers give; no fairness is
assumed of disturbances, of the operator or administrator, or of new work.

- `OutboxDelivery!HostFairness`: the process starts (`Starts`); a scan that was scheduled
  runs (`deferScan` is a microtask) and claims until nothing is left; timers fire; a
  handler that runs reaches its next await and the awaited operation answers or fails
  (every remote and hook operation has a time-out of its own, or the actor's); a lapsed
  lease of an attended task is renewed (`setInterval`); a turn decides about the row it
  holds. The actor's `Begin` is strongly fair: the ready list is a FIFO, so a session
  that is ready again and again is served although the cap may disable it in between;
  the `actor` run checks of the actor what is assumed here (`EveryTaskStarts`). Nothing is
  assumed of accounts: one that is offline may stay so.
- `TurnQueue`: scan, timer, clock, start of the next coordinator, and each task's begin
  and end. `Begin` is weakly fair, since the few tasks of an instance cannot keep a slot
  from one for ever.
- `ReplyIntake`: clock, restart, some accepted message goes on, some claimed event goes
  on (every handler step has a time-out).
- `ToolJobs`: scan, start, and some attempt goes on; a supervised codex process ends by
  its deadline.
- `SessionActor`: the loop goes on and ends, each task settles or times out, and a
  settled task's continuation runs (`SF`, since the continuation waits while another
  call is in the loop). A handler that runs on after its time-out may never end.
- `DreamRun`: the tick timer, start, lapse of a lease, the retry's hour, each task's next
  step.
- `AccountDaemon`: every process takes its next step, the two seconds of a daemon without
  an owner pass, and the bot polls. No start, request or signal is assumed.
- `ScheduledTasks` and `AgentRuntimes` are checked for safety only.

Goals that stay true once reached are stated as `[]<>` instead of a leads-to for each
element, which TLC checks with one tableau.

## 5. Proofs

Each theorem holds for every value of the constants under the named assumptions of its
modules, which only say that counts are natural numbers and that sets which must not be
empty are not. Where a theorem excludes kinds of disturbance, the argument below says
which behaviour of the code makes it do so.

| module | theorem | states |
|---|---|---|
| `OutboxDeliveryProofs` | `Invariance` | `Spec => [](TypeInv /\ RowsInv)` |
| | `SessionsAreSplit` | `Spec => []SessionsSplit` |
| | `SendsAtMostOnce` | `Spec => []AtMostOneSend` |
| | `TransportsExclude` | `Spec => []OneTransportPerPartition` |
| | `OrderOfSends` | `Spec => SendsInOrder` |
| | `RowsKeepOrder` | `Spec => KeepsOrder`, the refinement of `OrderedOutbox` |
| | `PausedPartitionsAreProbed` | `Spec => []PausedIsProbed` |
| | `DeliveryIsWatched` | without `stop`, `crash` and `recovery` among `Disturbances`: `Spec => []DeliveryWatched` |
| | `LeasesAreRecoverable` | without `persist` and `recovery`: `Spec => []LeaseIsRecoverable` |
| | `HooksRunOnce` | without `stall`: `Spec => []EffectOnce` |
| `SessionActorProofs` | `ActorInvariance` | `Spec => []ActorInv` |
| | `BooksAgree` | `Spec => []SlotsAndQueues` |
| | `NobodyIsForgotten` | `Spec => []NobodyForgotten` |
| | `ActorServesInOrder` | `Spec => ServesInOrder`, the refinement of `KeyedQueues` |
| `TurnQueueProofs` | `QueueInvariance` | `Spec => []QueueInv` |
| | `TurnsRunInOrder` | `Spec => []TurnsInOrder` |
| | `ChangesAreTold` | `Spec => []ChangeIsTold` |
| | `TurnsAreWoken` | `Spec => []NoSleepingTurn` |
| | `RowsAreKept` | `Spec => RowsStand` |
| `AccountDaemonProofs` | `OneDaemonInCharge` | `Spec => []OneOwner` |
| | `RequestsAreHandledOnce` | `Spec => RequestsHandledOnce` |
| `ToolJobProofs` | `ToolInvariance` | `Spec => []Inv` |
| | `ProcessesAreAlone` | `Spec => []ProcessesExclude` |
| | `FilesFollowOutcome` | `Spec => []FilesMatchOutcome` |
| | `CompletionStands` | `Spec => CompletedOnce` |
| `ScheduledTaskProofs` | `SchedulerInvariance` | `Spec => []Inv` |
| | `OccurrencesStayOpen` | `Spec => []OccurrencesOpen` |
| | `DeliveredOnce` | `Spec => []DeliveredAsOne` |
| | `TimersInTime` | `Spec => []SleepsInTime` |
| | `OutcomesStand` | `Spec => OutcomeStands` |
| `RuntimeProofs` | `RuntimeInvariance` | `ManagerSpec => []ManagerInv` |
| | `RuntimesAreAccounted` | `ManagerSpec => []RuntimesAccounted` |
| | `OrchestratorsAreLed` | `ManagerSpec => []OrchestratorsFollow` |
| | `ClosedStays` | `ManagerSpec => []ClosedForGood` |
| | `IntakeInvariant` | `Spec => []IntakeInv`, `Spec` that of the intake |
| | `AlwaysRecordsFit` | `Spec => []RecordsFit` |
| | `AlwaysAnsweredOnce` | `Spec => []AnsweredOnce` |
| | `AlwaysHandoffCarriesAll` | `Spec => []HandoffCarriesAll` |
| `DreamRunProofs` | `DreamInvariance` | `Spec => []Inv` |
| | `RowTellsTheTruth` | `Spec => []RowIsTrue` |
| | `DocumentIsAccounted` | `Spec => []DocumentAccounted` |
| | `EditsAreKept` | `Spec => LongTermKept` |
| | `NoTaskWritesLate` | `Spec => NoLateWrite` |

### Outbox (`StoreAssumption`, `DeliveryAssumption`)

The argument has two layers. The first knows only the store: `StoreStep` is the
disjunction of the store's operations under the guards their callers establish, and
`RowsInv` is inductive under it. Its parts: rows are filled up to `size` (`Filled`);
a session's rows carry increasing sequence numbers up to `next` (`Sequenced`), and the
cursor stays below (`CursorBounded`); a row that left `pending` without being closed is
its session's head (`OpenAtHead`); the cursor splits the session
(`CursorSplitsSession`); once a row of a partition left `pending`, no earlier one of the
partition is still pending or in transport (`LaneOrder`); `sends` counts exactly the
rows whose transport started (`SendsCounted`). `AtMostOneSend` alone is not inductive:
it takes `SendsCounted` (a row with a send has its mark) and the fact that no operation
takes a marked row back to `pending`. Exclusion alone is not inductive either: a claim
looks at earlier rows only, so it takes `LaneOrder` to know that no later row is in
transport.

The second shows, action by action, that every step of the coordinator, its
tasks, the operator and the environment is a `StoreStep` or leaves rows alone, and keeps
memory and tasks typed. Its own invariant says little (types, and that a live task has a
row): the store's checks, not the coordinator's bookkeeping, are what protects the
rows. Zombies, failed writes and restarts therefore need no case of their own.
The same module shows the order of sends and the refinement, mapping a row to
waiting, out, closed or doubtful by its state, its transport mark and its uncertain
step.

Timers, leases and hooks do depend on the coordinator. `Base` adds to the above that a
live task belongs to a coordinator that was, that a task the actor gave up is aborted and
has used its one final write (`Booked`), and that a row which waits or is closed is leased
to nobody (`Unleased`). With it every step has one of five forms (`StepForm`): a task goes
on, writing at most to its own row and only while it is attended (`Continues`); a task
ends (`EndsTask`); a row is taken up (`TakesUp`); the environment stirs (`Stirs`); a
coordinator comes or goes (`Turns`). Each of the four results is an invariant over these
forms:

- `PausedIsProbed` needs that a paused partition's account is away (`PausesHold`) and that
  the end of a task in a paused partition arms the probe (`LanesAfter`); it holds with
  every disturbance.
- `NoLostWakeup` needs that a row which is not due has its timer (`Timed`), and that every
  row that waits for nothing else has a scan or a timer (`Woken`). `stop`, `crash` and
  `recovery` are excluded because a timer lives in memory only and a failed recovery
  scans nothing (observations 2 and 4).
- `LeaseIsRecoverable` needs that a row on its way to the transport belongs to its one
  attended task (`Owned`), and hence that an expiry timer stands for a row past the
  transport (`ExpiriesPast`). `persist` and `recovery` are excluded by observations 1
  and 2; stalls, time-outs, stops and crashes are not.
- `EffectOnce` needs that an attended task alone holds its row, under a lease that has
  not lapsed, and knows every completed step (`LeasesHeld`), and that a hook which ran is
  recorded on its row, as complete or in doubt (`HooksCounted`). The second is what the
  mark before the hook is for; the first makes "not known complete" mean "not complete".
  `stall` is excluded by observation 3, and nothing else is: refused writes, failed
  recoveries, stops, crashes and time-outs may all happen.

### Actor (`ActorAssumption`)

`SlotsAndQueues` and `NobodyForgotten` are inductive together with two facts about the
moments inside a call: a task whose promise settled and whose continuation has yet to run
still counts as active (`SettledAtWork`), and a waiter whose condition holds is followed
by a step that wakes it (`WaitersFollowed`). The ready list is handled by lemmas about
lists without repetitions. The refinement of `KeyedQueues` uses the invariant for one
thing: the session the loop takes from the ready list has no active task and its task is
the head of its queue.

### Turns (`TurnAssumption`, `QueueAssumption`)

Two layers again. The first shows that each transaction of the store, under the
condition its caller has checked, keeps `StoreInv`: sequence numbers (`Sequenced`), the
cursor (`CursorSplits`), the two tables (`TablesAgree`: an event runs exactly when its
latest attempt does, at the head), and `HeldIsCurrent`: a row that is or was held belongs
to the attempt under way, or its event is over. The last is what an interrupt would
break, so `InterruptKeeps` asks that the event has no such row; and it is what a recovery
restores by closing the event of such a row instead of retrying it.

The second adds what the coordinator knows: while one is up, every running turn is
its own (`TurnsOfTheLiving`), a handler past staging has its held row (`StagedHasRow`),
the held rows of an event are of one attempt and that attempt is past its emission
(`HeldByOne`), and commits are counted by it (`CommitsCounted`). `MutationOnce` follows
from these and not from the claim's flags: `Commit` does not look at the claim again, so
a timed-out or aborted handler may still commit. What excludes a second commit is that a
second attempt would have to begin while a held row exists, which `HeldIsCurrent` and the
recovery rule out. `NoSleepingTurn` needs `TurnsOfTheLiving`: a result that is written
without a scan to follow is one of another coordinator, and then no turn of the present
one was touched.

### Reply intake (`TurnAssumption`, `IntakeAssumption`)

`IntakeInv` has three layers. `Base` holds whatever happens. Its books (`Books`) say that a
session has one event of a key (`OneOfKey`) and a sender one open window (`OneWindow`), that
a payload names messages of its window only, each at one sequence and its own key first
(`BodyFit`), and that a reply event stands for one message or has the window it was handed
off from, with the same messages (`ReplyFit`). `JobsFit` is what makes the
hand-off safe: a handler holds the event as it was claimed, and as long as the deadline
has not moved the payload has not either, so the guard on the deadline, which is all the
hand-off looks at, is enough. `RecordsOnce` gives `RecordedOnce` for both stores.
`AnsweredOnce` with no debounce follows from `OneOfKey` and `ReplyFit`.

In calm instances `RecordsReach` adds how far payloads and records agree. A snapshot of an
open window is on the record at its sequence, or it is the one next to be recorded, at most
one of a conversation, and then nobody stands at the gate (`SnapshotsFit`): a crash between
the two stores leaves such a snapshot and empties the gate, and whoever arrives next
records it first. That is why `SnapshotsRecoverable`, which speaks of the present payloads
only, is not inductive: it takes the gate to know that no other message will be recorded
before. `WindowReach` says the same of messages a payload has dropped, which a bump does
only after it recovered the payload; it is carried through the claim (`JobRecorded`) and
the hand-off (`ReplyRecorded`) to `HandoffCarriesAll`.

With a debounce, `AnsweredOnce` further needs that a message is in one window only. `Alone`
says so of windows that may be answered (`OneLives`), and of a message at the gate that it
is in no record and in no such window (`NewAtGate`). A window is void when it is over
without a hand-off, as after a closed gate; its messages may come again. That a message
the record has is not taken in again is what connects the two: `WindowReach` puts every
message of a living window on the record, or among those that `Arrive` recovers before it
looks there.

Every step is, for the queue, quiet, adds an event or lets an open window take a message
(`QuietStep`, `GrowStep`, `BumpStep`), and records only grow (`Grown`) except over a crash,
which in calm instances finds both the same (`Written`). The books have a lemma for each
form, and each layer one for each action.

### Account daemon (`DaemonAssumption`)

`OneOwner` is not inductive: it says nothing of the files that processes hold aside or
have read. `Inv` adds, for each process, what its place in the code entitles it to.
A file held aside is never the one at the path (`HeldOK`), so removing its links leaves
the file at the path whole; this needs that a file put back is a new one, with a number
higher than any known of its daemon (`FileOK`, lemma `Fresh`). What a process has read
was written by a daemon that has got as far as to publish (`SeenOK`), and being over is
final for it (`MovesKeep`). Who is about to take a file has judged its daemon to be over,
or takes its own on its way out (`TakesOK`), so a file whose identity was compared and
that is then removed is not one of a daemon in charge. The remaining removal, after a
file was put back, happens only while the copy is at the path. All other steps leave the
files alone and concern one process (`Quiet`). The claims on a daemon in charge are then
those of `ChargeOK`: it is named, or somebody holds its file.

`RequestsHandledOnce` needs an invariant of the requests beside it (`Handled`). A request
is claimed once and then never lies in `requests/` again, so at most one daemon has it in
hand, the one that claimed it, and how often it was carried out is told by how far that
daemon has got (`HasOK`); an answer "done" is written only after that (`RequestOK`). Most
steps take up no request (`NoneTaken`, lemma `StepRests`); the rest have a lemma each.
That a claim is closed for cause (`ClosesForCause`) combines the two invariants: who closes
a claim and who works on it are both in charge (`AimOK`), the path names one of them at
most, so by `ChargeOK` the file of the other is held aside.

### Tool jobs (`ToolAssumption`)

A step of a handler concerns its own task, and of the rest only the row it owns and the
process that row records. `Orderly` says what such a step has to leave in order, and lemma
`OrderlyKeeps` that this is enough for `Inv`; one lemma per action shows its step orderly,
and the scan, the start, the stop and the crash, which touch all tasks, keep `Inv` by
themselves.

`OneProcessPerJob` is not inductive, since nothing in it keeps a launch from meeting a
process of an earlier life. `RowInv` adds that a process at work is the one its row
records, until the job is over, and `TaskInv` that a handler which may still use its claim
owns the row and knows the process that was recorded when it was claimed: so a launch,
which needs a row without a process to clean up, finds none at work. That a recovery keeps
the recorded process is what makes this inductive. `TaskInv` also says where a handler may
have files, `KeptFiles` that a success has files which no handler will take back
(`SuccessHasFiles` alone would allow the files to be those of a handler about to roll
back). `LocalAlone` takes `SlotsExclude`, that handlers of one coordinator in slots have
different keys, and `Supervised`: without crashes, stops and timeouts there is one
coordinator, and every process at work has a handler in its slot.
`CompletedOnce` follows since every write to a row but a claim and a recovery needs the
ownership of a running row, and those two pass over rows that are over.

### Scheduled tasks (`SchedulerAssumption`)

A step of a drain changes only the row of the run it holds, and that only while it owns
it; a drain that lost its lease still acts, queueing events and writing its end. `Inv`
therefore says three kinds of things. Of rows (`RowOK`): a run exists only for a time that
has come, which is what makes every later time of a task open (`TaskOK`, and lemma
`CronLater`: the next multiple of the period lies past now); a row offered for delivery
has a text and a try left; a completed one has all its events. Of holders (`HolderOK`):
whoever delivers holds a run with a text, whoever writes the log has queued every event,
and both stay so when another scheduler takes the run over, since a text once written is
not written again: only the owner of a row in `running` writes it, and a replay keeps it.
Of events (`EventOK`): they carry the text of their run. `CompletedIsQueued` and `OneText`
follow, though the completion looks neither at events nor at texts.

`SleepsInTime` is not inductive: nothing in it keeps something to wait for from appearing
beside a scheduler that sleeps without a timer. `TimerOK` says that such a scheduler has
nothing to wait for at all, neither due tasks, runs nor archived definitions; then no
other drain has a row it could change, and edits wake the scheduler themselves
(`NothingComes`). `LifeOK` says that the current scheduler is the only one started, so
those that run on after a stop never get a timer back.
`OutcomeStands` follows since all writes but a replay need the ownership or the claim of
a row that is not over.

### Agent runtimes (`AgentsAssumption`)

None of the properties is inductive; `ManagerInv` says what each holder of a runtime knows.
`StepOK`: what the first operation of a lane has read (the runtime in the map, the
readiness) is still so when it goes on, since only that lane and the end of `close`, which
waits for all lanes, write an agent's entries; and a start that is making a runtime found
none. `RowOK`: an open runtime is the one its agent's entry names or the one being
initialised; any other runs nothing, and is closed or still bears no generation, so it
cannot pass for one that was resumed. What a start leaves of a runtime it does not take
into use, whichever of `initialize`, `resume` and `close` threw, is one lemma
(`LeftKeeps`). No runtime bears a generation to come, so a new
connection finds nobody resumed for it; one that bears the present generation runs.
`ReadyOK`: when the resume of the connection is over, every agent that is offered has been
resumed for it, by the resume or by its own start. An operation changes only what belongs
to its agent (`LaneStep`, `LaneKeeps`); the gateway and the beginning of `close` change no
life and no entry (`Outside`, `OutsideKeeps`); all suspensions are one lemma
(`SuspendAllKeeps`).

### Dream and working memory (`WritersAssumption`, `DreamAssumption`)

`Structure` says where everybody stands. At most one task is not cancelled (`TaskOK`), and
the row is where its program counter says, since only it holds the lease and whoever takes
the row over launches a new task; so a cancelled task finds `Owns` false or has no write
left, and `NoLateWrite` and `LongTermKept` follow step by step (`OutcomeStep`,
`CancelledStep`, `LongTermStep`). A writer that is moving turns the task's input into its
compression, or back (`SwapOK`).

For the document, every step has one of a few forms (`MemoryForm`, lemma `Forms`): it is
still, a task begins a replacement, undoes it or leaves it, one writer opens, checks,
renames or reads back, a note reconsiders, or all ends in a crash. Over these forms two
more invariants hold.

`NotesCarried`: for a note that has not raced, whatever was read, by the row, a task or a
writer, stands for the note only if the document still does (`Behind`), and what a writer
is about to put in place stands for it whenever the document does (`Sound`). The loss of
an acknowledged note then takes a rename by someone who looked before the note's own
rename, that is, a race of the note.

`CompressionsHeld`: while nobody has raced and nothing is torn, every compression in the
document is recorded or held by the Dream that put it there (`Answered`). This is not
inductive by itself, since a rollback brings back what the Dream had replaced, perhaps the
compression of another one that has been cancelled and not yet undone. `AnsweredBehind`
therefore says the same of the input of each Dream that holds one, with a third
possibility: the compression equals its own while the document is another one. That this
possibility is gone when the rollback finds its own compression and renames is what closes
the argument, together with `Replacing` (a Dream that replaces does not find its own
compression as its input) and with the monotony of the covered notes.

### Model-checked only

The liveness properties, `EveryWindowAnswered` and `DreamSettles` among them, since
fairness is out of the prover's reach.

## 6. Not modelled

Components, each listed in `PROJECT.json` with its reason: the outbox schema migration,
the agent registry, reply generation, group orchestration and the storm detector, extensions and the MCP
host, model adapters, media, voice, emoji, knowledge and web fetch, the webfetch
renderer, web chat, the HTTP API, the admin console and configuration, the tools of the
model, contracts and platform code, build, migrations and deployment. Some of these have
protocols worth a model (section 2); the bulk of them is user interface, transport and
formatting, data migration and tooling, of which a model would say what one assignment
says. The modules above cover the code that keeps durable state and orders concurrent
work, which is a small share of the repository's lines.

Inside the modelled part:

- message content, pacing, error texts, fingerprints of held rows (a replay of a held row
  keeps its hold state; its lineage check is left out), receipts, and the persistence
  degradation report;
- the outbox clock, which is abstracted to due and lapsed, so no property speaks of
  durations;
- in `ReplyIntake`, a window of conversations older than the retention limit, the
  wait for attachments to be prepared, and a recovery whose own strict save fails;
- in `TurnQueue`, the configuration change that is committed without a confirmation;
- in `ScheduledTasks`, retention (`permanent_retention`) and tasks of a disabled director;
- in `DreamRun`, more than one local date, and a lease that lapses otherwise than by a
  suspension of the process;
- in `AccountDaemon`, the launcher's other commands (`down` with its quarantine of an
  invalid owner, the supervision of the core, what `reconcile-account` does), the runtime
  probe, the first-run journal, files that change while they are read, and process and
  inode numbers that are used again;
- in `AgentRuntimes`, the routing of messages, the registry's files, and `decorateAgents`,
  which only reads.
