-------------------------------- MODULE ToolJobs --------------------------------
(***************************************************************************)
(* Deferred tool jobs: the durable job rows (sessionToolJobStore.ts), the  *)
(* processor that runs them (sessionToolJobProcessor.ts), the actor that   *)
(* serialises local codex jobs (sessionCoordinator.ts), the detached codex *)
(* processes (adapters/codex/codexTool.ts, codexProcess.ts) and the files  *)
(* an attempt publishes (src/runtime/codexArtifacts.ts).                   *)
(*                                                                         *)
(* A task is named by its job and attempt; the attempt number stands for   *)
(* the attempt token, which every claim draws anew.  Jobs in Plain are     *)
(* tools without a process.                                                *)
(***************************************************************************)
EXTENDS Integers, FiniteSets

CONSTANTS
  Jobs,
  Plain,            \* jobs of other tools than codex
  Local,            \* codex jobs of kind "local"
  Cap,              \* concurrency of the tool actor
  MaxAttempts,      \* bound on the attempts of a job
  MaxWorkers,       \* bound on the coordinators ever started
  Bounds            \* how far behaviours may go, one of these records each

\* A small instance: the jobs dispatched, the attempts and coordinators it may take, which
\* disturbances may happen and how many.
Bound ==
  [jobs : SUBSET Jobs, attempts : 1..MaxAttempts, workers : 1..MaxWorkers,
   kinds : SUBSET STRING, faults : Nat]

ASSUME ToolAssumption ==
  /\ Plain \subseteq Jobs /\ Local \subseteq Jobs \ Plain
  /\ Cap \in Nat \ {0} /\ MaxAttempts \in Nat \ {0} /\ MaxWorkers \in Nat
  /\ Bounds \subseteq Bound

Attempts == 1..MaxAttempts
NoWorker == 0
NoAttempt == 0
Terminal == {"succeeded", "failed", "timed_out", "unknown"}

VARIABLES
  rows,       \* job -> its row
  announced,  \* job -> tool_completion events inserted
  procs,      \* job -> attempt -> its codex process
  files,      \* job -> attempt -> its artifacts in the workbench are there
  tasks,      \* job -> attempt -> task in the actor
  worker, up, scan,
  bound,      \* how far this behaviour goes
  budget      \* disturbances left

store == <<rows, announced>>
host == <<worker, up>>
vars == <<store, procs, files, tasks, host, scan, bound, budget>>

Row ==
  [status   : {"absent", "queued", "running"} \cup Terminal,
   attempts : 0..MaxAttempts,
   worker   : 0..MaxWorkers,
   process  : {NoAttempt} \cup Attempts]   \* the attempt whose process is recorded

Task ==
  [pc      : {"none", "queued", "run", "launched", "exited", "staged", "over"},
   worker  : 0..MaxWorkers,
   orphan  : {NoAttempt} \cup Attempts,    \* the process recorded when it was claimed
   ok      : BOOLEAN,                      \* the runner's result
   aborted : BOOLEAN, late : BOOLEAN, final : BOOLEAN]

NoTask ==
  [pc |-> "none", worker |-> NoWorker, orphan |-> NoAttempt, ok |-> FALSE,
   aborted |-> FALSE, late |-> FALSE, final |-> FALSE]

ToolTypeOK ==
  /\ rows \in [Jobs -> Row]
  /\ announced \in [Jobs -> Nat]
  /\ procs \in [Jobs -> [Attempts -> {"none", "working", "gone"}]]
  /\ files \in [Jobs -> [Attempts -> BOOLEAN]]
  /\ tasks \in [Jobs -> [Attempts -> Task]]
  /\ worker \in 0..MaxWorkers /\ up \in BOOLEAN /\ scan \in BOOLEAN
  /\ bound \in Bounds /\ budget \in 0..bound.faults
  /\ \A j \in Jobs : rows[j].process <= rows[j].attempts

\* every job of the instance has been dispatched (insertToolJob)
Init ==
  /\ bound \in Bounds /\ budget = bound.faults
  /\ rows = [j \in Jobs |->
               [status |-> IF j \in bound.jobs THEN "queued" ELSE "absent",
                attempts |-> 0, worker |-> NoWorker, process |-> NoAttempt]]
  /\ announced = [j \in Jobs |-> 0]
  /\ procs = [j \in Jobs |-> [a \in Attempts |-> "none"]]
  /\ files = [j \in Jobs |-> [a \in Attempts |-> FALSE]]
  /\ tasks = [j \in Jobs |-> [a \in Attempts |-> NoTask]]
  /\ worker = NoWorker /\ up = FALSE /\ scan = FALSE

Disturb(kind) ==
  /\ kind \in bound.kinds /\ budget > 0
  /\ budget' = budget - 1 /\ UNCHANGED bound

--------------------------------------------------------------------------------
(* The job rows *)

\* claimNextToolJob until it returns null
ClaimedRow(r) ==
  IF r.status = "queued" /\ r.attempts < bound.attempts
    THEN [r EXCEPT !.status = "running", !.attempts = @ + 1, !.worker = worker] ELSE r

\* assertWorker and assertToolAttempt
Owns(j, a) ==
  rows[j].status = "running" /\ rows[j].worker = tasks[j][a].worker /\ rows[j].attempts = a

Announced(j) == announced[j] > 0

CanComplete(j, a) == Announced(j) \/ Owns(j, a)

\* completeToolJob: the first completion stands
CompleteToolJob(j, status) ==
  IF Announced(j) THEN UNCHANGED store
  ELSE /\ rows' = [rows EXCEPT ![j] = [@ EXCEPT !.status = status, !.worker = NoWorker, !.process = NoAttempt]]
       /\ announced' = [announced EXCEPT ![j] = @ + 1]

\* mutant: a recovered job forgets its process
ForgetProcess(r) ==
  IF r.status = "running" THEN [r EXCEPT !.status = "queued", !.worker = NoWorker, !.process = NoAttempt]
  ELSE r

\* mutant: leases are left to lapse
UnrecoveredRow(r) == r

\* mutant: every job is requeued
RequeuedRow(r) == [r EXCEPT !.status = "queued", !.worker = NoWorker]

\* recoverToolJobLeases
RecoveredRow(r) ==
  IF r.status = "running" THEN [r EXCEPT !.status = "queued", !.worker = NoWorker] ELSE r

--------------------------------------------------------------------------------
(* Scheduling *)

Mine(j, a) == up /\ tasks[j][a].worker = worker
InHandler(j, a) == tasks[j][a].pc \notin {"none", "queued", "over"}
HoldsSlot(j, a) == InHandler(j, a) /\ ~tasks[j][a].late

\* assertClaimUsable
Usable(j, a) == Mine(j, a) /\ ~tasks[j][a].final /\ ~tasks[j][a].aborted /\ ~tasks[j][a].late

\* toolActorKey
SameKey(j, k) == j = k \/ {j, k} \subseteq Local

\* scheduleTools
Scan ==
  /\ up /\ scan
  /\ rows' = [j \in Jobs |-> ClaimedRow(rows[j])]
  /\ tasks' = [j \in Jobs |-> [a \in Attempts |->
                 IF rows'[j] # rows[j] /\ a = rows'[j].attempts
                   THEN [NoTask EXCEPT !.pc = "queued", !.worker = worker, !.orphan = rows[j].process]
                   ELSE tasks[j][a]]]
  /\ scan' = FALSE
  /\ UNCHANGED <<announced, procs, files, host, bound, budget>>

Begin(j, a) ==
  /\ tasks[j][a].pc = "queued"
  /\ LET others == {t \in Jobs \X Attempts :
                      HoldsSlot(t[1], t[2]) /\ tasks[t[1]][t[2]].worker = tasks[j][a].worker}
     IN /\ \A t \in others : ~SameKey(j, t[1])
        /\ Cardinality(others) < Cap
  /\ tasks' = [tasks EXCEPT ![j][a].pc = "run"]
  /\ UNCHANGED <<store, procs, files, host, scan, bound, budget>>

\* the actor's promise settles: stop renewing, scan again
End(j, a) ==
  /\ tasks' = [tasks EXCEPT ![j][a].pc = "over", ![j][a].final = TRUE]
  /\ scan' = (scan \/ Mine(j, a))
  /\ UNCHANGED host

--------------------------------------------------------------------------------
(* SessionToolJobProcessor.process *)

\* a tool without a process returns its outcome
RunPlain(j, a, status) ==
  /\ j \in Plain /\ tasks[j][a].pc = "run"
  /\ Usable(j, a) /\ CanComplete(j, a)
  /\ CompleteToolJob(j, status)
  /\ End(j, a)
  /\ UNCHANGED <<procs, files, bound, budget>>

Orphaned(j, a) == tasks[j][a].orphan # NoAttempt

\* cleanupPersistedCodexProcess found the process and killed it, or found none;
\* clearRecoveredToolJobProcess
CleanUp(j, a) ==
  LET o == tasks[j][a].orphan
  IN /\ tasks[j][a].pc = "run" /\ Orphaned(j, a)
     /\ Usable(j, a) /\ Owns(j, a) /\ rows[j].process = o
     /\ procs' = [procs EXCEPT ![j][o] = "gone"]
     /\ rows' = [rows EXCEPT ![j].process = NoAttempt]
     /\ tasks' = [tasks EXCEPT ![j][a].orphan = NoAttempt]
     /\ UNCHANGED <<announced, files, host, scan, bound, budget>>

\* it cannot be identified, or outlives SIGKILL
CleanUpUnverified(j, a) ==
  /\ tasks[j][a].pc = "run" /\ Orphaned(j, a)
  /\ Disturb("unverified")
  /\ Usable(j, a) /\ CanComplete(j, a)
  /\ CompleteToolJob(j, "unknown")
  /\ End(j, a)
  /\ UNCHANGED <<procs, files>>

Aborted(j, a) == tasks[j][a].aborted \/ tasks[j][a].late

\* spawn, recordToolJobProcess and the prompt in one synchronous piece; a process
\* that cannot be recorded is killed before it is told anything
Launch(j, a) ==
  /\ j \notin Plain /\ tasks[j][a].pc = "run" /\ ~Orphaned(j, a)
  /\ IF ~Aborted(j, a) /\ Owns(j, a)
       THEN /\ procs' = [procs EXCEPT ![j][a] = "working"]
            /\ rows' = [rows EXCEPT ![j].process = a]
            /\ tasks' = [tasks EXCEPT ![j][a].pc = "launched"]
       ELSE /\ tasks' = [tasks EXCEPT ![j][a].pc = "exited"]
            /\ UNCHANGED <<procs, rows>>
  /\ UNCHANGED <<announced, files, host, scan, bound, budget>>

\* the process ends, by itself or by the signals of an aborted run
Exit(j, a, ok) ==
  /\ procs[j][a] = "working"
  /\ ok => ~Aborted(j, a)
  /\ procs' = [procs EXCEPT ![j][a] = "gone"]
  /\ tasks' = IF tasks[j][a].pc # "launched" THEN tasks
              ELSE [tasks EXCEPT ![j][a].pc = "exited", ![j][a].ok = ok]
  /\ UNCHANGED <<store, files, host, scan, bound, budget>>

\* stageCodexResultArtifacts
Stage(j, a) ==
  /\ tasks[j][a].pc = "exited" /\ tasks[j][a].ok
  /\ ~Aborted(j, a)
  /\ files' = [files EXCEPT ![j][a] = TRUE]
  /\ tasks' = [tasks EXCEPT ![j][a].pc = "staged"]
  /\ UNCHANGED <<store, procs, host, scan, bound, budget>>

\* the result is stored and the files are kept
Settle(j, a) ==
  LET ok == tasks[j][a].ok
  IN /\ tasks[j][a].pc = IF ok THEN "staged" ELSE "exited"
     /\ Usable(j, a) /\ CanComplete(j, a)
     /\ CompleteToolJob(j, IF ok THEN "succeeded" ELSE "failed")
     /\ End(j, a)
     /\ UNCHANGED <<procs, files, bound, budget>>

FailureStatus(j, a) == IF Aborted(j, a) THEN "timed_out" ELSE "failed"

\* mutant: the attempts of a job share their files
RollBackJob(j, a) == files' = [files EXCEPT ![j] = [b \in Attempts |-> FALSE]]

RollBack(j, a) == files' = [files EXCEPT ![j][a] = FALSE]

Failing(j, a) ==
  \/ tasks[j][a].pc \in {"run", "exited"}
  \/ tasks[j][a].pc = "staged" /\ ~(Usable(j, a) /\ CanComplete(j, a))

\* the catch block, and fail() when its own completion is refused
FailJob(j, a, status) ==
  IF Mine(j, a) /\ ~tasks[j][a].final /\ CanComplete(j, a)
    THEN CompleteToolJob(j, status) ELSE UNCHANGED store

HandlerFails(j, a) ==
  /\ Failing(j, a)
  /\ RollBack(j, a)
  /\ FailJob(j, a, FailureStatus(j, a))
  /\ End(j, a)
  /\ UNCHANGED <<procs, bound, budget>>

\* the rollback fails too: the files stay and the job says failed
RollbackFails(j, a) ==
  /\ Failing(j, a) /\ tasks[j][a].pc = "staged"
  /\ Disturb("rollback")
  /\ FailJob(j, a, "failed")
  /\ End(j, a)
  /\ UNCHANGED <<procs, files>>

\* the store refuses every completion; the row stays running until a recovery
HandlerUnwritten(j, a) ==
  /\ tasks[j][a].pc \in {"run", "exited", "staged"}
  /\ Disturb("persist")
  /\ RollBack(j, a)
  /\ End(j, a)
  /\ UNCHANGED <<store, procs>>

\* SessionToolJobProcessor.fail after the actor's timeout
ActorTimesOut(j, a) ==
  /\ HoldsSlot(j, a)
  /\ Disturb("timeout")
  /\ FailJob(j, a, "timed_out")
  /\ tasks' = [tasks EXCEPT ![j][a].late = TRUE, ![j][a].final = @ \/ Mine(j, a)]
  /\ scan' = (scan \/ Mine(j, a))
  /\ UNCHANGED <<procs, files, host>>

RenewFails(j, a) ==
  /\ tasks[j][a].pc \notin {"none", "over"} /\ ~tasks[j][a].aborted /\ Mine(j, a)
  /\ Disturb("renew")
  /\ tasks' = [tasks EXCEPT ![j][a].aborted = TRUE]
  /\ UNCHANGED <<store, procs, files, host, scan>>

--------------------------------------------------------------------------------
(* The process of the bot *)

Start ==
  /\ ~up /\ worker < bound.workers
  /\ worker' = worker + 1 /\ up' = TRUE /\ scan' = TRUE
  /\ rows' = [j \in Jobs |-> RecoveredRow(rows[j])]
  /\ UNCHANGED <<announced, procs, files, tasks, bound, budget>>

Stop ==
  /\ up
  /\ Disturb("stop")
  /\ up' = FALSE /\ scan' = FALSE
  /\ tasks' = [j \in Jobs |-> [a \in Attempts |->
                 IF tasks[j][a].worker = worker THEN [tasks[j][a] EXCEPT !.aborted = TRUE]
                                                ELSE tasks[j][a]]]
  /\ UNCHANGED <<store, procs, files, worker>>

\* codex runs detached and survives
Crash ==
  /\ Disturb("crash")
  /\ up' = FALSE /\ scan' = FALSE
  /\ tasks' = [j \in Jobs |-> [a \in Attempts |-> NoTask]]
  /\ UNCHANGED <<store, procs, files, worker>>

Next ==
  \/ Scan \/ Start \/ Stop \/ Crash
  \/ \E j \in Jobs, a \in Attempts :
       \/ Begin(j, a)
       \/ \E status \in {"succeeded", "failed"} : RunPlain(j, a, status)
       \/ CleanUp(j, a) \/ CleanUpUnverified(j, a) \/ Launch(j, a)
       \/ \E ok \in BOOLEAN : Exit(j, a, ok)
       \/ Stage(j, a) \/ Settle(j, a)
       \/ HandlerFails(j, a) \/ RollbackFails(j, a) \/ HandlerUnwritten(j, a)
       \/ ActorTimesOut(j, a) \/ RenewFails(j, a)

Spec == Init /\ [][Next]_vars

\* a supervised codex process ends by its deadline at the latest; a handler goes on and,
\* once it can do nothing else, fails
Advance(j, a) ==
  \/ Begin(j, a) \/ CleanUp(j, a) \/ Launch(j, a)
  \/ tasks[j][a].pc = "launched" /\ \E ok \in BOOLEAN : Exit(j, a, ok)
  \/ Stage(j, a) \/ Settle(j, a)
  \/ \E status \in {"succeeded", "failed"} : RunPlain(j, a, status)
  \/ ~Usable(j, a) /\ HandlerFails(j, a)

FairSpec ==
  /\ Spec
  /\ WF_vars(Scan) /\ WF_vars(Start)
  /\ WF_vars(\E j \in Jobs, a \in Attempts : Advance(j, a))

--------------------------------------------------------------------------------
(* Properties *)

\* A job never has two codex processes at work, though they outlive the bot that
\* started them (cleanupPersistedCodexProcess before codexRunner.run).
OneProcessPerJob ==
  \A j \in Jobs : Cardinality({a \in Attempts : procs[j][a] = "working"}) <= 1

\* Two local jobs never work in the workspace at the same time, while no process of an
\* earlier life is left and no handler is given up (toolActorKey).
LocalAlone ==
  bound.kinds \cap {"crash", "stop", "timeout"} = {} =>
    Cardinality({t \in Local \X Attempts : procs[t[1]][t[2]] = "working"}) <= 1

\* A job that succeeded still has the files its completion names.
SuccessHasFiles ==
  \A j \in Jobs \ Plain :
    rows[j].status = "succeeded" => \E a \in Attempts : files[j][a]

\* While the bot is not killed, an attempt whose handler is over leaves files only if
\* its job succeeded: a result that lost against a timeout, a stop or a failed write
\* takes its files back.
NoStrayFiles ==
  bound.kinds \cap {"crash", "rollback"} = {} => \A j \in Jobs, a \in Attempts :
    (files[j][a] /\ tasks[j][a].pc = "over") => rows[j].status = "succeeded"

\* A job's first completion is its only one: neither late results nor recoveries
\* announce it again or change what was announced.
CompletedOnce ==
  [][\A j \in Jobs : Announced(j) => announced'[j] = announced[j] /\ rows'[j] = rows[j]]_vars

\* Every job is completed, and its conversation told, in spite of crashes and timeouts, if
\* the store takes the writes (a completion stands, so it is enough that this is true again
\* and again).
EveryJobCompletes ==
  []<>(("persist" \notin bound.kinds /\ bound.faults < bound.attempts) =>
         \A j \in bound.jobs : Announced(j))

\* Codex processes exclude each other, those of one job always, those of local jobs while
\* no slot is freed before its process is gone.
ProcessesExclude == ToolTypeOK /\ OneProcessPerJob /\ LocalAlone

\* The files in the workbench are those of the attempt whose success was announced: neither
\* a late rollback nor a lost result leaves them otherwise.
FilesMatchOutcome == SuccessHasFiles /\ NoStrayFiles

================================================================================
