------------------------------ MODULE ToolJobProofs ------------------------------
(* Proofs about ToolJobs for any number of jobs, attempts and coordinators. *)
EXTENDS ToolJobs, FiniteSetTheorems, TLAPS

Over(j) == rows[j].status \in Terminal
Working(j, a) == procs[j][a] = "working"
Active(j, a) == tasks[j][a].pc \notin {"none", "over"}

\* A row and its processes: the one at work is the one recorded, until the job is over.
RowInv(j) ==
  /\ Announced(j) <=> Over(j)
  /\ \A a \in Attempts : Working(j, a) => Over(j) \/ rows[j].process = a
  /\ \A a, b \in Attempts : Working(j, a) /\ Working(j, b) => a = b

\* A task and what it knows of its row.
TaskInv(j, a) ==
  /\ tasks[j][a].pc # "none" \/ files[j][a] => a <= rows[j].attempts
  /\ tasks[j][a].pc # "none" => tasks[j][a].worker \in 1..worker
  /\ Active(j, a) /\ Usable(j, a) => Owns(j, a)
  /\ tasks[j][a].pc \in {"queued", "run"} /\ Owns(j, a) =>
       tasks[j][a].orphan = rows[j].process
  /\ files[j][a] => tasks[j][a].pc \in {"staged", "over", "none"}
  /\ tasks[j][a].pc = "staged" => files[j][a]

\* The files of a success are those of an attempt that no handler takes back.
KeptFiles(j) ==
  j \notin Plain /\ rows[j].status = "succeeded" =>
    \E a \in Attempts : files[j][a] /\ tasks[j][a].pc \in {"none", "over"}

\* The slots of one coordinator are those of distinct keys.
SlotsExclude ==
  \A j, k \in Jobs : \A a, b \in Attempts :
    (/\ HoldsSlot(j, a) /\ HoldsSlot(k, b)
     /\ tasks[j][a].worker = tasks[k][b].worker /\ SameKey(j, k)) => j = k /\ a = b

\* Without crashes, stops and timeouts there is one coordinator, whose handlers supervise
\* every process.
Calm == bound.kinds \cap {"crash", "stop", "timeout"} = {}
OneLife ==
  /\ up => worker > 0
  /\ Calm => worker <= 1 /\ (worker = 1 => up)
Supervised(j, a) ==
  Calm => /\ ~tasks[j][a].late
          /\ Working(j, a) => tasks[j][a].pc = "launched"

Inv ==
  /\ ToolTypeOK
  /\ \A j \in Jobs : RowInv(j) /\ KeptFiles(j)
  /\ \A j \in Jobs, a \in Attempts : TaskInv(j, a) /\ Supervised(j, a)
  /\ SlotsExclude /\ OneLife /\ NoStrayFiles

--------------------------------------------------------------------------------
(* One task moves *)

Uncrashed == bound.kinds \cap {"crash", "rollback"} = {}

\* the task of j and a moves: what it may touch of the rest
Moves(j, a) ==
  /\ \A k \in Jobs \ {j} : /\ rows'[k] = rows[k] /\ announced'[k] = announced[k]
                           /\ procs'[k] = procs[k] /\ files'[k] = files[k]
                           /\ tasks'[k] = tasks[k]
  /\ \A b \in Attempts \ {a} : /\ tasks'[j][b] = tasks[j][b] /\ files'[j][b] = files[j][b]
                               /\ procs'[j][b] = "working" => procs[j][b] = "working"
  /\ rows'[j] # rows[j] => Owns(j, a) /\ rows'[j].attempts = a
  /\ Announced(j) => announced'[j] = announced[j]
  /\ Active(j, a) \/ (tasks'[j][a].pc = tasks[j][a].pc /\ files'[j][a] = files[j][a])
  /\ UNCHANGED <<host, bound>>

\* and what it must leave of its own
Orderly(j, a) ==
  /\ ToolTypeOK' /\ Moves(j, a)
  /\ RowInv(j)' /\ TaskInv(j, a)' /\ Supervised(j, a)' /\ SlotsExclude'
  /\ rows'[j] # rows[j] /\ rows'[j].status = "succeeded" /\ j \notin Plain =>
       files'[j][a] /\ tasks'[j][a].pc = "over"
  /\ Uncrashed /\ files'[j][a] /\ tasks'[j][a].pc = "over" => rows'[j].status = "succeeded"

\* A task without a slot, or with the one it had, takes none from another.
LEMMA SlotsKept ==
  ASSUME Inv, NEW j \in Jobs, NEW a \in Attempts, Moves(j, a),
         HoldsSlot(j, a)' => HoldsSlot(j, a) /\ tasks'[j][a].worker = tasks[j][a].worker
  PROVE  SlotsExclude'
<1> SUFFICES ASSUME NEW k \in Jobs, NEW m \in Jobs, NEW b \in Attempts, NEW c \in Attempts,
                    HoldsSlot(k, b)', HoldsSlot(m, c)',
                    tasks'[k][b].worker = tasks'[m][c].worker, SameKey(k, m)
             PROVE  k = m /\ b = c
  BY DEF SlotsExclude, SameKey
<1>1. ASSUME NEW x \in Jobs, NEW y \in Attempts, HoldsSlot(x, y)'
      PROVE  HoldsSlot(x, y) /\ tasks'[x][y].worker = tasks[x][y].worker
  <2>1. CASE x = j /\ y = a
    BY <1>1, <2>1
  <2>2. CASE ~(x = j /\ y = a)
    BY <1>1, <2>2 DEF Moves, HoldsSlot, InHandler
  <2> QED  BY <2>1, <2>2
<1>2. HoldsSlot(k, b) /\ HoldsSlot(m, c) /\ tasks[k][b].worker = tasks[m][c].worker
  BY <1>1
<1> QED  BY <1>2 DEF Inv, SlotsExclude

\* A task that moves and leaves its own in order leaves everything in order.
LEMMA OrderlyKeeps ==
  ASSUME Inv, NEW j \in Jobs, NEW a \in Attempts, Orderly(j, a)
  PROVE  Inv'
<1>0. Moves(j, a) /\ worker' = worker /\ up' = up /\ bound' = bound
  BY DEF Orderly, Moves, host
<1>1. ASSUME NEW k \in Jobs, k # j PROVE RowInv(k)' /\ KeptFiles(k)'
  BY <1>0, <1>1 DEF Inv, RowInv, KeptFiles, Moves, Announced, Over, Working
<1>2. ASSUME NEW k \in Jobs, NEW b \in Attempts, ~(k = j /\ b = a)
      PROVE  TaskInv(k, b)' /\ Supervised(k, b)'
  <2>0. TaskInv(k, b) /\ Supervised(k, b)
    BY DEF Inv
  <2>1. CASE k # j
    BY <1>0, <2>0, <2>1 DEF TaskInv, Supervised, Moves, Active, Usable, Mine, Owns, Working, Calm
  <2>2. CASE k = j /\ b # a
    <3>1. tasks'[k][b] = tasks[k][b] /\ files'[k][b] = files[k][b]
          /\ (Working(k, b)' => Working(k, b))
      BY <1>0, <2>2 DEF Moves, Working
    <3>2. CASE rows'[j] = rows[j]
      BY <1>0, <2>0, <2>2, <3>1, <3>2 DEF TaskInv, Supervised, Active, Usable, Mine, Owns, Calm
    <3>3. CASE rows'[j] # rows[j]
      <4>1. Owns(j, a) /\ rows'[j].attempts = a /\ rows[j].attempts = a
        BY <1>0, <3>3 DEF Moves, Owns
      <4>2. ~Owns(k, b) /\ ~Owns(k, b)'
        BY <2>2, <4>1 DEF Owns
      <4> QED  BY <1>0, <2>0, <2>2, <3>1, <4>1, <4>2 DEF TaskInv, Supervised, Active, Usable, Mine, Calm
    <3> QED  BY <3>2, <3>3
  <2> QED  BY <1>2, <2>1, <2>2
<1>3. KeptFiles(j)'
  <2> SUFFICES ASSUME j \notin Plain, rows'[j].status = "succeeded"
               PROVE  \E b \in Attempts : files'[j][b] /\ tasks'[j][b].pc \in {"none", "over"}
    BY DEF KeptFiles
  <2>1. CASE rows'[j] # rows[j]
    BY <2>1 DEF Orderly
  <2>2. CASE rows'[j] = rows[j]
    <3>1. PICK b \in Attempts : files[j][b] /\ tasks[j][b].pc \in {"none", "over"}
      BY <2>2 DEF Inv, KeptFiles
    <3>2. files'[j][b] /\ tasks'[j][b].pc \in {"none", "over"}
      BY <1>0, <3>1 DEF Moves, Active
    <3> QED  BY <3>2
  <2> QED  BY <2>1, <2>2
<1>4. NoStrayFiles'
  <2> SUFFICES ASSUME Uncrashed, NEW k \in Jobs, NEW b \in Attempts,
                      files'[k][b], tasks'[k][b].pc = "over"
               PROVE  rows'[k].status = "succeeded"
    BY <1>0 DEF NoStrayFiles, Uncrashed
  <2>1. CASE k = j /\ b = a
    BY <2>1 DEF Orderly
  <2>2. CASE ~(k = j /\ b = a)
    <3>1. rows[k].status = "succeeded"
      BY <1>0, <2>2 DEF Moves, Inv, NoStrayFiles, Uncrashed
    <3> QED  BY <1>0, <3>1 DEF Moves, Owns
  <2> QED  BY <2>1, <2>2
<1>5. OneLife'
  BY <1>0 DEF Inv, OneLife, Calm
<1> QED  BY <1>1, <1>2, <1>3, <1>4, <1>5 DEF Inv, Orderly

--------------------------------------------------------------------------------
(* Pieces of a step *)

\* One task is written.
LEMMA PutTask ==
  ASSUME tasks \in [Jobs -> [Attempts -> Task]], NEW j \in Jobs, NEW a \in Attempts,
         NEW t \in Task, tasks' = [tasks EXCEPT ![j][a] = t]
  PROVE  /\ tasks' \in [Jobs -> [Attempts -> Task]]
         /\ tasks'[j][a] = t
         /\ \A k \in Jobs \ {j} : tasks'[k] = tasks[k]
         /\ \A b \in Attempts \ {a} : tasks'[j][b] = tasks[j][b]
  OBVIOUS

\* the row j is closed by its owner
Closed(j, a, status) ==
  /\ Owns(j, a) /\ ~Announced(j)
  /\ rows' = [rows EXCEPT ![j] = [@ EXCEPT !.status = status, !.worker = NoWorker,
                                           !.process = NoAttempt]]
  /\ announced' = [announced EXCEPT ![j] = @ + 1]

\* A completion is the first one, by the owner, or none.
LEMMA CompletesOnce ==
  ASSUME NEW j \in Jobs, NEW a \in Attempts, NEW status,
         CanComplete(j, a), CompleteToolJob(j, status)
  PROVE  UNCHANGED store \/ Closed(j, a, status)
  BY DEF CanComplete, CompleteToolJob, Closed

\* So is the completion of a handler that failed.
LEMMA FailsOnce ==
  ASSUME NEW j \in Jobs, NEW a \in Attempts, NEW status, FailJob(j, a, status)
  PROVE  UNCHANGED store \/ (Mine(j, a) /\ Closed(j, a, status))
  BY CompletesOnce DEF FailJob

\* The row that is closed.
LEMMA ClosedRow ==
  ASSUME Inv, NEW j \in Jobs, NEW a \in Attempts, NEW status \in Terminal, Closed(j, a, status)
  PROVE  /\ rows' \in [Jobs -> Row] /\ announced' \in [Jobs -> Nat]
         /\ rows'[j].status = status /\ rows'[j].attempts = a /\ rows[j].attempts = a
         /\ rows'[j].process = NoAttempt /\ announced'[j] > 0
         /\ \A k \in Jobs \ {j} : rows'[k] = rows[k] /\ announced'[k] = announced[k]
<1>0. rows \in [Jobs -> Row] /\ announced \in [Jobs -> Nat] /\ rows[j].attempts = a
  BY DEF Inv, ToolTypeOK, Closed, Owns
<1>1. [rows[j] EXCEPT !.status = status, !.worker = NoWorker, !.process = NoAttempt] \in Row
  <2>1. NoWorker \in 0..MaxWorkers /\ NoAttempt \in {NoAttempt} \cup Attempts
    BY ToolAssumption DEF NoWorker
  <2> QED  BY <1>0, <2>1 DEF Row
<1>2. rows' = [rows EXCEPT ![j] = [rows[j] EXCEPT !.status = status, !.worker = NoWorker,
                                                   !.process = NoAttempt]]
  BY DEF Closed
<1>3. rows' \in [Jobs -> Row]
  BY <1>0, <1>1, <1>2
<1>4. /\ rows'[j].status = status /\ rows'[j].attempts = a /\ rows'[j].process = NoAttempt
      /\ \A k \in Jobs \ {j} : rows'[k] = rows[k]
  BY <1>0, <1>2 DEF Row
<1>5. /\ announced' \in [Jobs -> Nat] /\ announced'[j] > 0
      /\ \A k \in Jobs \ {j} : announced'[k] = announced[k]
  BY <1>0 DEF Closed
<1> QED  BY <1>0, <1>3, <1>4, <1>5

\* What a step does to the store when it closes the row at most.
LEMMA StoreOf ==
  ASSUME Inv, NEW j \in Jobs, NEW a \in Attempts, NEW status \in Terminal,
         UNCHANGED store \/ Closed(j, a, status),
         \A b \in Attempts : Working(j, b)' => Working(j, b)
  PROVE  /\ rows' \in [Jobs -> Row] /\ announced' \in [Jobs -> Nat]
         /\ \A k \in Jobs : rows'[k].process <= rows'[k].attempts
         /\ rows'[j] # rows[j] => /\ Owns(j, a) /\ rows'[j].attempts = a
                                  /\ rows'[j].status = status
         /\ rows'[j].attempts = rows[j].attempts
         /\ ~Over(j)' => rows' = rows
         /\ Announced(j) => announced'[j] = announced[j]
         /\ \A k \in Jobs \ {j} : rows'[k] = rows[k] /\ announced'[k] = announced[k]
         /\ RowInv(j)'
<1>0. /\ rows \in [Jobs -> Row] /\ announced \in [Jobs -> Nat] /\ RowInv(j)
      /\ \A k \in Jobs : rows[k].process <= rows[k].attempts
  BY DEF Inv, ToolTypeOK
<1>1. CASE UNCHANGED store
  <2>1. rows' = rows /\ announced' = announced
    BY <1>1 DEF store
  <2>2. RowInv(j)'
    BY <1>0, <2>1 DEF RowInv, Over, Announced
  <2> QED  BY <1>0, <2>1, <2>2
<1>2. CASE Closed(j, a, status)
  <2>1. /\ rows' \in [Jobs -> Row] /\ announced' \in [Jobs -> Nat]
        /\ rows'[j].status = status /\ rows'[j].attempts = a /\ rows[j].attempts = a
        /\ rows'[j].process = NoAttempt /\ announced'[j] > 0
        /\ \A k \in Jobs \ {j} : rows'[k] = rows[k] /\ announced'[k] = announced[k]
    BY <1>2, ClosedRow
  <2>2. Over(j)'
    BY <2>1 DEF Over
  <2>3. RowInv(j)'
    BY <1>0, <2>1, <2>2 DEF RowInv, Announced
  <2>4. \A k \in Jobs : rows'[k].process <= rows'[k].attempts
    BY <1>0, <2>1 DEF NoAttempt, Attempts
  <2> QED  BY <1>2, <2>1, <2>2, <2>3, <2>4 DEF Closed
<1> QED  BY <1>1, <1>2

\* the disturbances are counted, the limits stay
Counted == UNCHANGED <<bound, budget>> \/ \E kind : Disturb(kind)

\* What of the types is left to say after a step of a task.
LEMMA Typed ==
  ASSUME Inv, rows' \in [Jobs -> Row], announced' \in [Jobs -> Nat],
         \A k \in Jobs : rows'[k].process <= rows'[k].attempts,
         procs' \in [Jobs -> [Attempts -> {"none", "working", "gone"}]],
         files' \in [Jobs -> [Attempts -> BOOLEAN]],
         tasks' \in [Jobs -> [Attempts -> Task]],
         worker' = worker, up' = up, scan' \in BOOLEAN,
         Counted
  PROVE  ToolTypeOK'
<1>1. bound \in Bounds /\ bound.faults \in Nat /\ budget \in 0..bound.faults
  BY ToolAssumption DEF Inv, ToolTypeOK, Bound
<1>2. bound' \in Bounds /\ budget' \in 0..bound'.faults
  BY <1>1 DEF Counted, Disturb
<1> QED  BY <1>2 DEF Inv, ToolTypeOK

\* A step that takes the files of an attempt back, or not.
LEMMA FilesOf ==
  ASSUME Inv, NEW j \in Jobs, NEW a \in Attempts, files' = files \/ RollBack(j, a)
  PROVE  /\ files' \in [Jobs -> [Attempts -> BOOLEAN]]
         /\ files'[j][a] => files[j][a]
         /\ \A k \in Jobs \ {j} : files'[k] = files[k]
         /\ \A b \in Attempts \ {a} : files'[j][b] = files[j][b]
<1>0. files \in [Jobs -> [Attempts -> BOOLEAN]]
  BY DEF Inv, ToolTypeOK
<1>1. CASE files' = files
  BY <1>0, <1>1
<1>2. CASE RollBack(j, a)
  <2>1. files' = [files EXCEPT ![j] = [files[j] EXCEPT ![a] = FALSE]]
    BY <1>2 DEF RollBack
  <2>2. [files[j] EXCEPT ![a] = FALSE] \in [Attempts -> BOOLEAN]
    BY <1>0
  <2> QED  BY <1>0, <2>1, <2>2
<1> QED  BY <1>1, <1>2

--------------------------------------------------------------------------------
(* The end of a handler *)

\* What a task may become.
LEMMA EndedTask ==
  ASSUME NEW t \in Task PROVE [t EXCEPT !.pc = "over", !.final = TRUE] \in Task
<1>1. \A b \in BOOLEAN : [t EXCEPT !.pc = "over", !.final = b] \in Task
  BY DEF Task
<1> QED  BY <1>1

\* A handler ends: the row is closed by it, or left alone.
LEMMA EndKeeps ==
  ASSUME Inv, NEW j \in Jobs, NEW a \in Attempts, NEW status \in Terminal,
         tasks[j][a].pc \in {"run", "exited", "staged"},
         UNCHANGED store \/ Closed(j, a, status),
         files' = files \/ RollBack(j, a),
         End(j, a), UNCHANGED procs,
         Counted,
         rows'[j] # rows[j] /\ status = "succeeded" /\ j \notin Plain => files'[j][a],
         Uncrashed /\ files'[j][a] => rows'[j].status = "succeeded"
  PROVE  Orderly(j, a)
<1>0. /\ tasks \in [Jobs -> [Attempts -> Task]] /\ TaskInv(j, a) /\ Supervised(j, a)
      /\ procs' = procs /\ procs \in [Jobs -> [Attempts -> {"none", "working", "gone"}]]
      /\ worker' = worker /\ up' = up /\ bound' = bound /\ scan \in BOOLEAN
  BY DEF Inv, ToolTypeOK, End, host, Counted, Disturb
<1>1. /\ rows' \in [Jobs -> Row] /\ announced' \in [Jobs -> Nat]
      /\ \A k \in Jobs : rows'[k].process <= rows'[k].attempts
      /\ rows'[j] # rows[j] => /\ Owns(j, a) /\ rows'[j].attempts = a
                               /\ rows'[j].status = status
      /\ rows'[j].attempts = rows[j].attempts
      /\ Announced(j) => announced'[j] = announced[j]
      /\ \A k \in Jobs \ {j} : rows'[k] = rows[k] /\ announced'[k] = announced[k]
      /\ RowInv(j)'
  BY <1>0, StoreOf DEF Working
<1>2. /\ files' \in [Jobs -> [Attempts -> BOOLEAN]]
      /\ files'[j][a] => files[j][a]
      /\ \A k \in Jobs \ {j} : files'[k] = files[k]
      /\ \A b \in Attempts \ {a} : files'[j][b] = files[j][b]
  BY FilesOf
<1>3. /\ tasks' \in [Jobs -> [Attempts -> Task]]
      /\ tasks'[j][a].pc = "over" /\ tasks'[j][a].worker = tasks[j][a].worker
      /\ tasks'[j][a].late = tasks[j][a].late
      /\ \A k \in Jobs \ {j} : tasks'[k] = tasks[k]
      /\ \A b \in Attempts \ {a} : tasks'[j][b] = tasks[j][b]
  <2> DEFINE t == [tasks[j][a] EXCEPT !.pc = "over", !.final = TRUE]
  <2>1. tasks' = [tasks EXCEPT ![j][a] = t]
    BY <1>0 DEF End
  <2>2. t \in Task
    <3>1. tasks[j][a] \in Task
      BY <1>0
    <3> QED  BY <3>1, EndedTask
  <2>3. t.pc = "over" /\ t.worker = tasks[j][a].worker /\ t.late = tasks[j][a].late
    BY <1>0 DEF Task
  <2> HIDE DEF t
  <2> QED  BY <1>0, <2>1, <2>2, <2>3, PutTask
<1>4. Moves(j, a)
  BY <1>0, <1>1, <1>2, <1>3 DEF Moves, Active, host
<1>5. TaskInv(j, a)'
  BY <1>0, <1>1, <1>2, <1>3 DEF TaskInv, Active
<1>6. Supervised(j, a)'
  BY <1>0, <1>3 DEF Supervised, Working, Calm
<1>7. SlotsExclude'
  BY <1>3, <1>4, SlotsKept DEF HoldsSlot, InHandler
<1>8. ToolTypeOK'
  <2>1. scan' \in BOOLEAN
    BY Zenon DEF End
  <2>2. procs' \in [Jobs -> [Attempts -> {"none", "working", "gone"}]]
    BY <1>0
  <2> QED  BY <1>0, <1>1, <1>2, <1>3, <2>1, <2>2, Typed
<1> QED  BY <1>0, <1>1, <1>3, <1>4, <1>5, <1>6, <1>7, <1>8 DEF Orderly

\* A handler that may still use its claim owns the row.
LEMMA UsableOwner ==
  ASSUME Inv, NEW j \in Jobs, NEW a \in Attempts, Active(j, a), Usable(j, a)
  PROVE  Owns(j, a) /\ ~Announced(j)
  BY DEF Inv, TaskInv, RowInv, Owns, Over, Terminal

\* A tool without a process has no files.
LEMMA RunPlainOrderly ==
  ASSUME Inv, NEW j \in Jobs, NEW a \in Attempts, NEW status \in {"succeeded", "failed"},
         RunPlain(j, a, status)
  PROVE  Orderly(j, a)
<1>1. tasks[j][a].pc = "run" /\ ~files[j][a] /\ j \in Plain /\ status \in Terminal
  BY DEF RunPlain, Inv, TaskInv, Terminal
<1>2. UNCHANGED store \/ Closed(j, a, status)
  BY CompletesOnce DEF RunPlain
<1> QED  BY <1>1, <1>2, EndKeeps DEF RunPlain, Counted

\* A process that cannot be found ends its job as unknown.
LEMMA CleanUpUnverifiedOrderly ==
  ASSUME Inv, NEW j \in Jobs, NEW a \in Attempts, CleanUpUnverified(j, a)
  PROVE  Orderly(j, a)
<1>1. tasks[j][a].pc = "run" /\ ~files[j][a] /\ "unknown" \in Terminal
  BY DEF CleanUpUnverified, Inv, TaskInv, Terminal
<1>2. UNCHANGED store \/ Closed(j, a, "unknown")
  BY CompletesOnce DEF CleanUpUnverified
<1> QED  BY <1>1, <1>2, EndKeeps DEF CleanUpUnverified, Counted

\* A result is stored while the attempt owns the row, so it is the first.
LEMMA SettleOrderly ==
  ASSUME Inv, NEW j \in Jobs, NEW a \in Attempts, Settle(j, a)
  PROVE  Orderly(j, a)
<1> DEFINE status == IF tasks[j][a].ok THEN "succeeded" ELSE "failed"
<1>1. tasks[j][a].pc \in {"exited", "staged"} /\ status \in Terminal
      /\ (tasks[j][a].pc = "staged" <=> tasks[j][a].ok)
  BY DEF Settle, Terminal
<1>2. Closed(j, a, status)
  BY <1>1, UsableOwner DEF Settle, CompleteToolJob, Closed, Active
<1>3. rows'[j].status = status
  BY <1>1, <1>2, ClosedRow
<1>4. files[j][a] <=> tasks[j][a].pc = "staged"
  BY <1>1 DEF Inv, TaskInv
<1>5. files' = files /\ End(j, a) /\ UNCHANGED procs /\ UNCHANGED <<bound, budget>>
  BY DEF Settle
<1> HIDE DEF status
<1>6. status = "succeeded" => tasks[j][a].pc = "staged"
  BY <1>1 DEF status
<1>7. tasks[j][a].pc = "staged" => status = "succeeded"
  BY <1>1 DEF status
<1> QED  BY <1>1, <1>2, <1>3, <1>4, <1>5, <1>6, <1>7, EndKeeps DEF Counted

\* A failure takes the files back.
LEMMA HandlerFailsOrderly ==
  ASSUME Inv, NEW j \in Jobs, NEW a \in Attempts, HandlerFails(j, a)
  PROVE  Orderly(j, a)
<1> DEFINE status == FailureStatus(j, a)
<1>1. tasks[j][a].pc \in {"run", "exited", "staged"} /\ status \in Terminal
      /\ status # "succeeded"
  BY DEF HandlerFails, Failing, FailureStatus, Terminal
<1>2. UNCHANGED store \/ Closed(j, a, status)
  BY FailsOnce DEF HandlerFails
<1>3. ~files'[j][a]
  BY DEF HandlerFails, RollBack, Inv, ToolTypeOK
<1> QED  BY <1>1, <1>2, <1>3, EndKeeps DEF HandlerFails, Counted

\* A rollback that fails leaves them, on instances where it may.
LEMMA RollbackFailsOrderly ==
  ASSUME Inv, NEW j \in Jobs, NEW a \in Attempts, RollbackFails(j, a)
  PROVE  Orderly(j, a)
<1>1. tasks[j][a].pc = "staged" /\ "failed" \in Terminal /\ ~Uncrashed
  BY DEF RollbackFails, Disturb, Uncrashed, Terminal
<1>2. UNCHANGED store \/ Closed(j, a, "failed")
  BY FailsOnce DEF RollbackFails
<1> QED  BY <1>1, <1>2, EndKeeps DEF RollbackFails, Counted

\* A completion that the store refuses.
LEMMA HandlerUnwrittenOrderly ==
  ASSUME Inv, NEW j \in Jobs, NEW a \in Attempts, HandlerUnwritten(j, a)
  PROVE  Orderly(j, a)
<1>1. tasks[j][a].pc \in {"run", "exited", "staged"} /\ "failed" \in Terminal
      /\ rows' = rows
  BY DEF HandlerUnwritten, store, Terminal
<1>2. ~files'[j][a]
  BY DEF HandlerUnwritten, RollBack, Inv, ToolTypeOK
<1> QED  BY <1>1, <1>2, EndKeeps DEF HandlerUnwritten, Counted

--------------------------------------------------------------------------------
(* The other steps of a handler *)

\* What is known before a step of the task of j and a that keeps the bot up.
LEMMA Before ==
  ASSUME Inv, NEW j \in Jobs, NEW a \in Attempts
  PROVE  /\ rows \in [Jobs -> Row] /\ announced \in [Jobs -> Nat]
         /\ procs \in [Jobs -> [Attempts -> {"none", "working", "gone"}]]
         /\ files \in [Jobs -> [Attempts -> BOOLEAN]]
         /\ tasks \in [Jobs -> [Attempts -> Task]]
         /\ tasks[j][a] \in Task /\ rows[j] \in Row
         /\ scan \in BOOLEAN
         /\ \A k \in Jobs : rows[k].process <= rows[k].attempts
         /\ RowInv(j) /\ TaskInv(j, a) /\ Supervised(j, a)
  BY DEF Inv, ToolTypeOK

\* A handler begins beside those with other keys (toolActorKey).
LEMMA BeginOrderly ==
  ASSUME Inv, NEW j \in Jobs, NEW a \in Attempts, Begin(j, a)
  PROVE  Orderly(j, a)
<1>0. /\ tasks \in [Jobs -> [Attempts -> Task]] /\ tasks[j][a] \in Task
      /\ RowInv(j) /\ TaskInv(j, a) /\ Supervised(j, a) /\ tasks[j][a].pc = "queued"
      /\ rows' = rows /\ announced' = announced /\ procs' = procs /\ files' = files
      /\ worker' = worker /\ up' = up /\ bound' = bound /\ budget' = budget /\ scan' = scan
  BY Before DEF Begin, store, host
<1>1. /\ tasks' \in [Jobs -> [Attempts -> Task]]
      /\ tasks'[j][a] = [tasks[j][a] EXCEPT !.pc = "run"]
      /\ \A k \in Jobs \ {j} : tasks'[k] = tasks[k]
      /\ \A b \in Attempts \ {a} : tasks'[j][b] = tasks[j][b]
  <2> DEFINE t == [tasks[j][a] EXCEPT !.pc = "run"]
  <2>1. tasks' = [tasks EXCEPT ![j][a] = t]
    BY DEF Begin
  <2>2. t \in Task
    BY <1>0 DEF Task
  <2> HIDE DEF t
  <2>3. /\ tasks' \in [Jobs -> [Attempts -> Task]] /\ tasks'[j][a] = t
        /\ \A k \in Jobs \ {j} : tasks'[k] = tasks[k]
        /\ \A b \in Attempts \ {a} : tasks'[j][b] = tasks[j][b]
    BY <1>0, <2>1, <2>2, PutTask
  <2> QED  BY <2>3 DEF t
<1>2. /\ tasks'[j][a].pc = "run" /\ tasks'[j][a].worker = tasks[j][a].worker
      /\ tasks'[j][a].orphan = tasks[j][a].orphan /\ tasks'[j][a].late = tasks[j][a].late
      /\ tasks'[j][a].aborted = tasks[j][a].aborted /\ tasks'[j][a].final = tasks[j][a].final
  BY <1>0, <1>1 DEF Task
<1>3. Moves(j, a)
  BY <1>0, <1>1 DEF Moves, Active, host
<1>4. RowInv(j)' /\ Supervised(j, a)'
  BY <1>0, <1>2 DEF RowInv, Announced, Over, Working, Supervised, Calm
<1>5. TaskInv(j, a)'
  BY <1>0, <1>2 DEF TaskInv, Active, Usable, Mine, Owns
<1>6. SlotsExclude'
  <2>1. ASSUME NEW k \in Jobs, NEW b \in Attempts, HoldsSlot(k, b)', ~(k = j /\ b = a)
        PROVE  HoldsSlot(k, b) /\ tasks'[k][b].worker = tasks[k][b].worker
    BY <1>3, <2>1 DEF Moves, HoldsSlot, InHandler
  <2>2. ASSUME NEW k \in Jobs, NEW b \in Attempts, HoldsSlot(k, b)', ~(k = j /\ b = a),
               tasks'[k][b].worker = tasks'[j][a].worker
        PROVE  ~SameKey(j, k)
    <3>1. HoldsSlot(k, b) /\ tasks[k][b].worker = tasks[j][a].worker
      BY <1>2, <2>1, <2>2
    <3>2. <<k, b>> \in {t \in Jobs \X Attempts :
                HoldsSlot(t[1], t[2]) /\ tasks[t[1]][t[2]].worker = tasks[j][a].worker}
      BY <3>1
    <3> QED  BY <3>2 DEF Begin
  <2>3. \A k, m \in Jobs : SameKey(k, m) => SameKey(m, k)
    BY DEF SameKey
  <2>4. ASSUME NEW k \in Jobs, NEW m \in Jobs, NEW b \in Attempts, NEW c \in Attempts,
               HoldsSlot(k, b)', HoldsSlot(m, c)',
               tasks'[k][b].worker = tasks'[m][c].worker, SameKey(k, m)
        PROVE  k = m /\ b = c
    <3>1. CASE k = j /\ b = a
      BY <2>2, <2>4, <3>1
    <3>2. CASE m = j /\ c = a
      BY <2>2, <2>3, <2>4, <3>2
    <3>3. CASE ~(k = j /\ b = a) /\ ~(m = j /\ c = a)
      BY <2>1, <2>4, <3>3 DEF Inv, SlotsExclude
    <3> QED  BY <3>1, <3>2, <3>3
  <2> QED  BY <2>4 DEF SlotsExclude, SameKey
<1>7. ToolTypeOK'
  BY <1>0, <1>1, Before, Typed DEF Counted
<1> QED  BY <1>0, <1>2, <1>3, <1>4, <1>5, <1>6, <1>7 DEF Orderly

\* A clean-up ends the process that was recorded, and forgets it.
LEMMA CleanUpOrderly ==
  ASSUME Inv, NEW j \in Jobs, NEW a \in Attempts, CleanUp(j, a)
  PROVE  Orderly(j, a)
<1> DEFINE o == tasks[j][a].orphan
<1>0. /\ tasks \in [Jobs -> [Attempts -> Task]] /\ tasks[j][a] \in Task
      /\ procs \in [Jobs -> [Attempts -> {"none", "working", "gone"}]]
      /\ rows \in [Jobs -> Row] /\ rows[j] \in Row
      /\ RowInv(j) /\ TaskInv(j, a) /\ Supervised(j, a) /\ tasks[j][a].pc = "run"
      /\ o \in Attempts /\ Owns(j, a) /\ rows[j].process = o
      /\ rows' = [rows EXCEPT ![j] = [rows[j] EXCEPT !.process = NoAttempt]]
      /\ procs' = [procs EXCEPT ![j] = [procs[j] EXCEPT ![o] = "gone"]]
      /\ announced' = announced /\ files' = files
      /\ worker' = worker /\ up' = up /\ bound' = bound /\ budget' = budget /\ scan' = scan
  BY Before DEF CleanUp, Orphaned, Task, host
<1>1. /\ tasks' \in [Jobs -> [Attempts -> Task]]
      /\ tasks'[j][a] = [tasks[j][a] EXCEPT !.orphan = NoAttempt]
      /\ \A k \in Jobs \ {j} : tasks'[k] = tasks[k]
      /\ \A b \in Attempts \ {a} : tasks'[j][b] = tasks[j][b]
  <2> DEFINE t == [tasks[j][a] EXCEPT !.orphan = NoAttempt]
  <2>1. tasks' = [tasks EXCEPT ![j][a] = t]
    BY <1>0 DEF CleanUp
  <2>2. t \in Task
    BY <1>0 DEF Task
  <2> HIDE DEF t
  <2>3. /\ tasks' \in [Jobs -> [Attempts -> Task]] /\ tasks'[j][a] = t
        /\ \A k \in Jobs \ {j} : tasks'[k] = tasks[k]
        /\ \A b \in Attempts \ {a} : tasks'[j][b] = tasks[j][b]
    BY <1>0, <2>1, <2>2, PutTask
  <2> QED  BY <2>3 DEF t
<1>2. /\ tasks'[j][a].pc = "run" /\ tasks'[j][a].worker = tasks[j][a].worker
      /\ tasks'[j][a].orphan = NoAttempt /\ tasks'[j][a].late = tasks[j][a].late
      /\ tasks'[j][a].aborted = tasks[j][a].aborted /\ tasks'[j][a].final = tasks[j][a].final
  BY <1>0, <1>1 DEF Task
<1>3. /\ procs' \in [Jobs -> [Attempts -> {"none", "working", "gone"}]]
      /\ \A k \in Jobs \ {j} : procs'[k] = procs[k]
      /\ \A b \in Attempts : Working(j, b)' => Working(j, b) /\ b # o
  <2>1. [procs[j] EXCEPT ![o] = "gone"] \in [Attempts -> {"none", "working", "gone"}]
    BY <1>0
  <2> QED  BY <1>0, <2>1 DEF Working
<1>4. /\ rows' \in [Jobs -> Row] /\ \A k \in Jobs \ {j} : rows'[k] = rows[k]
      /\ rows'[j].process = NoAttempt /\ rows'[j].status = rows[j].status
      /\ rows'[j].attempts = rows[j].attempts /\ rows'[j].worker = rows[j].worker
  <2>1. [rows[j] EXCEPT !.process = NoAttempt] \in Row
    BY <1>0 DEF Row
  <2> QED  BY <1>0, <2>1 DEF Row
<1>5. \A k \in Jobs : rows'[k].process <= rows'[k].attempts
  BY <1>4, Before DEF NoAttempt, Row
<1>6. Moves(j, a)
  BY <1>0, <1>1, <1>3, <1>4 DEF Moves, Active, Owns, Working, host
<1>7. RowInv(j)' /\ Supervised(j, a)'
  BY <1>0, <1>2, <1>3, <1>4 DEF RowInv, Announced, Over, Owns, Working, Supervised, Calm
<1>8. TaskInv(j, a)'
  BY <1>0, <1>2, <1>4 DEF TaskInv, Active, Usable, Mine, Owns
<1>9. SlotsExclude'
  BY <1>0, <1>2, <1>6, SlotsKept DEF HoldsSlot, InHandler
<1>10. ToolTypeOK'
  BY <1>0, <1>1, <1>3, <1>4, <1>5, Before, Typed DEF Counted
<1> QED  BY <1>0, <1>2, <1>4, <1>6, <1>7, <1>8, <1>9, <1>10 DEF Orderly, Owns

\* A process is started by the owner of the row alone, when none is recorded.
LEMMA LaunchOrderly ==
  ASSUME Inv, NEW j \in Jobs, NEW a \in Attempts, Launch(j, a)
  PROVE  Orderly(j, a)
<1>0. /\ tasks \in [Jobs -> [Attempts -> Task]] /\ tasks[j][a] \in Task
      /\ procs \in [Jobs -> [Attempts -> {"none", "working", "gone"}]]
      /\ rows \in [Jobs -> Row] /\ rows[j] \in Row
      /\ RowInv(j) /\ TaskInv(j, a) /\ Supervised(j, a) /\ tasks[j][a].pc = "run"
      /\ tasks[j][a].orphan = NoAttempt
      /\ announced' = announced /\ files' = files
      /\ worker' = worker /\ up' = up /\ bound' = bound /\ budget' = budget /\ scan' = scan
  BY Before DEF Launch, Orphaned, host
<1> DEFINE starts == ~Aborted(j, a) /\ Owns(j, a)
<1> DEFINE pc == IF starts THEN "launched" ELSE "exited"
<1>1. /\ tasks' \in [Jobs -> [Attempts -> Task]]
      /\ tasks'[j][a] = [tasks[j][a] EXCEPT !.pc = pc]
      /\ \A k \in Jobs \ {j} : tasks'[k] = tasks[k]
      /\ \A b \in Attempts \ {a} : tasks'[j][b] = tasks[j][b]
  <2> DEFINE t == [tasks[j][a] EXCEPT !.pc = pc]
  <2>1. tasks' = [tasks EXCEPT ![j][a] = t]
    BY <1>0 DEF Launch
  <2>2. t \in Task
    BY <1>0 DEF Task
  <2> HIDE DEF t
  <2>3. /\ tasks' \in [Jobs -> [Attempts -> Task]] /\ tasks'[j][a] = t
        /\ \A k \in Jobs \ {j} : tasks'[k] = tasks[k]
        /\ \A b \in Attempts \ {a} : tasks'[j][b] = tasks[j][b]
    BY <1>0, <2>1, <2>2, PutTask
  <2> QED  BY <2>3 DEF t
<1>2. /\ tasks'[j][a].pc = pc /\ tasks'[j][a].worker = tasks[j][a].worker
      /\ tasks'[j][a].late = tasks[j][a].late
      /\ tasks'[j][a].aborted = tasks[j][a].aborted /\ tasks'[j][a].final = tasks[j][a].final
  BY <1>0, <1>1 DEF Task
<1>3. /\ procs' \in [Jobs -> [Attempts -> {"none", "working", "gone"}]]
      /\ \A k \in Jobs \ {j} : procs'[k] = procs[k]
      /\ \A b \in Attempts \ {a} : procs'[j][b] = procs[j][b]
      /\ Working(j, a)' => starts \/ Working(j, a)
  <2>1. CASE starts
    <3>1. procs' = [procs EXCEPT ![j] = [procs[j] EXCEPT ![a] = "working"]]
      BY <2>1 DEF Launch
    <3>2. [procs[j] EXCEPT ![a] = "working"] \in [Attempts -> {"none", "working", "gone"}]
      BY <1>0
    <3> QED  BY <1>0, <2>1, <3>1, <3>2
  <2>2. CASE ~starts
    BY <1>0, <2>2 DEF Launch, Working
  <2> QED  BY <2>1, <2>2
<1>4. /\ rows' \in [Jobs -> Row] /\ \A k \in Jobs \ {j} : rows'[k] = rows[k]
      /\ rows'[j].status = rows[j].status
      /\ rows'[j].attempts = rows[j].attempts /\ rows'[j].worker = rows[j].worker
      /\ starts => rows'[j].process = a
      /\ ~starts => rows' = rows
  <2>1. CASE starts
    <3>1. rows' = [rows EXCEPT ![j] = [rows[j] EXCEPT !.process = a]]
      BY <2>1 DEF Launch
    <3>2. [rows[j] EXCEPT !.process = a] \in Row
      BY <1>0 DEF Row
    <3> QED  BY <1>0, <2>1, <3>1, <3>2 DEF Row
  <2>2. CASE ~starts
    BY <1>0, <2>2 DEF Launch
  <2> QED  BY <2>1, <2>2
<1>5. \A k \in Jobs : rows'[k].process <= rows'[k].attempts
  <2>1. \A k \in Jobs : rows[k].process <= rows[k].attempts
    BY Before
  <2>2. starts => rows'[j].process <= rows'[j].attempts
    BY <1>4 DEF Owns, Attempts
  <2> HIDE DEF starts
  <2> QED  BY <1>4, <2>1, <2>2
<1>6. Moves(j, a)
  BY <1>0, <1>1, <1>3, <1>4 DEF Moves, Active, Owns, host
<1>7. RowInv(j)'
  <2>1. starts => \A b \in Attempts : ~Working(j, b)
    BY <1>0 DEF RowInv, TaskInv, Over, Terminal, Owns, NoAttempt, Attempts
  <2>2. CASE starts
    <3>1. \A b \in Attempts : Working(j, b)' => b = a
      BY <1>3, <2>1, <2>2 DEF Working
    <3> QED  BY <1>0, <1>4, <2>2, <3>1 DEF RowInv, Announced, Over
  <2>3. CASE ~starts
    <3>1. \A b \in Attempts : Working(j, b)' => Working(j, b)
      BY <1>3, <2>3 DEF Working
    <3> QED  BY <1>0, <1>4, <2>3, <3>1 DEF RowInv, Announced, Over
  <2> QED  BY <2>2, <2>3
<1>8. TaskInv(j, a)' /\ Supervised(j, a)'
  <2>1. pc \notin {"none", "queued", "run", "staged"} /\ ~files[j][a]
    BY <1>0 DEF TaskInv
  <2>2. TaskInv(j, a)'
    BY <1>0, <1>2, <1>4, <2>1 DEF TaskInv, Active, Usable, Mine, Owns
  <2>3. Supervised(j, a)'
    BY <1>0, <1>2, <1>3 DEF Supervised, Calm, Working
  <2> QED  BY <2>2, <2>3
<1>9. SlotsExclude'
  BY <1>0, <1>2, <1>6, SlotsKept DEF HoldsSlot, InHandler
<1>10. ToolTypeOK'
  BY <1>0, <1>1, <1>3, <1>4, <1>5, Before, Typed DEF Counted
<1> QED  BY <1>0, <1>2, <1>4, <1>6, <1>7, <1>8, <1>9, <1>10 DEF Orderly, TaskInv, Owns

\* A process ends, supervised or not.
LEMMA ExitOrderly ==
  ASSUME Inv, NEW j \in Jobs, NEW a \in Attempts, NEW ok \in BOOLEAN, Exit(j, a, ok)
  PROVE  Orderly(j, a)
<1>0. /\ tasks \in [Jobs -> [Attempts -> Task]] /\ tasks[j][a] \in Task
      /\ procs \in [Jobs -> [Attempts -> {"none", "working", "gone"}]]
      /\ RowInv(j) /\ TaskInv(j, a) /\ Supervised(j, a)
      /\ procs' = [procs EXCEPT ![j] = [procs[j] EXCEPT ![a] = "gone"]]
      /\ rows' = rows /\ announced' = announced /\ files' = files
      /\ worker' = worker /\ up' = up /\ bound' = bound /\ budget' = budget /\ scan' = scan
  BY Before DEF Exit, store, host
<1>1. /\ tasks' \in [Jobs -> [Attempts -> Task]]
      /\ \A k \in Jobs \ {j} : tasks'[k] = tasks[k]
      /\ \A b \in Attempts \ {a} : tasks'[j][b] = tasks[j][b]
      /\ \/ tasks'[j][a] = tasks[j][a]
         \/ /\ tasks[j][a].pc = "launched"
            /\ tasks'[j][a] = [tasks[j][a] EXCEPT !.pc = "exited", !.ok = ok]
  <2>1. CASE tasks[j][a].pc # "launched"
    BY <1>0, <2>1 DEF Exit
  <2>2. CASE tasks[j][a].pc = "launched"
    <3> DEFINE t == [tasks[j][a] EXCEPT !.pc = "exited", !.ok = ok]
    <3>1. tasks' = [tasks EXCEPT ![j][a] = t]
      BY <2>2 DEF Exit
    <3>2. t \in Task
      BY <1>0 DEF Task
    <3> HIDE DEF t
    <3>3. /\ tasks' \in [Jobs -> [Attempts -> Task]] /\ tasks'[j][a] = t
          /\ \A k \in Jobs \ {j} : tasks'[k] = tasks[k]
          /\ \A b \in Attempts \ {a} : tasks'[j][b] = tasks[j][b]
      BY <1>0, <3>1, <3>2, PutTask
    <3> QED  BY <2>2, <3>3 DEF t
  <2> QED  BY <2>1, <2>2
<1>2. /\ \/ tasks'[j][a].pc = tasks[j][a].pc
         \/ tasks[j][a].pc = "launched" /\ tasks'[j][a].pc = "exited"
      /\ tasks'[j][a].worker = tasks[j][a].worker
      /\ tasks'[j][a].orphan = tasks[j][a].orphan /\ tasks'[j][a].late = tasks[j][a].late
      /\ tasks'[j][a].aborted = tasks[j][a].aborted /\ tasks'[j][a].final = tasks[j][a].final
  <2>1. CASE tasks'[j][a] = tasks[j][a]
    BY <2>1
  <2>2. CASE /\ tasks[j][a].pc = "launched"
             /\ tasks'[j][a] = [tasks[j][a] EXCEPT !.pc = "exited", !.ok = ok]
    BY <1>0, <2>2 DEF Task
  <2> QED  BY <1>1, <2>1, <2>2
<1>3. /\ procs' \in [Jobs -> [Attempts -> {"none", "working", "gone"}]]
      /\ \A k \in Jobs \ {j} : procs'[k] = procs[k]
      /\ \A b \in Attempts : Working(j, b)' => Working(j, b) /\ b # a
  <2>1. [procs[j] EXCEPT ![a] = "gone"] \in [Attempts -> {"none", "working", "gone"}]
    BY <1>0
  <2> QED  BY <1>0, <2>1 DEF Working
<1>4. Moves(j, a)
  BY <1>0, <1>1, <1>2, <1>3 DEF Moves, Active, Working, host
<1>5. RowInv(j)' /\ Supervised(j, a)'
  BY <1>0, <1>2, <1>3 DEF RowInv, Announced, Over, Supervised, Calm
<1>6. TaskInv(j, a)'
  BY <1>0, <1>2 DEF TaskInv, Active, Usable, Mine, Owns
<1>7. SlotsExclude'
  BY <1>2, <1>4, SlotsKept DEF HoldsSlot, InHandler
<1>8. ToolTypeOK'
  BY <1>0, <1>1, <1>3, Before, Typed DEF Counted
<1>9. Uncrashed /\ files'[j][a] /\ tasks'[j][a].pc = "over" => rows'[j].status = "succeeded"
  BY <1>0, <1>2 DEF Inv, NoStrayFiles, Uncrashed
<1> QED  BY <1>0, <1>4, <1>5, <1>6, <1>7, <1>8, <1>9 DEF Orderly

\* Files appear before the result is stored.
LEMMA StageOrderly ==
  ASSUME Inv, NEW j \in Jobs, NEW a \in Attempts, Stage(j, a)
  PROVE  Orderly(j, a)
<1>0. /\ tasks \in [Jobs -> [Attempts -> Task]] /\ tasks[j][a] \in Task
      /\ files \in [Jobs -> [Attempts -> BOOLEAN]]
      /\ RowInv(j) /\ TaskInv(j, a) /\ Supervised(j, a) /\ tasks[j][a].pc = "exited"
      /\ files' = [files EXCEPT ![j] = [files[j] EXCEPT ![a] = TRUE]]
      /\ rows' = rows /\ announced' = announced /\ procs' = procs
      /\ worker' = worker /\ up' = up /\ bound' = bound /\ budget' = budget /\ scan' = scan
  BY Before DEF Stage, store, host
<1>1. /\ tasks' \in [Jobs -> [Attempts -> Task]]
      /\ tasks'[j][a] = [tasks[j][a] EXCEPT !.pc = "staged"]
      /\ \A k \in Jobs \ {j} : tasks'[k] = tasks[k]
      /\ \A b \in Attempts \ {a} : tasks'[j][b] = tasks[j][b]
  <2> DEFINE t == [tasks[j][a] EXCEPT !.pc = "staged"]
  <2>1. tasks' = [tasks EXCEPT ![j][a] = t]
    BY DEF Stage
  <2>2. t \in Task
    BY <1>0 DEF Task
  <2> HIDE DEF t
  <2>3. /\ tasks' \in [Jobs -> [Attempts -> Task]] /\ tasks'[j][a] = t
        /\ \A k \in Jobs \ {j} : tasks'[k] = tasks[k]
        /\ \A b \in Attempts \ {a} : tasks'[j][b] = tasks[j][b]
    BY <1>0, <2>1, <2>2, PutTask
  <2> QED  BY <2>3 DEF t
<1>2. /\ tasks'[j][a].pc = "staged" /\ tasks'[j][a].worker = tasks[j][a].worker
      /\ tasks'[j][a].late = tasks[j][a].late
      /\ tasks'[j][a].aborted = tasks[j][a].aborted /\ tasks'[j][a].final = tasks[j][a].final
  BY <1>0, <1>1 DEF Task
<1>3. /\ files' \in [Jobs -> [Attempts -> BOOLEAN]] /\ files'[j][a]
      /\ \A k \in Jobs \ {j} : files'[k] = files[k]
      /\ \A b \in Attempts \ {a} : files'[j][b] = files[j][b]
  <2>1. [files[j] EXCEPT ![a] = TRUE] \in [Attempts -> BOOLEAN]
    BY <1>0
  <2> QED  BY <1>0, <2>1
<1>4. Moves(j, a)
  BY <1>0, <1>1, <1>3 DEF Moves, Active, host
<1>5. RowInv(j)' /\ Supervised(j, a)'
  BY <1>0, <1>2 DEF RowInv, Announced, Over, Working, Supervised, Calm
<1>6. TaskInv(j, a)'
  BY <1>0, <1>2, <1>3 DEF TaskInv, Active, Usable, Mine, Owns
<1>7. SlotsExclude'
  BY <1>0, <1>2, <1>4, SlotsKept DEF HoldsSlot, InHandler
<1>8. ToolTypeOK'
  BY <1>0, <1>1, <1>3, Before, Typed DEF Counted
<1> QED  BY <1>0, <1>2, <1>4, <1>5, <1>6, <1>7, <1>8 DEF Orderly

\* A timeout closes the row; the handler goes on and may close nothing more.
LEMMA ActorTimesOutOrderly ==
  ASSUME Inv, NEW j \in Jobs, NEW a \in Attempts, ActorTimesOut(j, a)
  PROVE  Orderly(j, a)
<1>0. /\ tasks \in [Jobs -> [Attempts -> Task]] /\ tasks[j][a] \in Task
      /\ TaskInv(j, a) /\ Supervised(j, a) /\ InHandler(j, a) /\ "timed_out" \in Terminal
      /\ procs' = procs /\ files' = files /\ ~Calm /\ Counted
      /\ worker' = worker /\ up' = up /\ bound' = bound
  BY Before DEF ActorTimesOut, HoldsSlot, host, Terminal, Disturb, Calm, Counted
<1>1. /\ tasks' \in [Jobs -> [Attempts -> Task]]
      /\ tasks'[j][a] = [tasks[j][a] EXCEPT !.late = TRUE, !.final = @ \/ Mine(j, a)]
      /\ \A k \in Jobs \ {j} : tasks'[k] = tasks[k]
      /\ \A b \in Attempts \ {a} : tasks'[j][b] = tasks[j][b]
  <2> DEFINE t == [tasks[j][a] EXCEPT !.late = TRUE, !.final = @ \/ Mine(j, a)]
  <2>1. tasks' = [tasks EXCEPT ![j][a] = t]
    BY DEF ActorTimesOut
  <2>2. t \in Task
    <3>1. \A x, y \in BOOLEAN : [tasks[j][a] EXCEPT !.late = x, !.final = y] \in Task
      BY <1>0 DEF Task
    <3>2. (tasks[j][a].final \/ Mine(j, a)) \in BOOLEAN
      OBVIOUS
    <3> QED  BY <3>1, <3>2
  <2> HIDE DEF t
  <2>3. /\ tasks' \in [Jobs -> [Attempts -> Task]] /\ tasks'[j][a] = t
        /\ \A k \in Jobs \ {j} : tasks'[k] = tasks[k]
        /\ \A b \in Attempts \ {a} : tasks'[j][b] = tasks[j][b]
    BY <1>0, <2>1, <2>2, PutTask
  <2> QED  BY <2>3 DEF t
<1>2. /\ tasks'[j][a].pc = tasks[j][a].pc /\ tasks'[j][a].worker = tasks[j][a].worker
      /\ tasks'[j][a].late /\ tasks'[j][a].orphan = tasks[j][a].orphan
  BY <1>0, <1>1 DEF Task
<1>3. UNCHANGED store \/ Closed(j, a, "timed_out")
  BY FailsOnce DEF ActorTimesOut
<1>4. /\ rows' \in [Jobs -> Row] /\ announced' \in [Jobs -> Nat]
      /\ \A k \in Jobs : rows'[k].process <= rows'[k].attempts
      /\ rows'[j] # rows[j] => /\ Owns(j, a) /\ rows'[j].attempts = a
                               /\ rows'[j].status = "timed_out"
      /\ rows'[j].attempts = rows[j].attempts
      /\ ~Over(j)' => rows' = rows
      /\ Announced(j) => announced'[j] = announced[j]
      /\ \A k \in Jobs \ {j} : rows'[k] = rows[k] /\ announced'[k] = announced[k]
      /\ RowInv(j)'
  BY <1>0, <1>3, StoreOf DEF Working
<1>5. Moves(j, a)
  BY <1>0, <1>1, <1>4 DEF Moves, Active, InHandler, host
<1>6. TaskInv(j, a)'
  BY <1>0, <1>2, <1>4 DEF TaskInv, Usable, Owns, Over, Terminal
<1>7. Supervised(j, a)'
  BY <1>0 DEF Supervised, Calm
<1>8. SlotsExclude'
  BY <1>2, <1>5, SlotsKept DEF HoldsSlot, InHandler
<1>9. ToolTypeOK'
  <2>1. scan' \in BOOLEAN
    BY Zenon DEF ActorTimesOut
  <2> QED  BY <1>0, <1>1, <1>4, <2>1, Before, Typed
<1> QED  BY <1>0, <1>2, <1>4, <1>5, <1>6, <1>7, <1>8, <1>9 DEF Orderly, InHandler

\* A renewal that fails aborts the run.
LEMMA RenewFailsOrderly ==
  ASSUME Inv, NEW j \in Jobs, NEW a \in Attempts, RenewFails(j, a)
  PROVE  Orderly(j, a)
<1>0. /\ tasks \in [Jobs -> [Attempts -> Task]] /\ tasks[j][a] \in Task
      /\ RowInv(j) /\ TaskInv(j, a) /\ Supervised(j, a) /\ Active(j, a)
      /\ rows' = rows /\ announced' = announced /\ procs' = procs /\ files' = files
      /\ worker' = worker /\ up' = up /\ bound' = bound /\ scan' = scan /\ Counted
  BY Before DEF RenewFails, Active, store, host, Disturb, Counted
<1>1. /\ tasks' \in [Jobs -> [Attempts -> Task]]
      /\ tasks'[j][a] = [tasks[j][a] EXCEPT !.aborted = TRUE]
      /\ \A k \in Jobs \ {j} : tasks'[k] = tasks[k]
      /\ \A b \in Attempts \ {a} : tasks'[j][b] = tasks[j][b]
  <2> DEFINE t == [tasks[j][a] EXCEPT !.aborted = TRUE]
  <2>1. tasks' = [tasks EXCEPT ![j][a] = t]
    BY DEF RenewFails
  <2>2. t \in Task
    BY <1>0 DEF Task
  <2> HIDE DEF t
  <2>3. /\ tasks' \in [Jobs -> [Attempts -> Task]] /\ tasks'[j][a] = t
        /\ \A k \in Jobs \ {j} : tasks'[k] = tasks[k]
        /\ \A b \in Attempts \ {a} : tasks'[j][b] = tasks[j][b]
    BY <1>0, <2>1, <2>2, PutTask
  <2> QED  BY <2>3 DEF t
<1>2. /\ tasks'[j][a].pc = tasks[j][a].pc /\ tasks'[j][a].worker = tasks[j][a].worker
      /\ tasks'[j][a].aborted /\ tasks'[j][a].orphan = tasks[j][a].orphan
      /\ tasks'[j][a].late = tasks[j][a].late
  BY <1>0, <1>1 DEF Task
<1>3. Moves(j, a)
  BY <1>0, <1>1 DEF Moves, host
<1>4. RowInv(j)' /\ Supervised(j, a)'
  BY <1>0, <1>2 DEF RowInv, Announced, Over, Working, Supervised, Calm
<1>5. TaskInv(j, a)'
  BY <1>0, <1>2 DEF TaskInv, Usable, Owns
<1>6. SlotsExclude'
  BY <1>2, <1>3, SlotsKept DEF HoldsSlot, InHandler
<1>7. ToolTypeOK'
  BY <1>0, <1>1, Before, Typed
<1> QED  BY <1>0, <1>2, <1>3, <1>4, <1>5, <1>6, <1>7 DEF Orderly, Active

--------------------------------------------------------------------------------
(* The steps of the bot *)

\* the record of a task that is claimed
Fresh(j) == [NoTask EXCEPT !.pc = "queued", !.worker = worker, !.orphan = rows[j].process]

\* A claim makes the next attempt's task, and no other.
LEMMA ScanKeeps == ASSUME Inv, Scan PROVE Inv'
<1>0. /\ rows \in [Jobs -> Row] /\ tasks \in [Jobs -> [Attempts -> Task]]
      /\ worker \in 0..MaxWorkers /\ worker > 0 /\ up
      /\ \A k \in Jobs : rows[k].process <= rows[k].attempts
      /\ bound.attempts \in 1..MaxAttempts
      /\ MaxAttempts \in Nat /\ MaxWorkers \in Nat
  BY ToolAssumption DEF Inv, ToolTypeOK, OneLife, Scan, Bound
<1>1. /\ announced' = announced /\ procs' = procs /\ files' = files /\ worker' = worker
      /\ up' = up /\ bound' = bound /\ budget' = budget /\ scan' = FALSE
  BY DEF Scan, host
<1>2. ASSUME NEW j \in Jobs
      PROVE  \/ rows'[j] = rows[j] /\ \A a \in Attempts : tasks'[j][a] = tasks[j][a]
             \/ /\ rows[j].status = "queued" /\ rows'[j].status = "running"
                /\ rows'[j].attempts = rows[j].attempts + 1 /\ rows'[j].worker = worker
                /\ rows'[j].process = rows[j].process
                /\ rows'[j] \in Row /\ rows'[j].attempts \in Attempts
                /\ \A a \in Attempts : tasks'[j][a] =
                     IF a = rows'[j].attempts THEN Fresh(j) ELSE tasks[j][a]
  <2>0. rows[j] \in Row
    BY <1>0
  <2>1. rows'[j] = ClaimedRow(rows[j])
    BY DEF Scan
  <2>2. \A a \in Attempts : tasks'[j][a] =
          IF rows'[j] # rows[j] /\ a = rows'[j].attempts THEN Fresh(j) ELSE tasks[j][a]
    BY DEF Scan, Fresh
  <2>3. CASE rows[j].status = "queued" /\ rows[j].attempts < bound.attempts
    <3>1. rows'[j] = [rows[j] EXCEPT !.status = "running", !.attempts = @ + 1, !.worker = worker]
      BY <2>1, <2>3 DEF ClaimedRow
    <3>2. /\ rows'[j].status = "running" /\ rows'[j].attempts = rows[j].attempts + 1
          /\ rows'[j].worker = worker /\ rows'[j].process = rows[j].process
      BY <2>0, <3>1 DEF Row
    <3>3. rows[j].attempts + 1 \in Attempts /\ rows[j].attempts + 1 \in 0..MaxAttempts
      BY <1>0, <2>0, <2>3 DEF Row, Attempts
    <3>4. rows'[j] \in Row
      BY <1>0, <2>0, <3>1, <3>3 DEF Row
    <3>5. rows'[j] # rows[j]
      BY <2>3, <3>2
    <3> QED  BY <2>2, <2>3, <3>2, <3>3, <3>4, <3>5
  <2>4. CASE ~(rows[j].status = "queued" /\ rows[j].attempts < bound.attempts)
    BY <2>1, <2>2, <2>4 DEF ClaimedRow
  <2> QED  BY <2>3, <2>4
<1>3. ASSUME NEW j \in Jobs
      PROVE  /\ Fresh(j) \in Task /\ Fresh(j).pc = "queued" /\ Fresh(j).worker = worker
             /\ Fresh(j).orphan = rows[j].process /\ Fresh(j).late = FALSE
  <2>1. rows[j].process \in {NoAttempt} \cup Attempts
    BY <1>0 DEF Row
  <2> QED  BY <1>0, <2>1 DEF Fresh, NoTask, Task
<1>4. ASSUME NEW j \in Jobs, NEW a \in Attempts
      PROVE  TaskInv(j, a)' /\ Supervised(j, a)'
  <2>0. TaskInv(j, a) /\ Supervised(j, a) /\ rows[j] \in Row
    BY <1>0 DEF Inv
  <2>1. CASE rows'[j] = rows[j] /\ tasks'[j][a] = tasks[j][a]
    BY <1>1, <2>0, <2>1 DEF TaskInv, Supervised, Active, Usable, Mine, Owns, Working, Calm
  <2>2. CASE /\ rows[j].status = "queued" /\ rows'[j].status = "running"
             /\ rows'[j].attempts = rows[j].attempts + 1 /\ rows'[j].worker = worker
             /\ rows'[j].process = rows[j].process
    <3>1. CASE a = rows'[j].attempts /\ tasks'[j][a] = Fresh(j)
      <4>1. ~files[j][a] /\ tasks[j][a].pc = "none"
        BY <2>0, <2>2, <3>1 DEF TaskInv, Row
      <4>2. /\ tasks'[j][a].pc = "queued" /\ tasks'[j][a].worker = worker
            /\ tasks'[j][a].orphan = rows'[j].process /\ tasks'[j][a].late = FALSE
        BY <1>3, <2>2, <3>1
      <4>3. worker' = worker /\ worker \in 1..worker /\ ~files'[j][a] /\ a <= rows'[j].attempts
        BY <1>0, <1>1, <2>0, <2>2, <3>1, <4>1 DEF Row
      <4>4. Owns(j, a)'
        BY <2>2, <3>1, <4>2 DEF Owns
      <4>5. TaskInv(j, a)'
        BY <4>2, <4>3, <4>4 DEF TaskInv
      <4>6. Supervised(j, a)'
        BY <1>1, <2>0, <4>1, <4>2 DEF Supervised, Working, Calm
      <4> QED  BY <4>5, <4>6
    <3>2. CASE a # rows'[j].attempts /\ tasks'[j][a] = tasks[j][a]
      <4>1. ~Owns(j, a) /\ ~Owns(j, a)' /\ rows[j].attempts <= rows'[j].attempts
        BY <2>0, <2>2, <3>2 DEF Owns, Row
      <4>2. a \in Nat /\ rows[j].attempts \in Nat /\ rows'[j].attempts \in Nat
        BY <2>0, <2>2 DEF Row, Attempts
      <4> QED  BY <1>1, <2>0, <3>2, <4>1, <4>2
                  DEF TaskInv, Supervised, Active, Usable, Mine, Working, Calm
    <3> QED  BY <1>2, <2>2, <3>1, <3>2
  <2> QED  BY <1>2, <2>1, <2>2
<1>5. ASSUME NEW j \in Jobs PROVE RowInv(j)'
  <2>1. Over(j)' <=> Over(j)
    BY <1>2 DEF Over, Terminal
  <2>2. rows'[j].process = rows[j].process
    BY <1>2
  <2> QED  BY <1>1, <2>1, <2>2 DEF Inv, RowInv, Announced, Working
<1>6. ASSUME NEW j \in Jobs PROVE KeptFiles(j)'
  BY <1>1, <1>2 DEF Inv, KeptFiles
<1>7. NoStrayFiles'
  <2> SUFFICES ASSUME Uncrashed, NEW k \in Jobs, NEW b \in Attempts,
                      files'[k][b], tasks'[k][b].pc = "over"
               PROVE  rows'[k].status = "succeeded"
    BY <1>1 DEF NoStrayFiles, Uncrashed
  <2>1. tasks[k][b].pc = "over" /\ files[k][b]
    BY <1>1, <1>2, <1>3
  <2>2. rows[k].status = "succeeded"
    BY <2>1 DEF Inv, NoStrayFiles, Uncrashed
  <2> QED  BY <1>2, <2>2
<1>8. SlotsExclude'
  <2>1. ASSUME NEW k \in Jobs, NEW b \in Attempts, HoldsSlot(k, b)'
        PROVE  HoldsSlot(k, b) /\ tasks'[k][b] = tasks[k][b]
    BY <1>2, <1>3, <2>1 DEF HoldsSlot, InHandler
  <2> QED  BY <2>1 DEF Inv, SlotsExclude, SameKey
<1>9. ToolTypeOK'
  <2>1. rows' \in [Jobs -> Row]
    <3>1. rows' = [j \in Jobs |-> ClaimedRow(rows[j])]
      BY DEF Scan
    <3>2. \A j \in Jobs : rows'[j] \in Row
      BY <1>0, <1>2
    <3> QED  BY <3>1, <3>2
  <2>2. tasks' \in [Jobs -> [Attempts -> Task]]
    <3>1. \A j \in Jobs : \A a \in Attempts : tasks'[j][a] \in Task
      BY <1>0, <1>2, <1>3
    <3>2. tasks' = [j \in Jobs |-> [a \in Attempts |-> tasks'[j][a]]]
      BY DEF Scan
    <3> QED  BY <3>1, <3>2
  <2>3. \A k \in Jobs : rows'[k].process <= rows'[k].attempts
    <3> SUFFICES ASSUME NEW k \in Jobs PROVE rows'[k].process <= rows'[k].attempts
      OBVIOUS
    <3>1. rows[k] \in Row /\ rows[k].process <= rows[k].attempts
      BY <1>0
    <3> QED  BY <1>2, <3>1 DEF Row, Attempts, NoAttempt
  <2> QED  BY <1>1, <2>1, <2>2, <2>3 DEF Inv, ToolTypeOK
<1>10. OneLife'
  BY <1>1 DEF Inv, OneLife, Calm
<1> QED  BY <1>4, <1>5, <1>6, <1>7, <1>8, <1>9, <1>10 DEF Inv

\* A new coordinator: the rows of the last one are queued again, with their processes.
LEMMA StartKeeps == ASSUME Inv, Start PROVE Inv'
<1>0. /\ rows \in [Jobs -> Row] /\ worker \in 0..MaxWorkers /\ ~up /\ MaxWorkers \in Nat
      /\ \A k \in Jobs : rows[k].process <= rows[k].attempts
      /\ worker' = worker + 1 /\ worker' \in 0..MaxWorkers /\ up' = TRUE /\ scan' = TRUE
      /\ announced' = announced /\ procs' = procs /\ files' = files /\ tasks' = tasks
      /\ bound' = bound /\ budget' = budget
  BY ToolAssumption DEF Inv, ToolTypeOK, Start, Bound
<1>1. ASSUME NEW j \in Jobs
      PROVE  /\ rows'[j] \in Row /\ rows'[j].attempts = rows[j].attempts
             /\ rows'[j].process = rows[j].process
             /\ \/ rows'[j] = rows[j]
                \/ rows[j].status = "running" /\ rows'[j].status = "queued"
             /\ rows'[j].status # "running"
  <2>0. rows[j] \in Row /\ rows'[j] = RecoveredRow(rows[j]) /\ NoWorker \in 0..MaxWorkers
    BY <1>0 DEF Start, NoWorker
  <2>1. CASE rows[j].status = "running"
    <3>1. rows'[j] = [rows[j] EXCEPT !.status = "queued", !.worker = NoWorker]
      BY <2>0, <2>1 DEF RecoveredRow
    <3> QED  BY <2>0, <2>1, <3>1 DEF Row
  <2>2. CASE rows[j].status # "running"
    BY <2>0, <2>2 DEF RecoveredRow
  <2> QED  BY <2>1, <2>2
<1>2. ASSUME NEW j \in Jobs PROVE RowInv(j)' /\ KeptFiles(j)'
  <2>1. Over(j)' <=> Over(j)
    BY <1>1 DEF Over, Terminal
  <2>2. RowInv(j)'
    BY <1>0, <1>1, <2>1 DEF Inv, RowInv, Announced, Working
  <2>3. KeptFiles(j)'
    BY <1>0, <1>1 DEF Inv, KeptFiles
  <2> QED  BY <2>2, <2>3
<1>3. ASSUME NEW j \in Jobs, NEW a \in Attempts PROVE TaskInv(j, a)' /\ Supervised(j, a)'
  <2>0. TaskInv(j, a) /\ Supervised(j, a)
    BY DEF Inv
  <2>1. ~Owns(j, a)'
    BY <1>1 DEF Owns
  <2>2. tasks[j][a].pc # "none" =>
          tasks[j][a].worker \in 1..worker' /\ tasks[j][a].worker # worker'
    BY <1>0, <2>0 DEF TaskInv
  <2>3. Active(j, a)' => ~Usable(j, a)'
    BY <1>0, <2>2 DEF Active, Usable, Mine
  <2>4. TaskInv(j, a)'
    BY <1>0, <1>1, <2>0, <2>1, <2>2, <2>3 DEF TaskInv
  <2>5. Supervised(j, a)'
    BY <1>0, <2>0 DEF Supervised, Working, Calm
  <2> QED  BY <2>4, <2>5
<1>4. NoStrayFiles'
  BY <1>0, <1>1 DEF Inv, NoStrayFiles
<1>5. SlotsExclude'
  BY <1>0 DEF Inv, SlotsExclude, HoldsSlot, InHandler, SameKey
<1>6. OneLife'
  BY <1>0 DEF Inv, OneLife, Calm
<1>7. ToolTypeOK'
  <2>1. rows' \in [Jobs -> Row]
    BY <1>0, <1>1 DEF Start
  <2>2. \A k \in Jobs : rows'[k].process <= rows'[k].attempts
    BY <1>0, <1>1
  <2> QED  BY <1>0, <2>1, <2>2 DEF Inv, ToolTypeOK
<1> QED  BY <1>2, <1>3, <1>4, <1>5, <1>6, <1>7 DEF Inv

\* What the steps share that end a life of the bot.
LEMMA DownKeeps ==
  ASSUME Inv, ~Calm, Counted, UNCHANGED <<store, procs, files, worker>>,
         up' = FALSE, scan' = FALSE,
         tasks' \in [Jobs -> [Attempts -> Task]],
         \A j \in Jobs, a \in Attempts :
            /\ tasks'[j][a].pc \in {tasks[j][a].pc, "none"}
            /\ tasks'[j][a].pc # "none" => /\ tasks'[j][a].worker = tasks[j][a].worker
                                           /\ tasks'[j][a].orphan = tasks[j][a].orphan
                                           /\ tasks'[j][a].late = tasks[j][a].late
  PROVE  Inv'
<1>0. /\ rows' = rows /\ announced' = announced /\ procs' = procs /\ files' = files
      /\ worker' = worker /\ bound' = bound
  BY DEF store, Counted, Disturb
<1>1. \A j \in Jobs : RowInv(j)' /\ KeptFiles(j)'
  <2> SUFFICES ASSUME NEW j \in Jobs PROVE RowInv(j)' /\ KeptFiles(j)'
    OBVIOUS
  <2>1. RowInv(j)'
    BY <1>0 DEF Inv, RowInv, Announced, Over, Working
  <2>2. KeptFiles(j)'
    BY <1>0 DEF Inv, KeptFiles
  <2> QED  BY <2>1, <2>2
<1>2. ASSUME NEW j \in Jobs, NEW a \in Attempts PROVE TaskInv(j, a)' /\ Supervised(j, a)'
  <2>1. TaskInv(j, a)
    BY DEF Inv
  <2>2. CASE tasks'[j][a].pc = "none"
    BY <1>0, <2>1, <2>2 DEF TaskInv, Supervised, Active, Calm
  <2>3. CASE tasks'[j][a].pc # "none"
    BY <1>0, <2>1, <2>3 DEF TaskInv, Supervised, Usable, Mine, Owns, Calm
  <2> QED  BY <2>2, <2>3
<1>3. NoStrayFiles'
  BY <1>0 DEF Inv, NoStrayFiles
<1>4. SlotsExclude'
  <2>1. ASSUME NEW k \in Jobs, NEW b \in Attempts, HoldsSlot(k, b)'
        PROVE  HoldsSlot(k, b) /\ tasks'[k][b].worker = tasks[k][b].worker
    BY <2>1 DEF HoldsSlot, InHandler
  <2> QED  BY <2>1 DEF Inv, SlotsExclude, SameKey
<1>5. OneLife'
  BY <1>0 DEF Inv, OneLife, Calm
<1>6. ToolTypeOK'
  <2>1. bound \in Bounds /\ bound.faults \in Nat /\ budget \in 0..bound.faults
    BY ToolAssumption DEF Inv, ToolTypeOK, Bound
  <2>2. bound' \in Bounds /\ budget' \in 0..bound'.faults
    BY <2>1 DEF Counted, Disturb
  <2> QED  BY <1>0, <2>2 DEF Inv, ToolTypeOK
<1> QED  BY <1>1, <1>2, <1>3, <1>4, <1>5, <1>6 DEF Inv

\* A stop aborts the handlers of the coordinator.
LEMMA StopKeeps == ASSUME Inv, Stop PROVE Inv'
<1>0. tasks \in [Jobs -> [Attempts -> Task]]
  BY DEF Inv, ToolTypeOK
<1>1. ASSUME NEW j \in Jobs, NEW a \in Attempts
      PROVE  /\ tasks'[j][a] \in Task
             /\ tasks'[j][a].pc = tasks[j][a].pc /\ tasks'[j][a].worker = tasks[j][a].worker
             /\ tasks'[j][a].orphan = tasks[j][a].orphan
             /\ tasks'[j][a].late = tasks[j][a].late
  <2>1. tasks'[j][a] = IF tasks[j][a].worker = worker
                         THEN [tasks[j][a] EXCEPT !.aborted = TRUE] ELSE tasks[j][a]
    BY DEF Stop
  <2>2. tasks[j][a] \in Task
    BY <1>0
  <2>3. [tasks[j][a] EXCEPT !.aborted = TRUE] \in Task
    BY <2>2 DEF Task
  <2> QED  BY <2>1, <2>2, <2>3 DEF Task
<1>2. tasks' \in [Jobs -> [Attempts -> Task]]
  <2>1. tasks' = [j \in Jobs |-> [a \in Attempts |-> tasks'[j][a]]]
    BY DEF Stop
  <2> QED  BY <1>1, <2>1
<1>3. ~Calm /\ Counted
  BY DEF Stop, Disturb, Calm, Counted
<1>4. UNCHANGED <<store, procs, files, worker>> /\ up' = FALSE /\ scan' = FALSE
  BY DEF Stop
<1> QED  BY <1>1, <1>2, <1>3, <1>4, DownKeeps

\* A crash forgets them.
LEMMA CrashKeeps == ASSUME Inv, Crash PROVE Inv'
<1>1. NoTask \in Task /\ NoTask.pc = "none"
  BY ToolAssumption DEF NoTask, Task, NoWorker
<1>2. /\ tasks' \in [Jobs -> [Attempts -> Task]]
      /\ \A j \in Jobs, a \in Attempts : tasks'[j][a] = NoTask
  BY <1>1 DEF Crash
<1>3. ~Calm /\ Counted
  BY DEF Crash, Disturb, Calm, Counted
<1>4. UNCHANGED <<store, procs, files, worker>> /\ up' = FALSE /\ scan' = FALSE
  BY DEF Crash
<1> QED  BY <1>1, <1>2, <1>3, <1>4, DownKeeps

--------------------------------------------------------------------------------
(* The theorems *)

\* Dispatched jobs and nothing else.
LEMMA InitInv == Init => Inv
<1> SUFFICES ASSUME Init PROVE Inv
  OBVIOUS
<1>0. /\ bound \in Bounds /\ bound.faults \in Nat /\ budget \in 0..bound.faults
      /\ MaxAttempts \in Nat /\ MaxWorkers \in Nat /\ worker = 0 /\ up = FALSE
  BY ToolAssumption DEF Init, Bound, NoWorker
<1>1. NoTask \in Task /\ NoTask.pc = "none" /\ NoTask.late = FALSE
  BY <1>0 DEF NoTask, Task, NoWorker
<1>2. /\ \A j \in Jobs, a \in Attempts : tasks[j][a] = NoTask
      /\ \A j \in Jobs, a \in Attempts : ~files[j][a] /\ procs[j][a] = "none"
      /\ \A j \in Jobs : /\ announced[j] = 0 /\ rows[j].status \in {"queued", "absent"}
                         /\ rows[j].attempts = 0 /\ rows[j].process = 0
  BY DEF Init, NoAttempt
<1>3. ToolTypeOK
  <2>1. rows \in [Jobs -> Row]
    BY <1>0 DEF Init, Row, NoWorker, NoAttempt
  <2>2. /\ announced \in [Jobs -> Nat] /\ files \in [Jobs -> [Attempts -> BOOLEAN]]
        /\ procs \in [Jobs -> [Attempts -> {"none", "working", "gone"}]]
        /\ tasks \in [Jobs -> [Attempts -> Task]]
    BY <1>1 DEF Init
  <2>3. worker \in 0..MaxWorkers
    BY <1>0
  <2>4. up \in BOOLEAN /\ scan \in BOOLEAN
    BY Zenon DEF Init
  <2>5. \A j \in Jobs : rows[j].process <= rows[j].attempts
    BY <1>2
  <2> QED  BY <1>0, <2>1, <2>2, <2>3, <2>4, <2>5 DEF ToolTypeOK
<1>4. \A j \in Jobs : RowInv(j) /\ KeptFiles(j)
  BY <1>2 DEF RowInv, KeptFiles, Announced, Over, Terminal, Working
<1>5. \A j \in Jobs, a \in Attempts : TaskInv(j, a) /\ Supervised(j, a)
  BY <1>1, <1>2 DEF TaskInv, Supervised, Active, Working
<1>6. SlotsExclude /\ OneLife /\ NoStrayFiles
  BY <1>0, <1>1, <1>2 DEF SlotsExclude, HoldsSlot, InHandler, OneLife, NoStrayFiles
<1> QED  BY <1>3, <1>4, <1>5, <1>6 DEF Inv

\* A step is one of a task, which stays within its bounds, or of the bot.
LEMMA StepOf ==
  ASSUME Inv, Next
  PROVE  \/ Scan \/ Start \/ Stop \/ Crash
         \/ \E j \in Jobs, a \in Attempts : Orderly(j, a)
<1>1. ASSUME NEW j \in Jobs, NEW a \in Attempts,
             \/ Begin(j, a)
             \/ \E status \in {"succeeded", "failed"} : RunPlain(j, a, status)
             \/ CleanUp(j, a) \/ CleanUpUnverified(j, a) \/ Launch(j, a)
             \/ \E ok \in BOOLEAN : Exit(j, a, ok)
             \/ Stage(j, a) \/ Settle(j, a)
             \/ HandlerFails(j, a) \/ RollbackFails(j, a) \/ HandlerUnwritten(j, a)
             \/ ActorTimesOut(j, a) \/ RenewFails(j, a)
      PROVE  Orderly(j, a)
  BY <1>1, BeginOrderly, RunPlainOrderly, CleanUpOrderly, CleanUpUnverifiedOrderly,
     LaunchOrderly, ExitOrderly, StageOrderly, SettleOrderly, HandlerFailsOrderly,
     RollbackFailsOrderly, HandlerUnwrittenOrderly, ActorTimesOutOrderly, RenewFailsOrderly
<1> QED  BY <1>1 DEF Next

\* The invariant is inductive.
LEMMA StepInv == Inv /\ [Next]_vars => Inv'
<1> SUFFICES ASSUME Inv, [Next]_vars PROVE Inv'
  OBVIOUS
<1>1. CASE Next
  BY <1>1, StepOf, OrderlyKeeps, ScanKeeps, StartKeeps, StopKeeps, CrashKeeps
<1>2. CASE UNCHANGED vars
  <2>1. UNCHANGED <<rows, announced, procs, files, tasks, worker, up, scan, bound, budget>>
    BY <1>2 DEF vars, store, host
  <2>2. \A j \in Jobs : RowInv(j)' /\ KeptFiles(j)'
    BY <2>1 DEF Inv, RowInv, KeptFiles, Announced, Over, Working
  <2>3. \A j \in Jobs, a \in Attempts : TaskInv(j, a)' /\ Supervised(j, a)'
    BY <2>1 DEF Inv, TaskInv, Supervised, Active, Usable, Mine, Owns, Working, Calm
  <2> QED  BY <2>1, <2>2, <2>3 DEF Inv, ToolTypeOK, SlotsExclude, HoldsSlot, InHandler, SameKey,
               OneLife, NoStrayFiles, Calm
<1> QED  BY <1>1, <1>2

\* Of a set whose members are all equal there is one at most.
LEMMA AtMostOne ==
  ASSUME NEW S, \A x, y \in S : x = y PROVE Cardinality(S) <= 1
<1>1. CASE S = {}
  BY <1>1, FS_EmptySet
<1>2. CASE S # {}
  <2>1. PICK x : x \in S
    BY <1>2
  <2>2. S = {x}
    BY <2>1
  <2> QED  BY <2>2, FS_Singleton
<1> QED  BY <1>1, <1>2

\* The inductive invariant of the tool jobs, over crashes, stops, timeouts, lost renewals
\* and refused writes.
THEOREM ToolInvariance == Spec => []Inv
  BY InitInv, StepInv, PTL DEF Spec

\* A job never has two codex processes at work, though they outlive the bot that started
\* them; and two local jobs have none side by side while no slot is freed early
\* (cleanupPersistedCodexProcess, toolActorKey).
THEOREM ProcessesAreAlone == Spec => []ProcessesExclude
<1>1. Inv => ProcessesExclude
  <2> SUFFICES ASSUME Inv PROVE ProcessesExclude
    OBVIOUS
  <2>1. OneProcessPerJob
    <3> SUFFICES ASSUME NEW j \in Jobs
                 PROVE  Cardinality({a \in Attempts : procs[j][a] = "working"}) <= 1
      BY DEF OneProcessPerJob
    <3> QED  BY AtMostOne DEF Inv, RowInv, Working
  <2>2. ASSUME Calm PROVE Cardinality({t \in Local \X Attempts : procs[t[1]][t[2]] = "working"}) <= 1
    <3> DEFINE S == {t \in Local \X Attempts : procs[t[1]][t[2]] = "working"}
    <3>1. ASSUME NEW t \in S
          PROVE  /\ t[1] \in Local /\ t[1] \in Jobs /\ t[2] \in Attempts
                 /\ HoldsSlot(t[1], t[2]) /\ tasks[t[1]][t[2]].worker = 1
                 /\ t = <<t[1], t[2]>>
      <4>1. t[1] \in Local /\ t[1] \in Jobs /\ t[2] \in Attempts /\ t = <<t[1], t[2]>>
        BY ToolAssumption
      <4>2. Supervised(t[1], t[2]) /\ TaskInv(t[1], t[2]) /\ worker \in Nat /\ worker <= 1
        BY <2>2, <4>1 DEF Inv, OneLife, ToolTypeOK
      <4>3. tasks[t[1]][t[2]].pc = "launched" /\ ~tasks[t[1]][t[2]].late
        BY <2>2, <4>2 DEF Supervised, Working
      <4> QED  BY <4>1, <4>2, <4>3 DEF HoldsSlot, InHandler, TaskInv
    <3>2. ASSUME NEW t \in S, NEW u \in S PROVE t = u
      <4>1. SameKey(t[1], u[1])
        BY <3>1 DEF SameKey
      <4>2. t[1] = u[1] /\ t[2] = u[2]
        BY <3>1, <4>1 DEF Inv, SlotsExclude
      <4> QED  BY <3>1, <4>2
    <3> QED  BY <3>2, AtMostOne
  <2> QED  BY <2>1, <2>2 DEF Inv, ProcessesExclude, LocalAlone, Calm
<1> QED  BY <1>1, ToolInvariance, PTL

\* The files in the workbench are those of an attempt whose success was announced
\* (stageCodexResultArtifacts and its rollback).
THEOREM FilesFollowOutcome == Spec => []FilesMatchOutcome
<1>1. Inv => FilesMatchOutcome
  BY DEF Inv, KeptFiles, FilesMatchOutcome, SuccessHasFiles
<1> QED  BY <1>1, ToolInvariance, PTL

\* A completion stands: the row and its announcement change no more (completeToolJob).
THEOREM CompletionStands == Spec => CompletedOnce
<1> DEFINE A == \A j \in Jobs : Announced(j) => announced'[j] = announced[j] /\ rows'[j] = rows[j]
<1>1. Inv /\ [Next]_vars => [A]_vars
  <2> SUFFICES ASSUME Inv, Next, NEW j \in Jobs, Announced(j)
               PROVE  announced'[j] = announced[j] /\ rows'[j] = rows[j]
    OBVIOUS
  <2>1. Over(j)
    BY DEF Inv, RowInv
  <2>2. CASE Scan \/ Start
    <3>1. rows'[j] = ClaimedRow(rows[j]) \/ rows'[j] = RecoveredRow(rows[j])
      BY <2>2 DEF Scan, Start
    <3>2. rows[j].status \notin {"queued", "running"}
      BY <2>1 DEF Over, Terminal
    <3> QED  BY <2>2, <3>1, <3>2 DEF Scan, Start, ClaimedRow, RecoveredRow
  <2>3. CASE Stop \/ Crash
    BY <2>3 DEF Stop, Crash, store
  <2>4. ASSUME NEW k \in Jobs, NEW a \in Attempts, Orderly(k, a)
        PROVE  announced'[j] = announced[j] /\ rows'[j] = rows[j]
    <3>1. Moves(k, a)
      BY <2>4 DEF Orderly
    <3>2. ~Owns(j, a)
      BY <2>1 DEF Over, Terminal, Owns
    <3> QED  BY <3>1, <3>2 DEF Moves
  <2> QED  BY <2>2, <2>3, <2>4, StepOf
<1> QED  BY <1>1, ToolInvariance, PTL DEF Spec, CompletedOnce

================================================================================
