------------------------------- MODULE DreamRun -------------------------------
(* The Dream of one local date: its row in dream_runs (adapters/sqlite/        *)
(* dreamStore.ts), the tasks runtime/dreamPipeline.ts launches for it, and the *)
(* commit that replaces WORKING_MEMORY.md and then the long-term memory.       *)
(*                                                                             *)
(* A task is one launch. It runs until an await; an aborted task ends at its   *)
(* next check of the signal, while its runtime may launch another. The lease   *)
(* (45 minutes) outlives every task (10 minutes) unless the host is suspended. *)
(* The model's output is kept to what the commit tells apart: a compression of *)
(* its input or none, and one new long-term record.                            *)
EXTENDS WorkingMemory

CONSTANTS
  Records,          \* the long-term records of the administrator
  Bounds            \* how far behaviours may go, one of these records each


(* A small instance: the notes that may be appended, the runtimes one after    *)
(* another, the manual triggers, the edits of the long-term memory, and the    *)
(* failures, aborts, suspensions and crashes.                                  *)
Bound == [notes : SUBSET Notes, lives : Nat, forces : Nat, edits : Nat, faults : Nat]

ASSUME DreamAssumption == "dreamt" \notin Records /\ Bounds \subseteq Bound

VARIABLES
  row, task, longTerm,
  life,       \* the runtime, the workerId of its tasks
  stopped,    \* stop was called on it
  forces, edits,
  bound, budget,
  claims,     \* history: the automatic claims of this round
  recorded,   \* history: the compressions a commit has recorded
  torn        \* history: a compression stayed though its commit was refused or lost

vars == <<doc, swap, raced, row, task, longTerm, life, stopped, forces, edits, bound, budget,
          claims, recorded, torn>>

MaxAttempts == 3
Dreamt == "dreamt"
Active == {"running", "generated", "consolidated"}

NoRow == [status |-> "none", worker |-> 0, leased |-> FALSE, attempts |-> 0, input |-> None,
          output |-> "none", result |-> "none", retry |-> "none"]
NoTask == [pc |-> "idle", aborted |-> FALSE, worker |-> 0, forced |-> FALSE, run |-> NoRow,
           snapshot |-> None, error |-> "none"]

DreamTypeOK ==
  /\ MemoryTypeOK
  /\ row.status \in Active \cup {"none", "completed", "failed"}
  /\ (row.worker # 0) <=> (row.status \in Active)
  /\ row.leased => row.status \in Active
  /\ row.retry # "none" => (row.status = "failed" /\ row.attempts < MaxAttempts)
  /\ row.status \in {"generated", "consolidated", "completed"} => row.output # "none"
  /\ row.status \in {"consolidated", "completed"} => row.result # "none"
  /\ \A t \in Dreams :
       task[t].pc \in {"idle", "capture", "accept", "model", "logged", "recapture", "swap", "undo",
                       "complete", "closing"}
  /\ longTerm \subseteq Records \cup {Dreamt}
  /\ recorded \subseteq SUBSET Notes
  /\ bound \in Bounds /\ budget \in 0..bound.faults

Init ==
  /\ MemoryInit
  /\ row = NoRow /\ task = [t \in Dreams |-> NoTask] /\ longTerm = Records
  /\ life = 1 /\ stopped = FALSE /\ forces = 0 /\ edits = 0
  /\ bound \in Bounds /\ budget = bound.faults
  /\ claims = 0 /\ recorded = {} /\ torn = FALSE

Spend == budget > 0 /\ budget' = budget - 1 /\ UNCHANGED bound

Snapshot == [doc |-> doc, longTerm |-> longTerm]
Digest(d) == IF d = {} THEN {} ELSE {[kind |-> "dream", covers |-> Covered(d)]}

-------------------------------------------------------------------------------
(* claimDailyRun *)

\* mutant: a run whose worker died is not taken up again
ClaimableFailed == row.status = "failed" /\ row.retry = "due" /\ row.attempts < MaxAttempts

Claimable ==
  \/ row.status = "failed" /\ row.retry = "due" /\ row.attempts < MaxAttempts
  \/ row.status \in Active /\ ~row.leased

RecoveredStatus ==
  IF row.result # "none" THEN "consolidated" ELSE IF row.output # "none" THEN "generated" ELSE "running"

Claimed(w) ==
  [row EXCEPT !.status = RecoveredStatus, !.worker = w, !.leased = TRUE, !.attempts = @ + 1,
              !.retry = "none"]

\* mutant: a restarted run keeps the result of the last round
RestartedRow(w) ==
  [row EXCEPT !.status = "running", !.worker = w, !.leased = TRUE, !.attempts = 1, !.input = doc,
              !.output = "none"]

FreshRow(w) ==
  [NoRow EXCEPT !.status = "running", !.worker = w, !.leased = TRUE, !.attempts = 1, !.input = doc]

(* The third interrupted attempt ends the run; a failed one a manual trigger   *)
(* takes up whatever its attempts.                                             *)
Exhausted(forced) ==
  /\ ~(forced /\ row.status = "failed")
  /\ row.attempts >= MaxAttempts /\ ~row.leased

GivenUp == [row EXCEPT !.status = "failed", !.worker = 0, !.leased = FALSE, !.retry = "none"]

-------------------------------------------------------------------------------
(* executeClaimed *)

Others == <<life, stopped, forces, edits>>

Owns(t, statuses) == row.worker = task[t].worker /\ row.leased /\ row.status \in statuses

Closing(t) == [NoTask EXCEPT !.pc = "closing", !.aborted = task[t].aborted]

(* markFailed: a third attempt is not retried, and only the holder of the      *)
(* lease is heard.                                                             *)
FailedRow(t, error) ==
  [row EXCEPT !.status = "failed", !.worker = 0, !.leased = FALSE,
              !.output = IF error = "contract" THEN "none" ELSE @,
              !.retry = IF error # "fatal" /\ task[t].run.attempts < MaxAttempts THEN "waiting" ELSE "none"]

Fail(t, error) ==
  /\ row' = IF Owns(t, IF error = "contract" THEN {"generated"} ELSE Active)
              THEN FailedRow(t, error) ELSE row
  /\ task' = [task EXCEPT ![t] = Closing(t)]

Complete(t) ==
  row' = IF Owns(t, {"consolidated"})
           THEN [row EXCEPT !.status = "completed", !.worker = 0, !.leased = FALSE] ELSE row

(* A task goes on where its run stands.                                        *)
Enter(t, k) ==
  CASE k.run.status = "running" -> task' = [task EXCEPT ![t] = [k EXCEPT !.pc = "model"]]
    [] k.run.status = "generated" -> task' = [task EXCEPT ![t] = [k EXCEPT !.pc = "recapture"]]
    [] k.run.status = "consolidated" -> task' = [task EXCEPT ![t] = [k EXCEPT !.pc = "complete"]]

(* launch and runTick: a run that has its input is claimed at once; a new one, *)
(* and the restart of a completed one, first capture it.                       *)
Launch(t, forced) ==
  LET k == [NoTask EXCEPT !.worker = life, !.forced = forced]
      captures == row.status = "none" \/ (forced /\ row.status = "completed")
      claimed == [k EXCEPT !.run = Claimed(life)]
  IN  /\ ~stopped /\ task[t].pc = "idle"
      /\ \A u \in Dreams : task[u].pc # "idle" => task[u].aborted
      /\ captures \/ Claimable \/ (forced /\ row.status = "failed")
      /\ IF forced THEN forces < bound.forces /\ forces' = forces + 1 ELSE UNCHANGED forces
      /\ CASE captures ->
                task' = [task EXCEPT ![t] = [k EXCEPT !.pc = "capture"]] /\ UNCHANGED <<row, claims>>
           [] ~captures /\ Exhausted(forced) -> row' = GivenUp /\ UNCHANGED <<task, claims>>
           [] OTHER ->
                /\ row' = Claimed(life)
                /\ claims' = IF forced THEN claims ELSE claims + 1
                /\ IF forced THEN task' = [task EXCEPT ![t] = [claimed EXCEPT !.pc = "accept"]]
                   ELSE Enter(t, claimed)
      /\ UNCHANGED <<memoryVars, longTerm, life, stopped, edits, bound, budget, recorded, torn>>

Tick == \E t \in Dreams : Launch(t, FALSE)
ForceDream == \E t \in Dreams : Launch(t, TRUE)

Captured(t) ==
  LET k == task[t]
      fresh == FreshRow(k.worker)
  IN  /\ k.pc = "capture" /\ ~k.aborted
      /\ IF row.status = "none" \/ (k.forced /\ row.status = "completed")
           THEN /\ row' = fresh
                /\ claims' = IF k.forced THEN 0 ELSE 1
                /\ task' = [task EXCEPT ![t] = [k EXCEPT !.pc = IF k.forced THEN "accept" ELSE "model",
                                                         !.run = fresh, !.snapshot = Snapshot]]
           ELSE task' = [task EXCEPT ![t] = NoTask] /\ UNCHANGED <<row, claims>>
      /\ UNCHANGED <<memoryVars, longTerm, Others, bound, budget, recorded, torn>>

CaptureFails(t) ==
  /\ task[t].pc \in {"capture", "recapture"} /\ ~task[t].aborted
  /\ Spend
  /\ IF task[t].pc = "capture" THEN task' = [task EXCEPT ![t] = NoTask] /\ UNCHANGED row
     ELSE Fail(t, "retry")
  /\ UNCHANGED <<memoryVars, longTerm, Others, claims, recorded, torn>>

(* The manual trigger's notice is queued before anything is generated.         *)
Accepted(t) ==
  /\ task[t].pc = "accept" /\ ~task[t].aborted
  /\ Enter(t, task[t])
  /\ UNCHANGED <<memoryVars, row, longTerm, Others, bound, budget, claims, recorded, torn>>

NoticeFails(t) ==
  /\ task[t].pc = "accept" /\ ~task[t].aborted
  /\ Spend /\ Fail(t, "fatal")
  /\ UNCHANGED <<memoryVars, longTerm, Others, claims, recorded, torn>>

\* mutant: the answer of a cancelled task is stored
GeneratedLate(t, output) ==
  /\ task[t].pc = "model"
  /\ IF Owns(t, {"running"})
       THEN LET run == [row EXCEPT !.status = "generated", !.output = output]
            IN  row' = run /\ task' = [task EXCEPT ![t].pc = "logged", ![t].run = run]
       ELSE Fail(t, "retry")
  /\ UNCHANGED <<memoryVars, longTerm, Others, bound, budget, claims, recorded, torn>>

(* markGenerated *)
Generated(t, output) ==
  /\ task[t].pc = "model" /\ ~task[t].aborted
  /\ IF Owns(t, {"running"})
       THEN LET run == [row EXCEPT !.status = "generated", !.output = output]
            IN  row' = run /\ task' = [task EXCEPT ![t].pc = "logged", ![t].run = run]
       ELSE Fail(t, "retry")
  /\ UNCHANGED <<memoryVars, longTerm, Others, bound, budget, claims, recorded, torn>>

ModelFails(t) ==
  /\ task[t].pc = "model" /\ ~task[t].aborted
  /\ Spend /\ Fail(t, "retry")
  /\ UNCHANGED <<memoryVars, longTerm, Others, claims, recorded, torn>>

-------------------------------------------------------------------------------
(* commitDreamWithWorkingMemory *)

\* mutant: the compression replaces whatever the commit's own snapshot read
BoundToSnapshot(t, snapshot) == snapshot.doc

(* The revision the replacement is bound to: that of the model's input.        *)
BoundTo(t, snapshot) == task[t].run.input

(* The replacement is rolled back to what it replaced, if the file is still    *)
(* as it was left.                                                             *)
Undo(t, left, error) ==
  /\ StartSwap(t, left, task[t].run.input, 0)
  /\ task' = [task EXCEPT ![t].pc = "undo", ![t].error = error]

(* A refused commit rolls a replaced document back before it is reported.      *)
Refuse(t, error) ==
  IF At(t, "updated") THEN Undo(t, swap[t].seen, error) /\ UNCHANGED row
  ELSE Fail(t, error) /\ swap' = [swap EXCEPT ![t] = Idle]

\* mutant: a changed long-term memory is overwritten by the snapshot
SnapshotAssumed(t) == TRUE

SnapshotHolds(t) == longTerm = task[t].snapshot.longTerm

(* commitDreamConsolidationUnsafe; an earlier attempt's commit counts if it    *)
(* says the same.                                                              *)
Commit(t) ==
  LET applied == swap[t].at \in {"updated", "unchanged"}
      result == IF applied THEN "applied" ELSE "kept"
      proceed == /\ task' = [task EXCEPT ![t].pc = "complete", ![t].snapshot = None]
                 /\ swap' = [swap EXCEPT ![t] = Idle]
  IN  CASE row.status \in {"consolidated", "completed"} ->
             /\ IF row.result = result THEN proceed /\ UNCHANGED row ELSE Refuse(t, "fatal")
             /\ UNCHANGED <<longTerm, recorded>>
        [] row.status \notin {"consolidated", "completed"} /\ ~Owns(t, {"generated"}) ->
             Refuse(t, "retry") /\ UNCHANGED <<longTerm, recorded>>
        [] Owns(t, {"generated"}) /\ ~SnapshotHolds(t) ->
             Refuse(t, "fatal") /\ UNCHANGED <<longTerm, recorded>>
        [] OTHER ->
             /\ row' = [row EXCEPT !.status = "consolidated", !.result = result]
             /\ longTerm' = task[t].snapshot.longTerm \cup {Dreamt}
             /\ recorded' = IF applied THEN recorded \cup {Covered(task[t].run.input)} ELSE recorded
             /\ proceed

(* Without a compression there is nothing to replace.                          *)
BeginCommit(t, snapshot) ==
  /\ task' = [task EXCEPT ![t].pc = "swap", ![t].snapshot = snapshot]
  /\ IF task[t].run.output = "compress"
       THEN StartSwap(t, BoundTo(t, snapshot), Digest(task[t].run.input), 0)
       ELSE Goto(t, "conflict")

Logged(t) ==
  /\ task[t].pc = "logged" /\ ~task[t].aborted
  /\ IF task[t].snapshot = None
       THEN task' = [task EXCEPT ![t].pc = "recapture"] /\ UNCHANGED swap
       ELSE BeginCommit(t, task[t].snapshot)
  /\ UNCHANGED <<doc, raced, row, longTerm, Others, bound, budget, claims, recorded, torn>>

Recaptured(t) ==
  /\ task[t].pc = "recapture" /\ ~task[t].aborted
  /\ BeginCommit(t, Snapshot)
  /\ UNCHANGED <<doc, raced, row, longTerm, Others, bound, budget, claims, recorded, torn>>

(* A stored output that cannot be read again is thrown away with the attempt.  *)
OutputUnreadable(t) ==
  /\ task[t].pc = "recapture" /\ ~task[t].aborted
  /\ Spend /\ Fail(t, "contract")
  /\ UNCHANGED <<memoryVars, longTerm, Others, claims, recorded, torn>>

Swaps(t) ==
  /\ task[t].pc \in {"swap", "undo"}
  /\ task[t].pc = "swap" => ~task[t].aborted
  /\ Open(t) \/ Check(t) \/ Rename(t) \/ Reread(t)
  /\ UNCHANGED <<row, task, longTerm, Others, bound, budget, claims, recorded, torn>>

SwapFails(t) ==
  /\ task[t].pc = "swap" /\ ~task[t].aborted
  /\ swap[t].at \in {"open", "check", "rename"}
  /\ Spend /\ Fail(t, "retry")
  /\ swap' = [swap EXCEPT ![t] = Idle]
  /\ UNCHANGED <<doc, raced, longTerm, Others, claims, recorded, torn>>

Commits(t) ==
  /\ task[t].pc = "swap" /\ ~task[t].aborted
  /\ swap[t].at \in {"updated", "unchanged", "conflict"}
  /\ Commit(t)
  /\ UNCHANGED <<doc, raced, Others, bound, budget, claims, torn>>

CommitThrows(t) ==
  /\ task[t].pc = "swap" /\ ~task[t].aborted
  /\ swap[t].at \in {"updated", "unchanged", "conflict"}
  /\ Spend /\ Refuse(t, "retry")
  /\ UNCHANGED <<doc, raced, longTerm, Others, claims, recorded, torn>>

(* A rollback that finds the file changed leaves it and ends the run.          *)
Undone(t) ==
  LET left == swap[t].at = "conflict"
  IN  /\ task[t].pc = "undo"
      /\ swap[t].at \in {"updated", "unchanged", "conflict"}
      /\ torn' = (torn \/ left)
      /\ IF task[t].aborted THEN task' = [task EXCEPT ![t] = NoTask] /\ UNCHANGED row
         ELSE Fail(t, IF left THEN "fatal" ELSE task[t].error)
      /\ swap' = [swap EXCEPT ![t] = Idle]
      /\ UNCHANGED <<doc, raced, longTerm, Others, bound, budget, claims, recorded>>

Completes(t) ==
  /\ task[t].pc = "complete" /\ ~task[t].aborted
  /\ Complete(t)
  /\ task' = [task EXCEPT ![t] = Closing(t)]
  /\ UNCHANGED <<memoryVars, longTerm, Others, bound, budget, claims, recorded, torn>>

Closes(t) ==
  /\ task[t].pc = "closing"
  /\ task' = [task EXCEPT ![t] = NoTask]
  /\ UNCHANGED <<memoryVars, row, longTerm, Others, bound, budget, claims, recorded, torn>>

-------------------------------------------------------------------------------
(* Cancellation, crashes and the rest of the world *)

(* An aborted task ends at its next check; one that has replaced the document  *)
(* puts it back first.                                                         *)
Drop(t) ==
  /\ task[t].aborted /\ task[t].pc \notin {"idle", "undo", "closing"}
  /\ IF task[t].pc = "swap" /\ swap[t].at \in {"renamed", "updated"}
       THEN Undo(t, IF At(t, "updated") THEN swap[t].seen ELSE swap[t].content, "aborted")
       ELSE task' = [task EXCEPT ![t] = NoTask] /\ swap' = [swap EXCEPT ![t] = Idle]
  /\ UNCHANGED <<doc, raced, row, longTerm, Others, bound, budget, claims, recorded, torn>>

Deadline(t) ==
  /\ task[t].pc # "idle" /\ ~task[t].aborted
  /\ Spend
  /\ task' = [task EXCEPT ![t].aborted = TRUE]
  /\ UNCHANGED <<memoryVars, row, longTerm, Others, claims, recorded, torn>>

Stop ==
  /\ ~stopped /\ life < bound.lives
  /\ stopped' = TRUE
  /\ task' = [t \in Dreams |-> [task[t] EXCEPT !.aborted = task[t].pc # "idle"]]
  /\ UNCHANGED <<memoryVars, row, longTerm, life, forces, edits, bound, budget, claims, recorded, torn>>

Start ==
  /\ stopped
  /\ life' = life + 1 /\ stopped' = FALSE
  /\ UNCHANGED <<memoryVars, row, task, longTerm, forces, edits, bound, budget, claims, recorded, torn>>

(* A replacement under way may stay behind unrecorded.                         *)
Crash ==
  /\ life < bound.lives /\ Spend
  /\ life' = life + 1 /\ stopped' = FALSE
  /\ task' = [t \in Dreams |-> NoTask]
  /\ swap' = [w \in Writers |-> IF swap[w].at \in {"done", "failed"} THEN swap[w] ELSE Idle]
  /\ torn' = (torn \/ \E t \in Dreams : swap[t].at # "idle")
  /\ UNCHANGED <<doc, raced, row, longTerm, forces, edits, claims, recorded>>

LeaseLapses ==
  /\ row.leased
  /\ row' = [row EXCEPT !.leased = FALSE]
  /\ IF \E t \in Dreams : task[t].pc # "idle" /\ ~task[t].aborted THEN Spend ELSE UNCHANGED <<bound, budget>>
  /\ UNCHANGED <<memoryVars, task, longTerm, Others, claims, recorded, torn>>

RetryDue ==
  /\ row.retry = "waiting"
  /\ row' = [row EXCEPT !.retry = "due"]
  /\ UNCHANGED <<memoryVars, task, longTerm, Others, bound, budget, claims, recorded, torn>>

EditLongTerm(r) ==
  /\ edits < bound.edits /\ edits' = edits + 1
  /\ longTerm' = IF r \in longTerm THEN longTerm \ {r} ELSE longTerm \cup {r}
  /\ UNCHANGED <<memoryVars, row, task, life, stopped, forces, bound, budget, claims, recorded, torn>>

Appends(n) ==
  /\ n \in bound.notes /\ Append(n)
  /\ UNCHANGED <<row, task, longTerm, Others, bound, budget, claims, recorded, torn>>

TaskStep(t) ==
  \/ Captured(t) \/ Accepted(t) \/ \E output \in {"keep", "compress"} : Generated(t, output)
  \/ Logged(t) \/ Recaptured(t) \/ Swaps(t) \/ Commits(t) \/ Undone(t) \/ Completes(t)
  \/ Closes(t) \/ Drop(t)

Fault(t) ==
  \/ CaptureFails(t) \/ NoticeFails(t) \/ ModelFails(t) \/ OutputUnreadable(t) \/ SwapFails(t)
  \/ CommitThrows(t) \/ Deadline(t)

Next ==
  \/ Tick \/ ForceDream \/ Stop \/ Start \/ Crash \/ LeaseLapses \/ RetryDue
  \/ \E t \in Dreams : TaskStep(t) \/ Fault(t)
  \/ \E r \in Records : EditLongTerm(r)
  \/ \E n \in Notes : Appends(n)

Spec == Init /\ [][Next]_vars

(* The tick timer, the clock and the awaited calls go on; faults, triggers,    *)
(* edits and appends need not happen.                                          *)
FairSpec ==
  /\ Spec
  /\ WF_vars(Tick) /\ WF_vars(Start) /\ WF_vars(LeaseLapses) /\ WF_vars(RetryDue)
  /\ \A t \in Dreams : WF_vars(TaskStep(t))

-------------------------------------------------------------------------------
(* The schedule takes a round up three times at most, interrupted attempts     *)
(* and refused commits included (dreamStore.ts:206, specs/02:118).             *)
ThreeAutomaticClaims == claims <= MaxAttempts

(* What a round has settled, completed or failed without a retry, changes only *)
(* by a manual trigger: no late task of an older lease rewrites it             *)
(* (dreamStore.ts:414, 454).                                                   *)
Settled == row.status = "completed" \/ (row.status = "failed" /\ row.retry = "none")

OutcomeStands ==
  [][Settled /\ row' # row =>
       row'.status \in Active /\ \E t \in Dreams : task'[t].forced /\ task'[t].run = row']_vars

(* A cancelled task changes neither the run nor the long-term memory           *)
(* (dreamPipeline.ts:539, specs/04:71).                                        *)
CancelledIsSilent ==
  [][\A t \in Dreams : task[t].aborted /\ task'[t] # task[t] => row' = row /\ longTerm' = longTerm]_vars

(* A Dream commits a memory it read minutes before: what the administrator has *)
(* added, changed or removed since is neither lost nor revived                 *)
(* (dreamConsolidationStore.ts:222-241).                                       *)
LongTermKept == [][edits' = edits => longTerm' \ {Dreamt} = longTerm \ {Dreamt}]_vars

(* A compression stands in the document only if a commit has recorded it or    *)
(* will be told of it: a refused, failed or cancelled commit puts the document *)
(* back, unless the file has changed since, the process died or two writers    *)
(* (a note and a Dream, or a Dream and the rollback of a cancelled one)        *)
(* renamed in each other's window (dreamWorkingMemoryCommit.ts:36-58).         *)
Pending(covers) ==
  \E t \in Dreams : /\ task[t].pc = "undo" \/ (task[t].pc = "swap" /\ swap[t].at # "conflict")
                    /\ Covered(task[t].run.input) = covers

CompressionsRecorded ==
  \A i \in doc : i.kind = "dream" => i.covers \in recorded \/ Pending(i.covers) \/ torn \/ raced # {}

(* A run that says its compression was applied has its input's notes, but for  *)
(* those that raced, in the document as compressed, and its addition in the    *)
(* long-term memory.                                                           *)
CommitIsWhole ==
  row.result # "none" =>
    /\ Dreamt \in longTerm
    /\ row.result = "applied" =>
         Covered(row.input) \in recorded /\ Covered(row.input) \subseteq Covered(doc) \cup raced

(* Today's Dream comes to its end, completed or failed for good, however often *)
(* it is interrupted, and again after each manual trigger.                     *)
DreamSettles == []<>Settled

(* The row of the day tells the truth about its claims and about its commit.   *)
RowIsTrue == DreamTypeOK /\ ThreeAutomaticClaims /\ CommitIsWhole

(* Every note and every compression in or out of the document is accounted for *)
(* by a commit, a task under way or the race between two renames.              *)
DocumentAccounted == LossNeedsRace /\ CompressionsRecorded

(* Neither a late nor a cancelled task writes: what is settled changes by a    *)
(* manual trigger only, and an aborted task leaves row and memory alone.       *)
NoLateWrite == OutcomeStands /\ CancelledIsSilent

================================================================================
