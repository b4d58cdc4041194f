---------------------------- MODULE DreamRunProofs ----------------------------
(***************************************************************************)
(* DreamRun's safety for every number of notes, Dreams and faults: the     *)
(* row of the day tells the truth, no late task writes, edits are kept,    *)
(* and every note and compression of the document is accounted for.        *)
(***************************************************************************)
EXTENDS DreamRun, TLAPS

Places == {"idle", "open", "check", "rename", "renamed", "updated", "unchanged", "conflict",
           "done", "failed"}
Docs == SUBSET Items
Swap == [at : Places, expected : Docs \cup {None}, content : Docs \cup {None},
         seen : Docs \cup {None}, tries : 0..2]
Row == [status : Active \cup {"none", "completed", "failed"}, worker : Nat, leased : BOOLEAN,
        attempts : Nat, input : Docs \cup {None}, output : {"none", "keep", "compress"},
        result : {"none", "applied", "kept"}, retry : {"none", "waiting", "due"}]
Snapshots == [doc : Docs, longTerm : SUBSET (Records \cup {Dreamt})]
PCs == {"idle", "capture", "accept", "model", "logged", "recapture", "swap", "undo", "complete",
        "closing"}
Task == [pc : PCs, aborted : BOOLEAN, worker : Nat, forced : BOOLEAN, run : Row,
         snapshot : Snapshots \cup {None},
         error : {"none", "retry", "fatal", "contract", "aborted"}]

Types ==
  /\ doc \in Docs /\ swap \in [Writers -> Swap] /\ raced \in SUBSET Writers
  /\ row \in Row /\ task \in [Dreams -> Task] /\ longTerm \in SUBSET (Records \cup {Dreamt})
  /\ life \in Nat \ {0} /\ stopped \in BOOLEAN /\ forces \in Nat /\ edits \in Nat
  /\ bound \in Bounds /\ budget \in 0..bound.faults
  /\ claims \in Nat /\ recorded \in SUBSET SUBSET Notes /\ torn \in BOOLEAN

-------------------------------------------------------------------------------
(* The row and the tasks *)

Staged == {"logged", "recapture", "swap", "undo"}
Attended == {"accept", "model", "complete"} \cup Staged

RowOK ==
  /\ (row.worker # 0) <=> (row.status \in Active)
  /\ row.leased => row.status \in Active
  /\ row.retry # "none" => row.status = "failed" /\ row.attempts < MaxAttempts
  /\ row.status \in {"generated", "consolidated", "completed"} => row.output # "none"
  /\ row.status \in {"consolidated", "completed"} => row.result # "none"
  /\ row.result # "none" =>
       /\ row.output # "none" /\ row.status \in {"consolidated", "completed", "failed"}
       /\ Dreamt \in longTerm
  /\ row.result = "applied" => Covered(row.input) \in recorded
  /\ row.status = "none" => row = NoRow
  /\ row.status # "none" => row.input \in Docs
  /\ claims <= row.attempts /\ claims <= MaxAttempts

\* A task that is not cancelled is alone, and the row is where its program counter says.
Live(t) == task[t].pc # "idle" /\ ~task[t].aborted

RunsTrue(k, r) ==
  /\ k.pc = "idle" => k = NoTask
  /\ k.pc \notin {"idle", "closing"} => k.worker # 0
  /\ k.pc \in Attended => k.run.status \in Active /\ k.run.input \in Docs
  /\ k.pc \in Attended /\ ~k.aborted =>
       /\ k.run.input = r.input /\ k.run.attempts = r.attempts /\ k.worker = r.worker
       /\ k.pc = "accept" => k.run.status = r.status
       /\ k.pc = "model" => r.status = "running"
       /\ k.pc \in Staged => r.status = "generated"
       /\ k.pc = "complete" => r.status = "consolidated"
       /\ k.pc = "undo" => k.error \in {"retry", "fatal"}

TaskOK(t) ==
  /\ RunsTrue(task[t], row)
  /\ stopped => ~Live(t)
  /\ Live(t) => \A u \in Dreams : Live(u) => u = t

\* A replacement is under way at its place only, towards the compression or back.
Moving == {"open", "check", "rename", "renamed", "updated", "unchanged"}

MovesTrue(k, s) ==
  /\ k.pc \notin {"swap", "undo"} => s.at = "idle"
  /\ k.pc \in {"swap", "undo"} => s.at \in Moving \cup {"conflict"}
  /\ k.pc = "swap" /\ s.at # "conflict" =>
       s.expected = k.run.input /\ s.content = Digest(k.run.input)
  /\ k.pc = "undo" => s.expected \in Docs /\ s.content = k.run.input
  /\ s.at = "updated" => s.seen \in Docs

SwapOK(t) == MovesTrue(task[t], swap[t])

NoteOK(n) ==
  /\ swap[n].at \in Moving =>
       swap[n].expected \in Docs /\ swap[n].content = swap[n].expected \cup {NoteItem(n)}
  /\ swap[n].at = "idle" => swap[n].tries = 0

Structure ==
  /\ Types /\ RowOK
  /\ \A t \in Dreams : TaskOK(t) /\ SwapOK(t)
  /\ \A n \in Notes : NoteOK(n)

-------------------------------------------------------------------------------
(* A note that did not race, and the documents that know of it *)

\* Whoever has read it found it in the document, and there it is still. What a writer is
\* about to replace by loses nothing of what it has read, nor of the document.
Behind(x, n) == n \in Covered(x) => n \in Covered(doc)

Sound(s, n) ==
  /\ s.at \in {"open", "check", "rename"} =>
       Behind(s.expected, n) /\ (n \in Covered(s.expected) => n \in Covered(s.content))
  /\ s.at \in {"rename", "renamed"} /\ n \in Covered(doc) => n \in Covered(s.content)
  /\ s.at = "updated" => Behind(s.seen, n) /\ (n \in Covered(s.seen) => n \in Covered(s.content))

NoteCarried(n) ==
  /\ row.status # "none" => Behind(row.input, n)
  /\ \A t \in Dreams : task[t].pc \in Attended => Behind(task[t].run.input, n)
  /\ \A w \in Writers : Sound(swap[w], n)
  /\ swap[n].at \in {"renamed", "updated", "unchanged", "done"} => n \in Covered(doc)

NotesCarried == \A n \in Notes \ raced : NoteCarried(n)

-------------------------------------------------------------------------------
(* The compressions, while nobody has raced and nothing was torn *)

\* A Dream that has put its compression in place and has yet to record it or to undo it.
Holds(t) ==
  \/ task[t].pc = "swap" /\ swap[t].at \in {"renamed", "updated"}
  \/ task[t].pc = "undo" /\ swap[t].at \in {"open", "check", "rename", "conflict"}

\* Between the check of the revision and the second look nobody else has written.
Windows ==
  \A w \in Writers :
    /\ swap[w].at = "rename" => doc = swap[w].expected
    /\ swap[w].at = "renamed" => doc = swap[w].content

Put(t) == Digest(task[t].run.input)

Replacing(t) ==
  /\ task[t].pc = "swap" /\ swap[t].at = "updated" => swap[t].seen = Put(t)
  /\ task[t].pc = "undo" /\ Holds(t) => swap[t].expected = Put(t)
  /\ Holds(t) \/ (task[t].pc = "swap" /\ swap[t].at \in {"check", "rename"}) =>
       task[t].run.input # Put(t)
  /\ Holds(t) => Covered(task[t].run.input) \subseteq Covered(doc)

Compressed(d) == {i \in d : i.kind = "dream"}

\* Every compression in the document is recorded or held by the Dream that put it there;
\* one that a holder would bring back is recorded or held by another.
Answered == \A i \in Compressed(doc) : i.covers \in recorded \/ \E t \in Dreams : Holds(t) /\ Put(t) = {i}

AnsweredBehind(t) ==
  Holds(t) => \A i \in Compressed(task[t].run.input) :
                \/ i.covers \in recorded
                \/ \E u \in Dreams \ {t} : Holds(u) /\ Put(u) = {i}
                \/ Put(t) = {i} /\ doc # {i}

Compressions == Windows /\ Answered /\ \A t \in Dreams : Replacing(t) /\ AnsweredBehind(t)

CompressionsHeld == raced = {} /\ ~torn => Compressions

Inv == Structure /\ NotesCarried /\ CompressionsHeld

-------------------------------------------------------------------------------
(* Types *)

LEMMA DigestDoc ==
  ASSUME NEW d \in Docs
  PROVE Digest(d) \in Docs /\ Covered(Digest(d)) = Covered(d)
<1>1. Covered(d) \in SUBSET Notes
  BY DEF Docs, Items, Covered
<1>2. CASE d = {}
  BY <1>2 DEF Digest, Docs, Covered
<1>3. CASE d # {}
  <2>1. [kind |-> "dream", covers |-> Covered(d)] \in Items
    BY <1>1 DEF Items
  <2>2. Digest(d) = {[kind |-> "dream", covers |-> Covered(d)]}
    BY <1>3 DEF Digest
  <2>3. Covered({[kind |-> "dream", covers |-> Covered(d)]}) = Covered(d)
    BY DEF Covered
  <2> QED BY <2>1, <2>2, <2>3 DEF Docs
<1> QED BY <1>2, <1>3

LEMMA Constants ==
  /\ NoRow \in Row /\ NoTask \in Task /\ Idle \in Swap
  /\ NoTask.pc = "idle" /\ ~NoTask.aborted /\ Idle.at = "idle"
BY DEF NoRow, NoTask, Idle, Row, Task, Swap, Places, PCs, Active

LEMMA SnapshotTyped ==
  ASSUME Types PROVE Snapshot \in Snapshots
BY DEF Types, Snapshot, Snapshots

LEMMA SpendTyped ==
  ASSUME Types, Spend PROVE bound' \in Bounds /\ budget' \in 0..bound'.faults
<1>1. bound.faults \in Nat
  BY DreamAssumption DEF Types, Bound
<1> QED BY <1>1 DEF Types, Spend

\* What a step leaves typed when it only moves one task on.
OneTask(t, k, s) ==
  /\ task' = [task EXCEPT ![t] = k] /\ swap' = [swap EXCEPT ![t] = s]
  /\ k \in Task /\ s \in Swap
  /\ doc' \in Docs /\ raced' \in SUBSET Writers /\ row' \in Row
  /\ longTerm' \in SUBSET (Records \cup {Dreamt}) /\ recorded' \in SUBSET SUBSET Notes
  /\ life' = life /\ stopped' = stopped /\ forces' \in Nat /\ edits' = edits
  /\ bound' \in Bounds /\ budget' \in 0..bound'.faults
  /\ claims' \in Nat /\ torn' \in BOOLEAN

LEMMA OneTaskKeeps ==
  ASSUME Structure, NEW t \in Dreams, NEW k, NEW s, OneTask(t, k, s),
         RowOK', RunsTrue(k, row'), MovesTrue(k, s),
         Live(t) \/ (row' = row /\ (k.pc = "idle" \/ k.aborted))
  PROVE Structure'
<1>1. Types'
  BY WritersAssumption DEF Structure, Types, OneTask, Writers
<1>2. t \in Writers /\ t \notin Notes /\ Dreams \subseteq Writers /\ Notes \subseteq Writers
  BY WritersAssumption DEF Writers
<1>3. /\ task'[t] = k /\ swap'[t] = s
      /\ \A u \in Dreams \ {t} : task'[u] = task[u]
      /\ \A w \in Writers \ {t} : swap'[w] = swap[w]
  BY <1>2 DEF Structure, Types, OneTask
<1>4. ASSUME NEW u \in Dreams PROVE TaskOK(u)'
  <2>1. TaskOK(u) /\ TaskOK(t)
    BY DEF Structure
  <2>2. stopped' = stopped
    BY DEF OneTask
  <2>3. CASE Live(t)
    <3>1. \A v \in Dreams \ {t} : ~Live(v)'
      BY <2>1, <2>3, <1>3 DEF TaskOK, Live
    <3>2. ~stopped' /\ (Live(u)' => \A v \in Dreams : Live(v)' => v = u)
      BY <2>1, <3>1, <2>2, <2>3 DEF TaskOK
    <3>3. CASE u = t
      BY <3>2, <3>3, <1>3 DEF TaskOK
    <3>4. CASE u # t
      <4>1. ~Live(u) /\ RunsTrue(task[u], row)
        BY <2>1, <2>3, <3>4 DEF TaskOK
      <4>2. task[u].aborted \/ task[u].pc = "idle"
        BY <4>1 DEF Live
      <4>3. RunsTrue(task[u], row')
        BY <4>1, <4>2 DEF RunsTrue, Attended, Staged
      <4> QED BY <3>2, <3>4, <4>3, <1>3 DEF TaskOK
    <3> QED BY <3>3, <3>4
  <2>4. CASE row' = row /\ (k.pc = "idle" \/ k.aborted)
    <3>1. ~Live(t)'
      BY <2>4, <1>3 DEF Live
    <3>2. \A v \in Dreams \ {t} : Live(v)' <=> Live(v)
      BY <1>3 DEF Live
    <3>3. CASE u = t
      BY <3>1, <3>3, <1>3 DEF TaskOK
    <3>4. CASE u # t
      BY <2>1, <2>2, <2>4, <3>1, <3>2, <3>4, <1>3 DEF TaskOK
    <3> QED BY <3>3, <3>4
  <2> QED BY <2>3, <2>4
<1>5. ASSUME NEW u \in Dreams PROVE SwapOK(u)'
  <2>1. SwapOK(u)
    BY DEF Structure
  <2> QED BY <2>1, <1>2, <1>3 DEF SwapOK
<1>6. ASSUME NEW n \in Notes PROVE NoteOK(n)'
  <2>1. NoteOK(n) /\ swap'[n] = swap[n]
    BY <1>2, <1>3 DEF Structure
  <2> QED BY <2>1 DEF NoteOK
<1> QED BY <1>1, <1>4, <1>5, <1>6 DEF Structure


\* A step that leaves the world alone but for what it spends.
Aside ==
  /\ doc' \in Docs /\ raced' \in SUBSET Writers /\ UNCHANGED <<longTerm, recorded, claims, Others>>
  /\ bound' \in Bounds /\ budget' \in 0..bound'.faults /\ torn' \in BOOLEAN

LEMMA AsideKeeps ==
  ASSUME Structure, Aside, NEW t \in Dreams, NEW k \in Task, NEW s \in Swap,
         task' = [task EXCEPT ![t] = k], swap' = [swap EXCEPT ![t] = s], UNCHANGED row,
         RunsTrue(k, row), MovesTrue(k, s),
         Live(t) \/ k.pc = "idle" \/ k.aborted
  PROVE Structure'
<1>1. RowOK'
  BY DEF Structure, RowOK, Aside
<1>2. OneTask(t, k, s)
  BY DEF OneTask, Aside, Others, Structure, Types
<1> QED BY <1>1, <1>2, OneTaskKeeps

LEMMA FailKeeps ==
  ASSUME Structure, Aside, NEW t \in Dreams, NEW s \in Swap, NEW error \in {"retry", "fatal", "contract"},
         Live(t), task[t].pc \in Attended, Fail(t, error),
         swap' = [swap EXCEPT ![t] = s], s.at = "idle"
  PROVE Structure'
<1> DEFINE k == Closing(t)
<1>1. task[t] \in Task /\ row \in Row /\ RunsTrue(task[t], row) /\ RowOK /\ task[t].aborted \in BOOLEAN
  BY DEF Structure, Types, TaskOK, Task
<1>2. k \in Task /\ k.pc = "closing" /\ ~k.aborted
  BY <1>1, Constants DEF Closing, Live, NoTask, Task, PCs
<1>3. task[t].run.attempts = row.attempts
  BY <1>1 DEF RunsTrue, Live
<1>4. CASE row' = row
  BY <1>2, <1>4, AsideKeeps DEF Fail, RunsTrue, MovesTrue, Attended, Staged
<1>5. CASE Owns(t, Active) /\ row' = FailedRow(t, error) /\ (error = "contract" => row.status = "generated")
  <2>1. row.status \in Active /\ row.worker # 0
    BY <1>1, <1>5 DEF Owns, RowOK
  <2>2. row' \in Row
    BY <1>1, <1>5, <2>1 DEF FailedRow, Row, Active
  <2>3. /\ row'.status = "failed" /\ row'.worker = 0 /\ ~row'.leased /\ row'.attempts = row.attempts
        /\ row'.input = row.input /\ row'.result = row.result
        /\ row'.retry # "none" => row.attempts < MaxAttempts
        /\ row'.output = IF error = "contract" THEN "none" ELSE row.output
    BY <1>1, <1>3, <1>5 DEF FailedRow, Row, MaxAttempts
  <2>4. row.result # "none" => error # "contract"
    BY <1>1, <1>5 DEF RowOK
  <2>5. RowOK'
    BY <1>1, <2>1, <2>3, <2>4 DEF RowOK, Active, Aside
  <2>6. OneTask(t, k, s)
    BY <1>2, <2>2 DEF OneTask, Aside, Others, Structure, Types, Fail
  <2>7. RunsTrue(k, row') /\ MovesTrue(k, s)
    BY <1>2 DEF RunsTrue, MovesTrue, Attended, Staged
  <2> QED BY <2>5, <2>6, <2>7, OneTaskKeeps
<1> QED BY <1>4, <1>5 DEF Fail, Owns, Active

\* Between two awaits of the same stage only the place in the code and the snapshot change.
LEMMA Onward ==
  ASSUME Structure, Aside, NEW t \in Dreams, NEW k \in Task, NEW s \in Swap,
         task' = [task EXCEPT ![t] = k], swap' = [swap EXCEPT ![t] = s], UNCHANGED row,
         Live(t), task[t].pc \in Staged, k.pc \in Staged \ {"undo"}, k.aborted = task[t].aborted,
         k.worker = task[t].worker, k.run = task[t].run, MovesTrue(k, s)
  PROVE Structure'
<1>1. RunsTrue(task[t], row)
  BY DEF Structure, TaskOK
<1>2. RunsTrue(k, row)
  BY <1>1 DEF RunsTrue, Live, Attended, Staged
<1> QED BY <1>2, AsideKeeps


LEMMA InitOK == Init => Structure
<1> SUFFICES ASSUME Init PROVE Structure
  OBVIOUS
<1>1. Types
  <2>1. bound.faults \in Nat
    BY DreamAssumption DEF Init, Bound
  <2>2. doc \in Docs /\ swap \in [Writers -> Swap] /\ raced \in SUBSET Writers
    BY Constants DEF Init, MemoryInit, Docs
  <2>3. row \in Row /\ task \in [Dreams -> Task] /\ longTerm \in SUBSET (Records \cup {Dreamt})
    BY Constants DEF Init
  <2>4. bound \in Bounds /\ budget \in 0..bound.faults
    BY <2>1 DEF Init
  <2>5. life \in Nat \ {0} /\ forces \in Nat /\ edits \in Nat /\ claims \in Nat
    BY DEF Init
  <2>6. stopped \in BOOLEAN /\ recorded \in SUBSET SUBSET Notes /\ torn \in BOOLEAN
    BY DEF Init
  <2> QED BY <2>2, <2>3, <2>4, <2>5, <2>6 DEF Types
<1>2. RowOK
  BY DEF Init, RowOK, NoRow, Active, MaxAttempts
<1>3. ASSUME NEW t \in Dreams PROVE TaskOK(t) /\ SwapOK(t)
  <2>1. task[t] = NoTask /\ swap[t] = Idle
    BY <1>3 DEF Init, MemoryInit, Writers
  <2> QED BY <2>1 DEF Init, TaskOK, SwapOK, RunsTrue, MovesTrue, Live, NoTask, Idle, Attended, Staged
<1>4. ASSUME NEW n \in Notes PROVE NoteOK(n)
  BY <1>4 DEF Init, MemoryInit, NoteOK, Idle, Moving, Writers
<1> QED BY <1>1, <1>2, <1>3, <1>4 DEF Structure

LEMMA ClaimedRow ==
  ASSUME Structure, row.status \in Active \cup {"failed"}
  PROVE /\ Claimed(life) \in Row /\ Claimed(life).status \in Active /\ Claimed(life).worker = life
        /\ Claimed(life).input = row.input /\ row.input \in Docs /\ Claimed(life).leased
        /\ Claimed(life).attempts = row.attempts + 1 /\ Claimed(life).retry = "none"
        /\ Claimed(life).output = row.output /\ Claimed(life).result = row.result
        /\ (Claimed(life).status = "consolidated") <=> (row.result # "none")
        /\ Claimed(life).status = "generated" => row.output # "none"
<1>1. row \in Row /\ life \in Nat /\ RowOK
  BY DEF Structure, Types
<1>2. row.input \in Docs
  BY <1>1 DEF RowOK, Active
<1>4. /\ RecoveredStatus \in Active
      /\ (RecoveredStatus = "consolidated") <=> (row.result # "none")
      /\ RecoveredStatus = "generated" => row.output # "none"
  BY DEF RecoveredStatus, Active
<1>5. row.attempts + 1 \in Nat
  BY <1>1 DEF Row
<1> DEFINE r == [row EXCEPT !.status = RecoveredStatus, !.worker = life, !.leased = TRUE,
                                !.attempts = row.attempts + 1, !.retry = "none"]
<1>7. Claimed(life) = r
  BY DEF Claimed
<1>8. r \in Row
  <2>1. r.leased = TRUE /\ r.leased \in BOOLEAN
    BY <1>1 DEF Row
  <2>2. RecoveredStatus \in {"running", "generated", "consolidated"}
    BY <1>4 DEF Active
  <2> QED BY <1>1, <1>5, <2>2 DEF Row, Active
<1>9. /\ r.status = RecoveredStatus /\ r.worker = life /\ r.input = row.input
      /\ r.attempts = row.attempts + 1 /\ r.retry = "none"
      /\ r.output = row.output /\ r.result = row.result
  BY <1>1 DEF Row
<1>10. r.leased
  BY <1>1 DEF Row
<1> HIDE DEF r
<1>11. r.status \in Active /\ ((r.status = "consolidated") <=> (r.result # "none"))
  BY <1>4, <1>9
<1>12. r.status = "generated" => r.output # "none"
  BY <1>4, <1>9
<1> QED BY <1>2, <1>7, <1>8, <1>9, <1>10, <1>11, <1>12

LEMMA LaunchOK ==
  ASSUME Structure, NEW t \in Dreams, NEW forced \in BOOLEAN, Launch(t, forced)
  PROVE Structure'
<1> DEFINE k == [NoTask EXCEPT !.worker = life, !.forced = forced]
           captures == row.status = "none" \/ (forced /\ row.status = "completed")
           claimed == [k EXCEPT !.run = Claimed(life)]
<1>1. /\ task[t] = NoTask /\ row \in Row /\ RowOK /\ ~stopped /\ life \in Nat \ {0}
      /\ task[t].pc = "idle" /\ swap[t] \in Swap /\ swap[t].at = "idle"
  BY DEF Structure, Types, Launch, TaskOK, RunsTrue, SwapOK, MovesTrue, Writers
<1>2. \A u \in Dreams : ~Live(u)
  BY DEF Launch, Live
<1>3. k \in Task /\ k.run = NoRow /\ ~k.aborted /\ k.worker = life /\ k.pc = "idle"
  BY <1>1, Constants DEF NoTask, Task
<1>4. UNCHANGED <<memoryVars, longTerm, life, stopped, edits, bound, budget, recorded, torn>> /\ forces' \in Nat
  BY DEF Launch, Structure, Types
<1>5. /\ t \in Writers /\ swap' = [swap EXCEPT ![t] = swap[t]]
      /\ task = [task EXCEPT ![t] = task[t]]
  BY <1>4 DEF Writers, memoryVars, Structure, Types
\* the row after it, and the task
<1>6. ASSUME NEW j \in Task, task' = [task EXCEPT ![t] = j], RunsTrue(j, row'), j.pc \notin {"swap", "undo"},
             row' \in Row, RowOK', claims' \in Nat
      PROVE Structure'
  <2>1. Types'
    BY <1>4, <1>6 DEF Structure, Types, memoryVars
  <2>2. task'[t] = j /\ \A u \in Dreams \ {t} : task'[u] = task[u]
    BY <1>6 DEF Structure, Types
  <2>3. ASSUME NEW u \in Dreams PROVE TaskOK(u)'
    <3>1. \A v \in Dreams \ {t} : ~Live(v)'
      BY <2>2, <1>2 DEF Live
    <3>2. CASE u = t
      BY <3>1, <3>2, <2>2, <1>6, <1>4, <1>1 DEF TaskOK
    <3>3. CASE u # t
      <4>1. RunsTrue(task[u], row) /\ (task[u].aborted \/ task[u].pc = "idle")
        BY <1>2, <3>3 DEF Structure, TaskOK, Live
      <4>2. RunsTrue(task[u], row')
        BY <4>1 DEF RunsTrue, Attended, Staged
      <4> QED BY <4>2, <3>1, <3>3, <2>2, <1>4, <1>1 DEF TaskOK
    <3> QED BY <3>2, <3>3
  <2>4. ASSUME NEW u \in Dreams PROVE SwapOK(u)'
    <3>1. SwapOK(u) /\ swap'[u] = swap[u]
      BY <1>4 DEF Structure, memoryVars
    <3>2. CASE u = t
      BY <3>1, <3>2, <2>2, <1>1, <1>6 DEF SwapOK, MovesTrue
    <3>3. CASE u # t
      BY <3>1, <3>3, <2>2 DEF SwapOK
    <3> QED BY <3>2, <3>3
  <2>5. \A n \in Notes : NoteOK(n)'
    BY <1>4 DEF Structure, NoteOK, memoryVars
  <2> QED BY <1>6, <2>1, <2>3, <2>4, <2>5 DEF Structure
<1>7. CASE captures
  <2>1. task' = [task EXCEPT ![t] = [k EXCEPT !.pc = "capture"]] /\ UNCHANGED <<row, claims>>
    BY <1>7 DEF Launch
  <2>2. [k EXCEPT !.pc = "capture"] \in Task
    BY <1>3 DEF Task, PCs
  <2>3. RunsTrue([k EXCEPT !.pc = "capture"], row')
    BY <1>1, <1>3, <2>1 DEF RunsTrue, Attended, Staged, Task
  <2>4. [k EXCEPT !.pc = "capture"].pc = "capture"
    BY <1>3 DEF Task
  <2> QED BY <1>1, <1>4, <1>6, <2>1, <2>2, <2>3, <2>4 DEF RowOK, Structure, Types
<1>8. CASE ~captures /\ Exhausted(forced)
  <2>1. row' = GivenUp /\ UNCHANGED <<task, claims>>
    BY <1>8 DEF Launch
  <2>2. row.status \in Active \cup {"failed"}
    BY <1>1, <1>8 DEF Launch, Claimable
  <2>3. /\ row' \in Row /\ row'.status = "failed" /\ row'.worker = 0 /\ ~row'.leased
        /\ row'.attempts = row.attempts /\ row'.retry = "none" /\ row'.input = row.input
        /\ row'.result = row.result /\ row'.output = row.output
    BY <1>1, <2>1 DEF GivenUp, Row
  <2>4. RowOK'
    BY <1>1, <1>4, <2>1, <2>2, <2>3 DEF RowOK, Active
  <2>5. RunsTrue(task[t], row')
    BY <1>1, Constants DEF RunsTrue, Attended, Staged, NoTask
  <2> QED BY <1>1, <1>5, <1>6, <2>1, <2>3, <2>4, <2>5, Constants DEF Structure, Types
<1>9. CASE ~captures /\ ~Exhausted(forced)
  <2>1. row.status \in Active \cup {"failed"}
    BY <1>1, <1>9 DEF Launch, Claimable
  <2>2. row' = Claimed(life) /\ claims' = IF forced THEN claims ELSE claims + 1
    BY <1>9 DEF Launch
  <2>3. ~forced => row.attempts < MaxAttempts
    <3>1. ~forced => Claimable
      BY <1>9 DEF Launch
    <3> QED BY <1>1, <1>9, <3>1 DEF Claimable, Exhausted, MaxAttempts, Row
  <2>4. RowOK'
    <3>1. claims' <= row.attempts + 1 /\ claims' <= MaxAttempts
      BY <1>1, <2>2, <2>3 DEF RowOK, Row, MaxAttempts, Structure, Types
    <3> QED BY <1>1, <1>4, <2>1, <2>2, <3>1, ClaimedRow DEF RowOK, Active
  <2>5. claimed \in Task /\ claimed.run = row' /\ claimed.worker = life /\ ~claimed.aborted
    BY <1>3, <2>1, <2>2, ClaimedRow DEF Task
  <2>6. PICK pc \in {"accept", "model", "recapture", "complete"} :
          /\ task' = [task EXCEPT ![t] = [claimed EXCEPT !.pc = pc]]
          /\ pc = "model" => row'.status = "running"
          /\ pc = "recapture" => row'.status = "generated"
          /\ pc = "complete" => row'.status = "consolidated"
    <3>1. CASE forced
      <4>1. task' = [task EXCEPT ![t] = [claimed EXCEPT !.pc = "accept"]]
        BY <1>9, <3>1 DEF Launch
      <4> QED BY <4>1
    <3>2. CASE ~forced
      <4>1. Enter(t, claimed)
        BY <1>9, <3>2 DEF Launch
      <4> QED BY <4>1, <2>1, <2>2, <2>5, ClaimedRow DEF Enter, Active
    <3> QED BY <3>1, <3>2
  <2> DEFINE j == [claimed EXCEPT !.pc = pc]
  <2>7. j \in Task /\ j.pc = pc /\ j.run = row' /\ j.worker = life /\ ~j.aborted
    BY <2>5 DEF Task, PCs
  <2>8. RunsTrue(j, row')
    BY <1>1, <2>1, <2>2, <2>6, <2>7, ClaimedRow DEF RunsTrue, Attended, Staged
  <2>9. claims' \in Nat
    BY <2>2 DEF Structure, Types
  <2> QED BY <1>6, <2>1, <2>2, <2>4, <2>6, <2>7, <2>8, <2>9, ClaimedRow
<1> QED BY <1>7, <1>8, <1>9


LEMMA CapturedOK ==
  ASSUME Structure, NEW t \in Dreams, Captured(t)
  PROVE Structure'
<1> DEFINE k == task[t]
           fresh == FreshRow(k.worker)
<1>1. /\ k \in Task /\ k.pc = "capture" /\ ~k.aborted /\ k.worker \in Nat \ {0} /\ Live(t)
      /\ swap[t] \in Swap /\ swap[t].at = "idle"
  BY DEF Structure, Types, Captured, TaskOK, RunsTrue, SwapOK, MovesTrue, Live, Task, Writers
<1>2. /\ UNCHANGED <<memoryVars, longTerm, Others, bound, budget, recorded, torn>>
      /\ t \in Writers /\ swap' = [swap EXCEPT ![t] = swap[t]]
  BY DEF Captured, memoryVars, Structure, Types, Writers
<1>3. CASE row.status = "none" \/ (k.forced /\ row.status = "completed")
  <2>1. /\ row' = fresh /\ claims' = (IF k.forced THEN 0 ELSE 1)
        /\ task' = [task EXCEPT ![t] = [k EXCEPT !.pc = IF k.forced THEN "accept" ELSE "model",
                                                 !.run = fresh, !.snapshot = Snapshot]]
    BY <1>3 DEF Captured
  <2> DEFINE j == [k EXCEPT !.pc = IF k.forced THEN "accept" ELSE "model",
                            !.run = fresh, !.snapshot = Snapshot]
  <2>2. doc \in Docs
    BY DEF Structure, Types
  <2>3. /\ fresh \in Row /\ fresh.status = "running" /\ fresh.worker = k.worker /\ fresh.leased
        /\ fresh.attempts = 1 /\ fresh.input = doc /\ fresh.output = "none" /\ fresh.result = "none"
        /\ fresh.retry = "none"
    BY <1>1, <2>2 DEF FreshRow, NoRow, Row, Active
  <2>4. Snapshot \in Snapshots
    BY SnapshotTyped DEF Structure
  <2>5. j \in Task /\ j.pc \in {"accept", "model"} /\ j.run = fresh /\ j.worker = k.worker
    BY <1>1, <2>3, <2>4 DEF Task, PCs
  <2> HIDE DEF j, fresh, k
  <2>6. RunsTrue(j, row') /\ MovesTrue(j, swap[t])
    BY <1>1, <2>1, <2>2, <2>3, <2>5 DEF RunsTrue, MovesTrue, Attended, Staged, Active
  <2>7. RowOK'
    BY <1>1, <1>2, <2>1, <2>2, <2>3 DEF RowOK, Active, MaxAttempts
  <2>8. OneTask(t, j, swap[t])
    BY <1>1, <1>2, <2>1, <2>3, <2>5 DEF OneTask, Structure, Types, memoryVars, Others, j
  <2> QED BY <1>1, <2>6, <2>7, <2>8, OneTaskKeeps
<1>4. CASE ~(row.status = "none" \/ (k.forced /\ row.status = "completed"))
  <2>1. task' = [task EXCEPT ![t] = NoTask] /\ UNCHANGED <<row, claims>>
    BY <1>4 DEF Captured
  <2>2. Aside
    BY <1>2, <2>1 DEF Aside, Structure, Types, memoryVars
  <2>3. RunsTrue(NoTask, row) /\ MovesTrue(NoTask, swap[t])
    BY <1>1, Constants DEF RunsTrue, MovesTrue, Attended, Staged
  <2> QED BY <1>1, <1>2, <2>1, <2>2, <2>3, Constants, AsideKeeps
<1> QED BY <1>3, <1>4

\* The failures before the commit, of which each ends the task and is heard or not.
EarlyFailure(t, error) ==
  /\ task[t].pc \in {"accept", "model", "recapture"} /\ ~task[t].aborted
  /\ Spend /\ Fail(t, error)
  /\ UNCHANGED <<memoryVars, longTerm, Others, claims, recorded, torn>>

LEMMA SpendAside ==
  ASSUME Structure, Spend, UNCHANGED <<doc, raced, longTerm, Others, claims, recorded, torn>>
  PROVE Aside
BY SpendTyped DEF Aside, Structure, Types

LEMMA EarlyFailureOK ==
  ASSUME Structure, NEW t \in Dreams, NEW error \in {"retry", "fatal", "contract"}, EarlyFailure(t, error)
  PROVE Structure'
<1>1. Aside
  BY SpendAside DEF EarlyFailure, memoryVars
<1>2. swap[t] \in Swap /\ swap[t].at = "idle" /\ swap' = [swap EXCEPT ![t] = swap[t]]
  BY DEF Structure, Types, EarlyFailure, SwapOK, MovesTrue, memoryVars, Writers
<1> QED BY <1>1, <1>2, FailKeeps DEF EarlyFailure, Live, Attended, Staged

LEMMA CaptureFailsOK ==
  ASSUME Structure, NEW t \in Dreams, CaptureFails(t)
  PROVE Structure'
<1>1. CASE task[t].pc = "recapture"
  BY <1>1, EarlyFailureOK DEF CaptureFails, EarlyFailure
<1>2. CASE task[t].pc = "capture"
  <2>1. task' = [task EXCEPT ![t] = NoTask] /\ UNCHANGED row
    BY <1>2 DEF CaptureFails
  <2>2. Aside
    BY SpendAside DEF CaptureFails, memoryVars
  <2>3. swap[t] \in Swap /\ swap[t].at = "idle" /\ swap' = [swap EXCEPT ![t] = swap[t]]
    BY <1>2 DEF Structure, Types, CaptureFails, SwapOK, MovesTrue, memoryVars, Writers
  <2>4. RunsTrue(NoTask, row) /\ MovesTrue(NoTask, swap[t])
    BY <2>3, Constants DEF RunsTrue, MovesTrue, Attended, Staged
  <2> QED BY <2>1, <2>2, <2>3, <2>4, Constants, AsideKeeps
<1> QED BY <1>1, <1>2 DEF CaptureFails

LEMMA AcceptedOK ==
  ASSUME Structure, NEW t \in Dreams, Accepted(t)
  PROVE Structure'
<1> DEFINE k == task[t]
<1>1. /\ k \in Task /\ k.pc = "accept" /\ ~k.aborted /\ Live(t) /\ RunsTrue(k, row)
      /\ swap[t] \in Swap /\ swap[t].at = "idle" /\ swap' = [swap EXCEPT ![t] = swap[t]]
  BY DEF Structure, Types, Accepted, TaskOK, SwapOK, MovesTrue, Live, memoryVars, Writers
<1>2. Aside /\ UNCHANGED row
  BY DEF Accepted, Aside, Structure, Types, memoryVars
<1>3. k.run.status \in Active /\ k.run.status = row.status
  BY <1>1 DEF RunsTrue, Attended
<1>4. PICK pc \in {"model", "recapture", "complete"} :
        /\ task' = [task EXCEPT ![t] = [k EXCEPT !.pc = pc]]
        /\ pc = "model" => row.status = "running"
        /\ pc = "recapture" => row.status = "generated"
        /\ pc = "complete" => row.status = "consolidated"
  BY <1>3 DEF Accepted, Enter, Active
<1> DEFINE j == [k EXCEPT !.pc = pc]
<1>5. j \in Task /\ j.pc = pc /\ j.run = k.run /\ j.worker = k.worker /\ j.aborted = k.aborted
  BY <1>1 DEF Task, PCs
<1> HIDE DEF j, k
<1>6. RunsTrue(j, row) /\ MovesTrue(j, swap[t])
  BY <1>1, <1>4, <1>5 DEF RunsTrue, MovesTrue, Attended, Staged
<1> QED BY <1>1, <1>2, <1>4, <1>5, <1>6, AsideKeeps DEF j, k

LEMMA GeneratedOK ==
  ASSUME Structure, NEW t \in Dreams, NEW output \in {"keep", "compress"}, Generated(t, output)
  PROVE Structure'
<1> DEFINE k == task[t]
           run == [row EXCEPT !.status = "generated", !.output = output]
<1>1. /\ k \in Task /\ k.pc = "model" /\ ~k.aborted /\ Live(t) /\ RunsTrue(k, row)
      /\ swap[t] \in Swap /\ swap[t].at = "idle" /\ swap' = [swap EXCEPT ![t] = swap[t]]
  BY DEF Structure, Types, Generated, TaskOK, SwapOK, MovesTrue, Live, memoryVars, Writers
<1>2. Aside
  BY DEF Generated, Aside, Structure, Types, memoryVars
<1>3. CASE ~Owns(t, {"running"})
  <2>1. Fail(t, "retry")
    BY <1>3 DEF Generated
  <2> QED BY <1>1, <1>2, <2>1, FailKeeps DEF Attended
<1>4. CASE Owns(t, {"running"})
  <2>1. row' = run /\ task' = [task EXCEPT ![t] = [k EXCEPT !.pc = "logged", !.run = run]]
    BY <1>1, <1>4 DEF Generated, Structure, Types
  <2>2. row \in Row /\ RowOK /\ row.status = "running" /\ row.worker = k.worker
    BY <1>4 DEF Owns, Structure, Types
  <2>3. /\ run \in Row /\ run.status = "generated" /\ run.output = output /\ run.worker = row.worker
        /\ run.leased = row.leased /\ run.attempts = row.attempts /\ run.input = row.input
        /\ run.result = row.result /\ run.retry = row.retry
    BY <2>2 DEF Row, Active
  <2>4. row.result = "none" /\ row.input \in Docs
    BY <2>2 DEF RowOK, Row
  <2> DEFINE j == [k EXCEPT !.pc = "logged", !.run = run]
  <2>5. j \in Task /\ j.pc = "logged" /\ j.run = run /\ j.worker = k.worker /\ j.aborted = k.aborted
    BY <1>1, <2>3 DEF Task, PCs
  <2> HIDE DEF j, run, k
  <2>6. RunsTrue(j, row') /\ MovesTrue(j, swap[t])
    BY <1>1, <2>1, <2>2, <2>3, <2>4, <2>5 DEF RunsTrue, MovesTrue, Attended, Staged, Active
  <2>7. RowOK'
    BY <1>2, <2>1, <2>2, <2>3, <2>4 DEF RowOK, Active, Aside
  <2>8. OneTask(t, j, swap[t])
    BY <1>1, <1>2, <2>1, <2>3, <2>5 DEF OneTask, Aside, Others, Structure, Types, j
  <2> QED BY <1>1, <2>6, <2>7, <2>8, OneTaskKeeps
<1> QED BY <1>3, <1>4


LEMMA BeginOK ==
  ASSUME Structure, Aside, NEW t \in Dreams, NEW snapshot \in Snapshots, BeginCommit(t, snapshot),
         Live(t), task[t].pc \in {"logged", "recapture"}, UNCHANGED row
  PROVE Structure'
<1> DEFINE k == task[t]
           j == [k EXCEPT !.pc = "swap", !.snapshot = snapshot]
           input == k.run.input
<1>1. k \in Task /\ RunsTrue(k, row) /\ swap[t] \in Swap /\ swap[t].at = "idle" /\ t \in Writers
  BY DEF Structure, Types, TaskOK, SwapOK, MovesTrue, Writers
<1>2. input \in Docs
  BY <1>1 DEF RunsTrue, Attended, Staged
<1>3. /\ task' = [task EXCEPT ![t] = j] /\ j \in Task /\ j.pc = "swap" /\ j.run = k.run
      /\ j.worker = k.worker /\ j.aborted = k.aborted
  BY <1>1 DEF BeginCommit, Structure, Types, Task, PCs
<1>4. CASE k.run.output = "compress"
  <2> DEFINE s == [at |-> "open", expected |-> input, content |-> Digest(input), seen |-> None, tries |-> 0]
  <2>1. swap' = [swap EXCEPT ![t] = s]
    BY <1>4 DEF BeginCommit, StartSwap, BoundTo
  <2>2. s \in Swap
    BY <1>2, DigestDoc DEF Swap, Places
  <2>3. MovesTrue(j, s)
    BY <1>3 DEF MovesTrue, Moving
  <2> QED BY <1>1, <1>3, <2>1, <2>2, <2>3, Onward DEF Staged
<1>5. CASE k.run.output # "compress"
  <2> DEFINE s == [swap[t] EXCEPT !.at = "conflict"]
  <2>1. swap' = [swap EXCEPT ![t] = s]
    BY <1>5 DEF BeginCommit, Goto
  <2>2. s \in Swap /\ s.at = "conflict"
    BY <1>1 DEF Swap, Places
  <2>3. MovesTrue(j, s)
    BY <1>3, <2>2 DEF MovesTrue, Moving
  <2> QED BY <1>1, <1>3, <2>1, <2>2, <2>3, Onward DEF Staged
<1> QED BY <1>4, <1>5

LEMMA LoggedOK ==
  ASSUME Structure, NEW t \in Dreams, Logged(t)
  PROVE Structure'
<1>1. Aside /\ UNCHANGED row /\ Live(t) /\ task[t].pc = "logged" /\ task[t] \in Task
  BY DEF Logged, Aside, Structure, Types, Live
<1>2. CASE task[t].snapshot = None
  <2> DEFINE j == [task[t] EXCEPT !.pc = "recapture"]
  <2>1. task' = [task EXCEPT ![t] = j] /\ UNCHANGED swap
    BY <1>2 DEF Logged
  <2>2. /\ j \in Task /\ j.pc = "recapture" /\ j.run = task[t].run /\ j.worker = task[t].worker
        /\ j.aborted = task[t].aborted
    BY <1>1 DEF Task, PCs
  <2>3. swap[t] \in Swap /\ swap[t].at = "idle" /\ swap' = [swap EXCEPT ![t] = swap[t]]
    BY <1>1, <2>1 DEF Structure, Types, SwapOK, MovesTrue, Writers
  <2>4. MovesTrue(j, swap[t])
    BY <2>2, <2>3 DEF MovesTrue
  <2> QED BY <1>1, <2>1, <2>2, <2>3, <2>4, Onward DEF Staged
<1>3. CASE task[t].snapshot # None
  BY <1>1, <1>3, BeginOK DEF Logged, Task
<1> QED BY <1>2, <1>3

LEMMA RecapturedOK ==
  ASSUME Structure, NEW t \in Dreams, Recaptured(t)
  PROVE Structure'
<1>1. Aside /\ UNCHANGED row /\ Live(t) /\ task[t].pc = "recapture" /\ Snapshot \in Snapshots
  BY SnapshotTyped DEF Recaptured, Aside, Structure, Types, Live
<1> QED BY <1>1, BeginOK DEF Recaptured

-------------------------------------------------------------------------------
(* Replacements *)

SwapStep(w) == Open(w) \/ Check(w) \/ Rename(w) \/ Reread(w)

LEMMA SwapStepTyped ==
  ASSUME Types, NEW w \in Writers, SwapStep(w), At(w, "rename") => swap[w].content \in Docs
  PROVE /\ doc' \in Docs /\ raced' \in SUBSET Writers
        /\ swap[w].at \in {"open", "check", "rename", "renamed"}
        /\ \E s \in Swap :
             /\ swap' = [swap EXCEPT ![w] = s]
             /\ s.expected = swap[w].expected /\ s.content = swap[w].content
             /\ s.at \in {"check", "rename", "renamed", "updated", "unchanged", "conflict"}
             /\ s.at = "updated" => s.seen \in Docs
<1>1. swap[w] \in Swap /\ doc \in Docs /\ raced \in SUBSET Writers
  BY DEF Types
<1>2. ASSUME NEW place \in Places, Goto(w, place)
      PROVE \E s \in Swap : /\ swap' = [swap EXCEPT ![w] = s] /\ s.at = place
                            /\ s.expected = swap[w].expected /\ s.content = swap[w].content
  <2> DEFINE s == [swap[w] EXCEPT !.at = place]
  <2>1. swap' = [swap EXCEPT ![w] = s]
    BY <1>2 DEF Goto
  <2>2. s \in Swap /\ s.at = place /\ s.expected = swap[w].expected /\ s.content = swap[w].content
    BY <1>1 DEF Swap
  <2> HIDE DEF s
  <2> QED BY <2>1, <2>2
<1>3. CASE Open(w)
  <2>1. \E place \in {"conflict", "unchanged", "check"} : Goto(w, place)
    BY <1>3 DEF Open
  <2> QED BY <1>1, <1>2, <1>3, <2>1 DEF Open, At, Places
<1>4. CASE Check(w)
  <2>1. \E place \in {"conflict", "rename"} : Goto(w, place)
    BY <1>4 DEF Check
  <2> QED BY <1>1, <1>2, <1>4, <2>1 DEF Check, At, Places
<1>5. CASE Rename(w)
  <2>1. Goto(w, "renamed") /\ doc' \in Docs /\ raced' \in SUBSET Writers
    BY <1>1, <1>5 DEF Rename
  <2> QED BY <1>2, <1>5, <2>1 DEF Rename, At, Places
<1>6. CASE Reread(w)
  <2> DEFINE s == [swap[w] EXCEPT !.at = "updated", !.seen = doc]
  <2>1. swap' = [swap EXCEPT ![w] = s] /\ UNCHANGED <<doc, raced>> /\ swap[w].at = "renamed"
    BY <1>1, <1>6 DEF Reread, At, Types
  <2>2. /\ s \in Swap /\ s.at = "updated" /\ s.expected = swap[w].expected
        /\ s.content = swap[w].content /\ s.seen \in Docs
    BY <1>1 DEF Swap, Places
  <2> HIDE DEF s
  <2> QED BY <1>1, <2>1, <2>2
<1> QED BY <1>3, <1>4, <1>5, <1>6 DEF SwapStep

LEMMA SwapsOK ==
  ASSUME Structure, NEW t \in Dreams, Swaps(t)
  PROVE Structure'
<1> DEFINE k == task[t]
<1>1. /\ k \in Task /\ k.pc \in {"swap", "undo"} /\ RunsTrue(k, row) /\ MovesTrue(k, swap[t])
      /\ t \in Writers /\ Types /\ task' = [task EXCEPT ![t] = k] /\ UNCHANGED row
  BY DEF Structure, Types, TaskOK, SwapOK, Swaps, Writers
<1>2. k.run.input \in Docs
  BY <1>1 DEF RunsTrue, Attended, Staged
<1>3. At(t, "rename") => swap[t].content \in Docs
  BY <1>1, <1>2, DigestDoc DEF MovesTrue, At
<1>4. SwapStep(t)
  BY DEF Swaps, SwapStep
<1>5. Aside
  <2>1. doc' \in Docs /\ raced' \in SUBSET Writers
    BY <1>1, <1>3, <1>4, SwapStepTyped
  <2> QED BY <1>1, <2>1 DEF Aside, Swaps, Structure, Types
<1>6. PICK s \in Swap :
        /\ swap' = [swap EXCEPT ![t] = s]
        /\ s.expected = swap[t].expected /\ s.content = swap[t].content
        /\ s.at \in {"check", "rename", "renamed", "updated", "unchanged", "conflict"}
        /\ s.at = "updated" => s.seen \in Docs
  BY <1>1, <1>3, <1>4, SwapStepTyped
<1>7. swap[t].at \in {"open", "check", "rename", "renamed"}
  BY <1>1, <1>3, <1>4, SwapStepTyped
<1>8. MovesTrue(k, s)
  BY <1>1, <1>6, <1>7 DEF MovesTrue, Moving
<1>9. Live(t) \/ k.aborted
  BY <1>1 DEF Live
<1> QED BY <1>1, <1>5, <1>6, <1>8, <1>9, AsideKeeps

LEMMA SwapFailsOK ==
  ASSUME Structure, NEW t \in Dreams, SwapFails(t)
  PROVE Structure'
<1>1. Aside
  BY SpendAside DEF SwapFails
<1> QED BY <1>1, Constants, FailKeeps DEF SwapFails, Live, Attended, Staged


LEMMA UndoKeeps ==
  ASSUME Structure, Aside, UNCHANGED row, NEW t \in Dreams, NEW left \in Docs,
         NEW error \in {"retry", "fatal", "aborted"}, task[t].pc = "swap", Undo(t, left, error),
         error = "aborted" => task[t].aborted
  PROVE Structure'
<1> DEFINE k == task[t]
           input == k.run.input
           s == [at |-> "open", expected |-> left, content |-> input, seen |-> None, tries |-> 0]
           j == [k EXCEPT !.pc = "undo", !.error = error]
<1>1. k \in Task /\ RunsTrue(k, row) /\ t \in Writers
  BY DEF Structure, Types, TaskOK, Writers
<1>2. input \in Docs
  BY <1>1 DEF RunsTrue, Attended, Staged
<1>3. swap' = [swap EXCEPT ![t] = s] /\ task' = [task EXCEPT ![t] = j]
  BY <1>1 DEF Undo, StartSwap, Structure, Types
<1>4. s \in Swap
  BY <1>2 DEF Swap, Places
<1>5. /\ j \in Task /\ j.pc = "undo" /\ j.run = k.run /\ j.worker = k.worker /\ j.aborted = k.aborted
      /\ j.error = error
  BY <1>1 DEF Task, PCs
<1>6. RunsTrue(j, row)
  BY <1>1, <1>5 DEF RunsTrue, Attended, Staged
<1>7. MovesTrue(j, s)
  BY <1>2, <1>5 DEF MovesTrue, Moving
<1>8. Live(t) \/ j.aborted
  BY <1>1, <1>5 DEF Live
<1> QED BY <1>3, <1>4, <1>5, <1>6, <1>7, <1>8, AsideKeeps

LEMMA RefuseKeeps ==
  ASSUME Structure, Aside, NEW t \in Dreams, NEW error \in {"retry", "fatal"},
         Live(t), task[t].pc = "swap", Refuse(t, error)
  PROVE Structure'
<1>1. CASE At(t, "updated")
  <2>1. swap[t].seen \in Docs
    BY <1>1 DEF Structure, SwapOK, MovesTrue, At
  <2> QED BY <1>1, <2>1, UndoKeeps DEF Refuse
<1>2. CASE ~At(t, "updated")
  BY <1>2, Constants, FailKeeps DEF Refuse, Attended, Staged
<1> QED BY <1>1, <1>2

LEMMA CommitThrowsOK ==
  ASSUME Structure, NEW t \in Dreams, CommitThrows(t)
  PROVE Structure'
<1>1. Aside
  BY SpendAside DEF CommitThrows
<1> QED BY <1>1, RefuseKeeps DEF CommitThrows, Live

\* The row is at the commit's mercy: nobody else can have consolidated it.
LEMMA CommitCases ==
  ASSUME Structure, NEW t \in Dreams, Commits(t)
  PROVE /\ Live(t) /\ task[t].pc = "swap" /\ row.status = "generated" /\ task[t].run.input = row.input
        /\ task[t] \in Task /\ row.input \in Docs /\ row.worker = task[t].worker
        /\ \/ UNCHANGED <<longTerm, recorded>> /\ \E error \in {"retry", "fatal"} : Refuse(t, error)
           \/ /\ row' = [row EXCEPT !.status = "consolidated",
                                    !.result = IF swap[t].at \in {"updated", "unchanged"} THEN "applied" ELSE "kept"]
              /\ longTerm = task[t].snapshot.longTerm /\ longTerm' = longTerm \cup {Dreamt}
              /\ recorded' = IF swap[t].at \in {"updated", "unchanged"}
                               THEN recorded \cup {Covered(task[t].run.input)} ELSE recorded
              /\ task' = [task EXCEPT ![t] = [task[t] EXCEPT !.pc = "complete", !.snapshot = None]]
              /\ swap' = [swap EXCEPT ![t] = Idle]
<1>1. /\ task[t] \in Task /\ task[t].pc = "swap" /\ ~task[t].aborted /\ RunsTrue(task[t], row)
      /\ Commit(t)
  BY DEF Structure, Types, TaskOK, Commits
<1>2. /\ row.status = "generated" /\ task[t].run.input = row.input /\ row.input \in Docs
      /\ row.worker = task[t].worker
  BY <1>1 DEF RunsTrue, Attended, Staged
<1>3. Live(t)
  BY <1>1 DEF Live
<1>4. CASE ~Owns(t, {"generated"})
  <2>1. UNCHANGED <<longTerm, recorded>> /\ Refuse(t, "retry")
    BY <1>1, <1>2, <1>4 DEF Commit
  <2> QED BY <1>1, <1>2, <1>3, <2>1
<1>5. CASE Owns(t, {"generated"}) /\ ~SnapshotHolds(t)
  <2>1. UNCHANGED <<longTerm, recorded>> /\ Refuse(t, "fatal")
    BY <1>1, <1>2, <1>5 DEF Commit
  <2> QED BY <1>1, <1>2, <1>3, <2>1
<1>6. CASE Owns(t, {"generated"}) /\ SnapshotHolds(t)
  <2>1. /\ row' = [row EXCEPT !.status = "consolidated",
                              !.result = IF swap[t].at \in {"updated", "unchanged"} THEN "applied" ELSE "kept"]
        /\ longTerm' = task[t].snapshot.longTerm \cup {Dreamt}
        /\ recorded' = IF swap[t].at \in {"updated", "unchanged"}
                         THEN recorded \cup {Covered(task[t].run.input)} ELSE recorded
        /\ task' = [task EXCEPT ![t].pc = "complete", ![t].snapshot = None]
        /\ swap' = [swap EXCEPT ![t] = Idle]
    BY <1>1, <1>2, <1>6 DEF Commit
  <2>2. task' = [task EXCEPT ![t] = [task[t] EXCEPT !.pc = "complete", !.snapshot = None]]
    BY <2>1 DEF Structure, Types
  <2> QED BY <1>1, <1>2, <1>3, <1>6, <2>1, <2>2 DEF SnapshotHolds
<1> QED BY <1>4, <1>5, <1>6

LEMMA CommitsOK ==
  ASSUME Structure, NEW t \in Dreams, Commits(t)
  PROVE Structure'
<1> DEFINE k == task[t]
           result == IF swap[t].at \in {"updated", "unchanged"} THEN "applied" ELSE "kept"
           r == [row EXCEPT !.status = "consolidated", !.result = result]
           j == [k EXCEPT !.pc = "complete", !.snapshot = None]
<1>1. /\ Live(t) /\ k.pc = "swap" /\ row.status = "generated" /\ k.run.input = row.input
      /\ k \in Task /\ row.input \in Docs /\ RunsTrue(k, row)
  BY CommitCases DEF Structure, TaskOK
<1>2. UNCHANGED <<doc, raced, Others, bound, budget, claims, torn>>
  BY DEF Commits
<1>3. ASSUME UNCHANGED <<longTerm, recorded>>, NEW error \in {"retry", "fatal"}, Refuse(t, error)
      PROVE Structure'
  <2>1. Aside
    BY <1>2, <1>3 DEF Aside, Structure, Types
  <2> QED BY <1>1, <1>3, <2>1, RefuseKeeps
<1>4. ASSUME row' = r, longTerm' = longTerm \cup {Dreamt},
             recorded' = IF swap[t].at \in {"updated", "unchanged"}
                           THEN recorded \cup {Covered(k.run.input)} ELSE recorded,
             task' = [task EXCEPT ![t] = j], swap' = [swap EXCEPT ![t] = Idle]
      PROVE Structure'
  <2>1. row \in Row /\ RowOK
    BY DEF Structure, Types
  <2>2. /\ r \in Row /\ r.status = "consolidated" /\ r.result = result /\ r.worker = row.worker
        /\ r.leased = row.leased /\ r.attempts = row.attempts /\ r.input = row.input
        /\ r.output = row.output /\ r.retry = row.retry
    BY <2>1 DEF Row, Active
  <2>3. /\ j \in Task /\ j.pc = "complete" /\ j.run = k.run /\ j.worker = k.worker
        /\ j.aborted = k.aborted
    BY <1>1 DEF Task, PCs
  <2>4. Covered(k.run.input) \in SUBSET Notes
    BY <1>1 DEF Docs, Items, Covered
  <2>5. result \in {"applied", "kept"} /\ (result = "applied" => Covered(row.input) \in recorded')
    BY <1>1, <1>4
  <2>6. recorded' \in SUBSET SUBSET Notes /\ longTerm' \in SUBSET (Records \cup {Dreamt})
    BY <1>4, <2>4 DEF Structure, Types
  <2> HIDE DEF j, r, result
  <2>7. RunsTrue(j, row') /\ MovesTrue(j, Idle)
    BY <1>1, <1>4, <2>2, <2>3, Constants DEF RunsTrue, MovesTrue, Attended, Staged
  <2>8. RowOK'
    BY <1>1, <1>2, <1>4, <2>1, <2>2, <2>5 DEF RowOK, Active
  <2>9. OneTask(t, j, Idle)
    BY <1>2, <1>4, <2>2, <2>3, <2>6, Constants DEF OneTask, Others, Structure, Types
  <2> QED BY <1>1, <2>7, <2>8, <2>9, OneTaskKeeps
<1> QED BY <1>3, <1>4, CommitCases

LEMMA UndoneOK ==
  ASSUME Structure, NEW t \in Dreams, Undone(t)
  PROVE Structure'
<1>1. task[t] \in Task /\ task[t].pc = "undo" /\ RunsTrue(task[t], row)
  BY DEF Structure, Types, Undone, TaskOK
<1>2. Aside /\ swap' = [swap EXCEPT ![t] = Idle]
  BY DEF Undone, Aside, Structure, Types
<1>3. CASE task[t].aborted
  <2>1. task' = [task EXCEPT ![t] = NoTask] /\ UNCHANGED row
    BY <1>3 DEF Undone
  <2>2. RunsTrue(NoTask, row) /\ MovesTrue(NoTask, Idle)
    BY Constants DEF RunsTrue, MovesTrue, Attended, Staged
  <2> QED BY <1>2, <2>1, <2>2, Constants, AsideKeeps
<1>4. CASE ~task[t].aborted
  <2>1. task[t].error \in {"retry", "fatal"}
    BY <1>1, <1>4 DEF RunsTrue, Attended, Staged
  <2>2. \E error \in {"retry", "fatal"} : Fail(t, error)
    BY <1>4, <2>1 DEF Undone
  <2> QED BY <1>1, <1>2, <1>4, <2>2, Constants, FailKeeps DEF Live, Attended, Staged
<1> QED BY <1>3, <1>4


LEMMA CompletesOK ==
  ASSUME Structure, NEW t \in Dreams, Completes(t)
  PROVE Structure'
<1> DEFINE k == Closing(t)
<1>1. /\ row \in Row /\ RowOK /\ task[t].aborted \in BOOLEAN /\ Live(t)
      /\ swap[t] \in Swap /\ swap[t].at = "idle" /\ swap' = [swap EXCEPT ![t] = swap[t]]
  BY DEF Structure, Types, Completes, SwapOK, MovesTrue, Live, memoryVars, Writers, Task
<1>2. k \in Task /\ k.pc = "closing"
  BY <1>1, Constants DEF Closing, NoTask, Task, PCs
<1>3. Aside /\ task' = [task EXCEPT ![t] = k]
  BY DEF Completes, Aside, Structure, Types, memoryVars
<1>4. RunsTrue(k, row') /\ MovesTrue(k, swap[t])
  BY <1>1, <1>2 DEF RunsTrue, MovesTrue, Attended, Staged
<1>5. row' \in Row /\ RowOK'
  <2>1. CASE row' = row
    BY <1>1, <1>3, <2>1 DEF RowOK, Aside
  <2>2. CASE row.status = "consolidated" /\ row' = [row EXCEPT !.status = "completed", !.worker = 0, !.leased = FALSE]
    <3>1. /\ row' \in Row /\ row'.status = "completed" /\ row'.worker = 0 /\ ~row'.leased
          /\ row'.attempts = row.attempts /\ row'.input = row.input /\ row'.result = row.result
          /\ row'.output = row.output /\ row'.retry = row.retry
      BY <1>1, <2>2 DEF Row
    <3> QED BY <1>1, <1>3, <2>2, <3>1 DEF RowOK, Active, Aside
  <2> QED BY <2>1, <2>2 DEF Completes, Complete, Owns
<1>6. OneTask(t, k, swap[t])
  BY <1>1, <1>2, <1>3, <1>5 DEF OneTask, Aside, Others, Structure, Types
<1> QED BY <1>1, <1>4, <1>5, <1>6, OneTaskKeeps

LEMMA ClosesOK ==
  ASSUME Structure, NEW t \in Dreams, Closes(t)
  PROVE Structure'
<1>1. swap[t] \in Swap /\ swap[t].at = "idle" /\ swap' = [swap EXCEPT ![t] = swap[t]]
  BY DEF Structure, Types, Closes, SwapOK, MovesTrue, memoryVars, Writers
<1>2. Aside
  BY DEF Closes, Aside, Structure, Types, memoryVars
<1>3. RunsTrue(NoTask, row) /\ MovesTrue(NoTask, swap[t])
  BY <1>1, Constants DEF RunsTrue, MovesTrue, Attended, Staged
<1> QED BY <1>1, <1>2, <1>3, Constants, AsideKeeps DEF Closes

LEMMA DropOK ==
  ASSUME Structure, NEW t \in Dreams, Drop(t)
  PROVE Structure'
<1>1. Aside /\ UNCHANGED row
  BY DEF Drop, Aside, Structure, Types
<1>2. CASE task[t].pc = "swap" /\ swap[t].at \in {"renamed", "updated"}
  <2> DEFINE left == IF At(t, "updated") THEN swap[t].seen ELSE swap[t].content
  <2>1. MovesTrue(task[t], swap[t]) /\ RunsTrue(task[t], row)
    BY DEF Structure, SwapOK, TaskOK
  <2>2. left \in Docs
    BY <1>2, <2>1, DigestDoc DEF MovesTrue, RunsTrue, At, Attended, Staged
  <2>3. Undo(t, left, "aborted") /\ task[t].aborted
    BY <1>2 DEF Drop
  <2> QED BY <1>1, <1>2, <2>2, <2>3, UndoKeeps
<1>3. CASE ~(task[t].pc = "swap" /\ swap[t].at \in {"renamed", "updated"})
  <2>1. task' = [task EXCEPT ![t] = NoTask] /\ swap' = [swap EXCEPT ![t] = Idle]
    BY <1>3 DEF Drop
  <2>2. RunsTrue(NoTask, row) /\ MovesTrue(NoTask, Idle)
    BY Constants DEF RunsTrue, MovesTrue, Attended, Staged
  <2> QED BY <1>1, <2>1, <2>2, Constants, AsideKeeps
<1> QED BY <1>2, <1>3

LEMMA DeadlineOK ==
  ASSUME Structure, NEW t \in Dreams, Deadline(t)
  PROVE Structure'
<1> DEFINE k == [task[t] EXCEPT !.aborted = TRUE]
<1>1. /\ task[t] \in Task /\ RunsTrue(task[t], row) /\ MovesTrue(task[t], swap[t]) /\ swap[t] \in Swap
      /\ task[t].pc # "idle"
  BY DEF Structure, Types, TaskOK, SwapOK, Deadline, Writers
<1>2. /\ task' = [task EXCEPT ![t] = k] /\ swap' = [swap EXCEPT ![t] = swap[t]] /\ UNCHANGED row
  BY <1>1 DEF Deadline, Structure, Types, memoryVars
<1>3. /\ k \in Task /\ k.pc = task[t].pc /\ k.run = task[t].run /\ k.worker = task[t].worker
  BY <1>1 DEF Task
<1>4. k.aborted
  BY <1>1 DEF Task
<1>5. RunsTrue(k, row)
  BY <1>1, <1>3, <1>4 DEF RunsTrue
<1>6. MovesTrue(k, swap[t])
  BY <1>1, <1>3 DEF MovesTrue
<1>7. Aside
  BY SpendAside DEF Deadline, memoryVars
<1> QED BY <1>1, <1>2, <1>3, <1>4, <1>5, <1>6, <1>7, AsideKeeps

\* Steps of the world around the tasks, which leave the swaps alone.
LEMMA WorldKeeps ==
  ASSUME Structure, Types', RowOK', UNCHANGED <<swap, task>>, stopped' => stopped,
         row'.status = row.status /\ row'.input = row.input /\ row'.attempts = row.attempts
           /\ row'.worker = row.worker
  PROVE Structure'
<1>1. ASSUME NEW t \in Dreams PROVE TaskOK(t)' /\ SwapOK(t)'
  <2>1. TaskOK(t) /\ SwapOK(t)
    BY DEF Structure
  <2>2. RunsTrue(task[t], row')
    BY <2>1 DEF TaskOK, RunsTrue
  <2>3. TaskOK(t)'
    BY <2>1, <2>2 DEF TaskOK, Live
  <2> QED BY <2>1, <2>3 DEF SwapOK
<1>2. \A n \in Notes : NoteOK(n)'
  BY DEF Structure, NoteOK
<1> QED BY <1>1, <1>2 DEF Structure

LEMMA StartOK == ASSUME Structure, Start PROVE Structure'
<1>1. Types'
  <2>1. life' \in Nat \ {0}
    BY DEF Structure, Types, Start
  <2>2. stopped' \in BOOLEAN
    BY DEF Start
  <2> QED BY <2>1, <2>2 DEF Structure, Types, Start, memoryVars
<1>2. RowOK'
  BY DEF Structure, RowOK, Start
<1> QED BY <1>1, <1>2, WorldKeeps DEF Start, memoryVars

LEMMA LeaseLapsesOK == ASSUME Structure, LeaseLapses PROVE Structure'
<1>1. row \in Row /\ RowOK
  BY DEF Structure, Types
<1>2. /\ row' \in Row /\ row'.status = row.status /\ row'.worker = row.worker
      /\ row'.attempts = row.attempts /\ row'.input = row.input /\ row'.result = row.result
      /\ row'.output = row.output /\ row'.retry = row.retry
  BY <1>1 DEF LeaseLapses, Row
<1>3. ~row'.leased
  BY <1>1 DEF LeaseLapses, Row
<1>4. bound' \in Bounds /\ budget' \in 0..bound'.faults
  <2>1. CASE Spend
    BY <2>1, SpendTyped DEF Structure
  <2>2. CASE UNCHANGED <<bound, budget>>
    BY <2>2 DEF Structure, Types
  <2> QED BY <2>1, <2>2 DEF LeaseLapses
<1>5. Types'
  BY <1>2, <1>4 DEF Structure, Types, LeaseLapses, memoryVars, Others
<1>6. RowOK'
  <2>1. UNCHANGED <<longTerm, recorded, claims>>
    BY DEF LeaseLapses
  <2> QED BY <1>1, <1>2, <1>3, <2>1 DEF RowOK, NoRow, LeaseLapses
<1> QED BY <1>2, <1>5, <1>6, WorldKeeps DEF LeaseLapses, memoryVars, Others

LEMMA RetryDueOK == ASSUME Structure, RetryDue PROVE Structure'
<1>1. row \in Row /\ RowOK /\ row.retry = "waiting"
  BY DEF Structure, Types, RetryDue
<1>2. /\ row' \in Row /\ row'.status = row.status /\ row'.worker = row.worker
      /\ row'.attempts = row.attempts /\ row'.input = row.input /\ row'.result = row.result
      /\ row'.output = row.output /\ row'.retry = "due" /\ row'.leased = row.leased
  BY <1>1 DEF RetryDue, Row
<1>3. Types'
  BY <1>2 DEF Structure, Types, RetryDue, memoryVars, Others
<1>4. RowOK'
  BY <1>1, <1>2 DEF RowOK, RetryDue
<1> QED BY <1>2, <1>3, <1>4, WorldKeeps DEF RetryDue, memoryVars, Others

LEMMA EditOK == ASSUME Structure, NEW r \in Records, EditLongTerm(r) PROVE Structure'
<1>1. longTerm' \in SUBSET (Records \cup {Dreamt}) /\ (Dreamt \in longTerm => Dreamt \in longTerm')
  BY DreamAssumption DEF EditLongTerm, Structure, Types, Dreamt
<1>2. Types'
  BY <1>1 DEF Structure, Types, EditLongTerm, memoryVars
<1>3. RowOK'
  BY <1>1 DEF Structure, RowOK, EditLongTerm
<1> QED BY <1>2, <1>3, WorldKeeps DEF EditLongTerm, memoryVars

LEMMA StopOK == ASSUME Structure, Stop PROVE Structure'
<1>1. /\ \A t \in Dreams : task[t] \in Task /\ task'[t] = [task[t] EXCEPT !.aborted = task[t].pc # "idle"]
      /\ UNCHANGED <<memoryVars, row, longTerm, life, forces, edits, bound, budget, claims, recorded, torn>>
  BY DEF Stop, Structure, Types
<1>2. ASSUME NEW t \in Dreams
      PROVE /\ task'[t] \in Task /\ task'[t].pc = task[t].pc /\ task'[t].run = task[t].run
            /\ task'[t].worker = task[t].worker
            /\ task'[t].aborted = (task[t].pc # "idle")
            /\ task[t].pc = "idle" => task'[t] = NoTask
  <2>1. /\ task'[t] \in Task /\ task'[t].pc = task[t].pc /\ task'[t].run = task[t].run
        /\ task'[t].worker = task[t].worker
    BY <1>1 DEF Task
  <2>2. task'[t].aborted = (task[t].pc # "idle")
    BY <1>1 DEF Task
  <2>3. ASSUME task[t].pc = "idle" PROVE task'[t] = NoTask
    <3>1. task[t] = NoTask
      BY <2>3 DEF Structure, TaskOK, RunsTrue
    <3>2. task'[t] = [NoTask EXCEPT !.aborted = FALSE]
      BY <1>1, <2>3, <3>1
    <3> QED BY <3>2 DEF NoTask
  <2> QED BY <2>1, <2>2, <2>3
<1>3. Types'
  <2>1. task' \in [Dreams -> Task]
    BY <1>2 DEF Stop
  <2> QED BY <1>1, <2>1 DEF Structure, Types, memoryVars, Stop
<1>4. RowOK'
  BY <1>1 DEF Structure, RowOK
<1>5. ASSUME NEW t \in Dreams PROVE TaskOK(t)' /\ SwapOK(t)'
  <2>1. TaskOK(t) /\ SwapOK(t) /\ row' = row /\ swap' = swap
    BY <1>1 DEF Structure, memoryVars
  <2>2. RunsTrue(task'[t], row)
    BY <1>2, <2>1 DEF TaskOK, RunsTrue, Attended, Staged
  <2>3. ~Live(t)'
    BY <1>2 DEF Live
  <2>4. TaskOK(t)'
    BY <2>1, <2>2, <2>3 DEF TaskOK
  <2>5. MovesTrue(task'[t], swap[t])
    BY <1>2, <2>1 DEF SwapOK, MovesTrue
  <2> QED BY <2>1, <2>4, <2>5 DEF SwapOK
<1>6. \A n \in Notes : NoteOK(n)'
  BY <1>1 DEF Structure, NoteOK, memoryVars
<1> QED BY <1>3, <1>4, <1>5, <1>6 DEF Structure

LEMMA CrashOK == ASSUME Structure, Crash PROVE Structure'
<1>1. \A w \in Writers : swap'[w] = IF swap[w].at \in {"done", "failed"} THEN swap[w] ELSE Idle
  BY DEF Crash
<1>2. Types'
  <2>1. bound' \in Bounds /\ budget' \in 0..bound'.faults
    BY SpendTyped DEF Structure, Crash
  <2>2. swap' \in [Writers -> Swap] /\ task' \in [Dreams -> Task]
    BY <1>1, Constants DEF Crash, Structure, Types
  <2>3. torn' \in BOOLEAN
    BY DEF Crash
  <2>4. life' \in Nat \ {0}
    BY DEF Crash, Structure, Types
  <2>5. stopped' \in BOOLEAN
    BY DEF Crash
  <2> QED BY <2>1, <2>2, <2>3, <2>4, <2>5 DEF Crash, Structure, Types
<1>3. RowOK'
  BY DEF Structure, RowOK, Crash
<1>4. ASSUME NEW t \in Dreams PROVE TaskOK(t)' /\ SwapOK(t)'
  <2>1. task'[t] = NoTask
    BY DEF Crash
  <2>2. swap'[t] = Idle
    <3>1. swap[t].at \notin {"done", "failed"}
      BY DEF Structure, SwapOK, MovesTrue, Moving
    <3> QED BY <1>1, <3>1 DEF Writers
  <2>3. RunsTrue(NoTask, row') /\ MovesTrue(NoTask, Idle)
    BY Constants DEF RunsTrue, MovesTrue, Attended, Staged
  <2>4. ~Live(t)'
    BY <2>1, Constants DEF Live
  <2> QED BY <2>1, <2>2, <2>3, <2>4 DEF TaskOK, SwapOK
<1>5. ASSUME NEW n \in Notes PROVE NoteOK(n)'
  BY <1>1, Constants DEF NoteOK, Writers, Moving, Idle
<1> QED BY <1>2, <1>3, <1>4, <1>5 DEF Structure


NoteStep(n, s) ==
  /\ swap' = [swap EXCEPT ![n] = s]
  /\ s.at \in Moving => s.expected \in Docs /\ s.content = s.expected \cup {NoteItem(n)}
  /\ s.at = "idle" => s.tries = 0

LEMMA NoteItemDoc ==
  ASSUME NEW n \in Notes PROVE NoteItem(n) \in Items /\ NoteItem(n).covers = {n} /\ NoteItem(n).kind = "note"
BY DEF NoteItem, Items

LEMMA NoteStepKeeps ==
  ASSUME Structure, NEW n \in Notes, NEW s \in Swap, NoteStep(n, s), doc' \in Docs, raced' \in SUBSET Writers,
         UNCHANGED <<row, task, longTerm, Others, bound, budget, claims, recorded, torn>>
  PROVE Structure'
<1>1. /\ n \in Writers /\ Dreams \subseteq Writers /\ Notes \subseteq Writers /\ n \notin Dreams
      /\ swap'[n] = s /\ \A w \in Writers \ {n} : swap'[w] = swap[w]
  BY WritersAssumption DEF Writers, Structure, Types, NoteStep
<1>2. Types'
  BY <1>1 DEF Structure, Types, Others, NoteStep
<1>3. RowOK'
  BY DEF Structure, RowOK
<1>4. ASSUME NEW t \in Dreams PROVE TaskOK(t)' /\ SwapOK(t)'
  BY <1>1 DEF Structure, TaskOK, SwapOK, Live, Others
<1>5. ASSUME NEW m \in Notes PROVE NoteOK(m)'
  <2>1. CASE m = n
    BY <1>1, <2>1 DEF NoteOK, NoteStep
  <2>2. CASE m # n
    <3>1. NoteOK(m) /\ swap'[m] = swap[m]
      BY <1>1, <2>2 DEF Structure
    <3> QED BY <3>1 DEF NoteOK
  <2> QED BY <2>1, <2>2
<1> QED BY <1>2, <1>3, <1>4, <1>5 DEF Structure

LEMMA AppendsOK == ASSUME Structure, NEW n \in Notes, Appends(n) PROVE Structure'
<1>1. /\ UNCHANGED <<row, task, longTerm, Others, bound, budget, claims, recorded, torn>>
      /\ swap[n] \in Swap /\ doc \in Docs /\ raced \in SUBSET Writers /\ n \in Writers /\ NoteOK(n)
  BY DEF Appends, Structure, Types, Writers
<1>2. CASE SwapStep(n)
  <2>1. At(n, "rename") => swap[n].content \in Docs
    BY <1>1, NoteItemDoc DEF NoteOK, At, Moving, Docs
  <2>2. doc' \in Docs /\ raced' \in SUBSET Writers /\ swap[n].at \in {"open", "check", "rename", "renamed"}
    BY <1>1, <1>2, <2>1, SwapStepTyped DEF Structure
  <2>3. PICK s \in Swap :
          /\ swap' = [swap EXCEPT ![n] = s]
          /\ s.expected = swap[n].expected /\ s.content = swap[n].content
          /\ s.at # "idle"
    BY <1>1, <1>2, <2>1, SwapStepTyped DEF Structure
  <2>4. NoteStep(n, s)
    BY <1>1, <2>2, <2>3 DEF NoteStep, NoteOK, Moving
  <2> QED BY <1>1, <2>2, <2>4, NoteStepKeeps
<1>3. CASE AppendEnds(n)
  <2> DEFINE s == [Idle EXCEPT !.at = "done"]
  <2>1. swap' = [swap EXCEPT ![n] = s] /\ UNCHANGED <<doc, raced>>
    BY <1>3 DEF AppendEnds
  <2>2. s \in Swap /\ s.at = "done"
    BY Constants DEF Idle, Swap, Places
  <2>3. NoteStep(n, s)
    BY <2>1, <2>2 DEF NoteStep, Moving
  <2> QED BY <1>1, <2>1, <2>2, <2>3, NoteStepKeeps
<1>4. CASE AppendRead(n)
  <2>1. UNCHANGED <<doc, raced>>
    BY <1>4 DEF AppendRead
  <2>2. ASSUME NEW place \in {"failed", "done"}, Goto(n, place)
        PROVE Structure'
    <3> DEFINE s == [swap[n] EXCEPT !.at = place]
    <3>1. swap' = [swap EXCEPT ![n] = s] /\ s \in Swap /\ s.at = place
      BY <1>1, <2>2 DEF Goto, Swap, Places
    <3>2. NoteStep(n, s)
      BY <3>1 DEF NoteStep, Moving
    <3> QED BY <1>1, <2>1, <3>1, <3>2, NoteStepKeeps
  <2>3. ASSUME StartSwap(n, doc, doc \cup {NoteItem(n)}, swap[n].tries + 1), swap[n].tries # 2 \/ swap[n].at # "conflict"
        PROVE Structure'
    <3> DEFINE s == [at |-> "open", expected |-> doc, content |-> doc \cup {NoteItem(n)}, seen |-> None,
                     tries |-> swap[n].tries + 1]
    <3>1. swap' = [swap EXCEPT ![n] = s]
      BY <2>3 DEF StartSwap
    <3>2. swap[n].tries + 1 \in 0..2
      BY <1>1, <1>4, <2>3 DEF AppendRead, NoteOK, Swap
    <3>3. s \in Swap
      BY <1>1, <3>2, NoteItemDoc DEF Swap, Places, Docs
    <3>4. NoteStep(n, s)
      BY <1>1, <3>1 DEF NoteStep
    <3> QED BY <1>1, <2>1, <3>3, <3>4, NoteStepKeeps
  <2> QED BY <1>4, <2>2, <2>3 DEF AppendRead
<1> QED BY <1>2, <1>3, <1>4 DEF Appends, Append, SwapStep

-------------------------------------------------------------------------------
(* The row and what no step may do *)

LEMMA StructureNext ==
  ASSUME Structure, [Next]_vars PROVE Structure'
<1>1. CASE Tick \/ ForceDream
  BY <1>1, LaunchOK DEF Tick, ForceDream
<1>2. CASE Stop \/ Start \/ Crash \/ LeaseLapses \/ RetryDue
  BY <1>2, StopOK, StartOK, CrashOK, LeaseLapsesOK, RetryDueOK
<1>3. ASSUME NEW t \in Dreams, TaskStep(t) PROVE Structure'
  BY <1>3, CapturedOK, AcceptedOK, GeneratedOK, LoggedOK, RecapturedOK, SwapsOK, CommitsOK, UndoneOK,
     CompletesOK, ClosesOK, DropOK DEF TaskStep
<1>4. ASSUME NEW t \in Dreams, Fault(t) PROVE Structure'
  <2>1. CASE CaptureFails(t) \/ SwapFails(t) \/ CommitThrows(t) \/ Deadline(t)
    BY <2>1, CaptureFailsOK, SwapFailsOK, CommitThrowsOK, DeadlineOK
  <2>2. CASE NoticeFails(t)
    BY <2>2, EarlyFailureOK DEF NoticeFails, EarlyFailure
  <2>3. CASE ModelFails(t)
    BY <2>3, EarlyFailureOK DEF ModelFails, EarlyFailure
  <2>4. CASE OutputUnreadable(t)
    BY <2>4, EarlyFailureOK DEF OutputUnreadable, EarlyFailure
  <2> QED BY <1>4, <2>1, <2>2, <2>3, <2>4 DEF Fault
<1>5. ASSUME NEW r \in Records, EditLongTerm(r) PROVE Structure'
  BY <1>5, EditOK
<1>6. ASSUME NEW n \in Notes, Appends(n) PROVE Structure'
  BY <1>6, AppendsOK
<1>7. CASE UNCHANGED vars
  BY <1>7 DEF vars, Structure, Types, RowOK, TaskOK, SwapOK, NoteOK, Live
<1> QED BY <1>1, <1>2, <1>3, <1>4, <1>5, <1>6, <1>7 DEF Next

LEMMA StructureHolds == Spec => []Structure
BY InitOK, StructureNext, PTL DEF Spec


LEMMA SettledFacts ==
  ASSUME Structure, Settled
  PROVE row.status \in {"completed", "failed"} /\ row.status \notin Active /\ ~row.leased /\ row.retry = "none"
BY DEF Structure, RowOK, Settled, Active, Types, Row

LEMMA FailIsUnheard ==
  ASSUME Structure, Settled, NEW t \in Dreams, NEW error, Fail(t, error)
  PROVE row' = row
BY SettledFacts DEF Fail, Owns, Active

LEMMA RefuseIsUnheard ==
  ASSUME Structure, Settled, NEW t \in Dreams, NEW error, Refuse(t, error)
  PROVE row' = row
BY FailIsUnheard DEF Refuse

Reopens == row'.status \in Active /\ \E t \in Dreams : task'[t].forced /\ task'[t].run = row'

LEMMA LaunchReopens ==
  ASSUME Structure, Settled, NEW t \in Dreams, NEW forced \in BOOLEAN, Launch(t, forced)
  PROVE row' = row \/ Reopens
<1> DEFINE k == [NoTask EXCEPT !.worker = life, !.forced = forced]
           captures == row.status = "none" \/ (forced /\ row.status = "completed")
           claimed == [k EXCEPT !.run = Claimed(life)]
<1>1. row.status \in {"completed", "failed"} /\ ~row.leased /\ row.retry = "none" /\ row.status \notin Active
  BY SettledFacts
<1>2. CASE captures
  BY <1>2 DEF Launch
<1>3. CASE ~captures
  <2>1. forced /\ row.status = "failed"
    BY <1>1, <1>3 DEF Launch, Claimable
  <2>2. ~Exhausted(forced)
    BY <2>1 DEF Exhausted
  <2>3. row' = Claimed(life) /\ task' = [task EXCEPT ![t] = [claimed EXCEPT !.pc = "accept"]]
    BY <1>3, <2>1, <2>2 DEF Launch
  <2>4. Claimed(life) \in Row /\ Claimed(life).status \in Active /\ life \in Nat
    BY <2>1, ClaimedRow DEF Structure, Types
  <2>5. task'[t] = [claimed EXCEPT !.pc = "accept"]
    BY <2>3 DEF Structure, Types
  <2>6. NoTask \in Task
    BY Constants
  <2>7. [claimed EXCEPT !.pc = "accept"].run = Claimed(life)
    BY <2>6 DEF Task
  <2>8. [claimed EXCEPT !.pc = "accept"].forced = forced
    BY <2>6 DEF Task
  <2> QED BY <2>1, <2>3, <2>4, <2>5, <2>7, <2>8 DEF Reopens
<1> QED BY <1>2, <1>3

LEMMA CapturedReopens ==
  ASSUME Structure, Settled, NEW t \in Dreams, Captured(t)
  PROVE row' = row \/ Reopens
<1> DEFINE k == task[t]
           j == [k EXCEPT !.pc = IF k.forced THEN "accept" ELSE "model",
                          !.run = FreshRow(k.worker), !.snapshot = Snapshot]
<1>1. k \in Task /\ row.status # "none"
  BY SettledFacts DEF Structure, Types
<1>2. CASE ~(k.forced /\ row.status = "completed")
  BY <1>1, <1>2 DEF Captured
<1>3. CASE k.forced /\ row.status = "completed"
  <2>1. row' = FreshRow(k.worker) /\ task' = [task EXCEPT ![t] = j]
    BY <1>3 DEF Captured
  <2>2. task'[t] = j
    BY <2>1 DEF Structure, Types
  <2>3. j.run = FreshRow(k.worker)
    BY <1>1 DEF Task
  <2>4. j.forced
    BY <1>1, <1>3 DEF Task
  <2>5. FreshRow(k.worker).status \in Active
    BY DEF FreshRow, NoRow, Active
  <2> QED BY <2>1, <2>2, <2>3, <2>4, <2>5 DEF Reopens
<1> QED BY <1>2, <1>3

LEMMA OutcomeStep ==
  ASSUME Structure, Settled, [Next]_vars PROVE row' = row \/ Reopens
<1>1. CASE Tick \/ ForceDream
  BY <1>1, LaunchReopens DEF Tick, ForceDream
<1>2. CASE Stop \/ Start \/ Crash \/ LeaseLapses \/ RetryDue
  BY <1>2, SettledFacts DEF Stop, Start, Crash, LeaseLapses, RetryDue
<1>3. ASSUME NEW t \in Dreams, TaskStep(t) PROVE row' = row \/ Reopens
  <2>1. CASE Captured(t)
    BY <2>1, CapturedReopens
  <2>2. CASE \E output \in {"keep", "compress"} : Generated(t, output)
    BY <2>2, FailIsUnheard, SettledFacts DEF Generated, Owns, Active
  <2>3. CASE Commits(t)
    BY <2>3, CommitCases, SettledFacts DEF Active
  <2>4. CASE Undone(t)
    BY <2>4, FailIsUnheard DEF Undone
  <2>5. CASE Completes(t)
    BY <2>5, SettledFacts DEF Completes, Complete, Owns
  <2>6. CASE Accepted(t) \/ Logged(t) \/ Recaptured(t) \/ Swaps(t) \/ Closes(t) \/ Drop(t)
    BY <2>6 DEF Accepted, Logged, Recaptured, Swaps, Closes, Drop
  <2> QED BY <1>3, <2>1, <2>2, <2>3, <2>4, <2>5, <2>6 DEF TaskStep
<1>4. ASSUME NEW t \in Dreams, Fault(t) PROVE row' = row
  BY <1>4, FailIsUnheard, RefuseIsUnheard
  DEF Fault, CaptureFails, NoticeFails, ModelFails, OutputUnreadable, SwapFails, CommitThrows, Deadline
<1>5. CASE (\E r \in Records : EditLongTerm(r)) \/ (\E n \in Notes : Appends(n)) \/ UNCHANGED vars
  BY <1>5 DEF EditLongTerm, Appends, vars
<1> QED BY <1>1, <1>2, <1>3, <1>4, <1>5 DEF Next


LEMMA CancelledStep ==
  ASSUME Structure, [Next]_vars, NEW t \in Dreams, task[t].aborted, task'[t] # task[t]
  PROVE row' = row /\ longTerm' = longTerm
<1>1. task \in [Dreams -> Task] /\ task[t].pc # "idle"
  BY Constants DEF Structure, Types, TaskOK, RunsTrue
<1>2. CASE Tick \/ ForceDream
  <2>1. PICK u \in Dreams, forced \in BOOLEAN : Launch(u, forced)
    BY <1>2 DEF Tick, ForceDream
  <2>2. u # t
    BY <1>1, <2>1 DEF Launch
  <2> DEFINE captures == row.status = "none" \/ (forced /\ row.status = "completed")
  <2>3. CASE captures \/ Exhausted(forced)
    BY <1>1, <2>1, <2>2, <2>3 DEF Launch
  <2>4. CASE ~captures /\ ~Exhausted(forced) /\ forced
    BY <1>1, <2>1, <2>2, <2>4 DEF Launch
  <2>5. CASE ~captures /\ ~Exhausted(forced) /\ ~forced
    <3>1. Enter(u, [[NoTask EXCEPT !.worker = life, !.forced = forced] EXCEPT !.run = Claimed(life)])
      BY <2>1, <2>5 DEF Launch
    <3>2. row.status \in Active \cup {"failed"}
      BY <2>1, <2>5 DEF Launch, Claimable
    <3>3. [[NoTask EXCEPT !.worker = life, !.forced = forced] EXCEPT !.run = Claimed(life)].run = Claimed(life)
      BY Constants DEF Task
    <3>4. Claimed(life).status \in Active
      BY <3>2, ClaimedRow
    <3> QED BY <1>1, <2>2, <3>1, <3>3, <3>4 DEF Enter, Active
  <2> QED BY <2>3, <2>4, <2>5
<1>3. CASE Stop \/ Start \/ Crash \/ LeaseLapses \/ RetryDue
  BY <1>3 DEF Stop, Start, Crash, LeaseLapses, RetryDue
<1>4. ASSUME NEW u \in Dreams, TaskStep(u) PROVE row' = row /\ longTerm' = longTerm
  <2>1. CASE u = t
    <3>1. ~Captured(t) /\ ~Accepted(t) /\ ~Logged(t) /\ ~Recaptured(t) /\ ~Commits(t) /\ ~Completes(t)
      BY DEF Captured, Accepted, Logged, Recaptured, Commits, Completes
    <3>2. ~\E output \in {"keep", "compress"} : Generated(t, output)
      BY DEF Generated
    <3>3. CASE Swaps(t) \/ Undone(t) \/ Closes(t) \/ Drop(t)
      BY <3>3 DEF Swaps, Undone, Closes, Drop
    <3> QED BY <1>4, <2>1, <3>1, <3>2, <3>3 DEF TaskStep
  <2>2. CASE u # t
    <3> DEFINE Mine == task'[t] = task[t]
    <3>1. ASSUME NEW error, Fail(u, error) PROVE Mine
      BY <1>1, <2>2, <3>1 DEF Fail
    <3>2. ASSUME NEW left, NEW error, Undo(u, left, error) PROVE Mine
      BY <1>1, <2>2, <3>2 DEF Undo
    <3>3. CASE Captured(u) \/ Swaps(u) \/ Completes(u) \/ Closes(u)
      BY <1>1, <2>2, <3>3 DEF Captured, Swaps, Completes, Closes
    <3>4. CASE Accepted(u)
      BY <1>1, <2>2, <3>4 DEF Accepted, Enter
    <3>5. CASE \E output \in {"keep", "compress"} : Generated(u, output)
      BY <1>1, <2>2, <3>1, <3>5 DEF Generated
    <3>6. CASE Logged(u) \/ Recaptured(u)
      BY <1>1, <2>2, <3>6 DEF Logged, Recaptured, BeginCommit
    <3>7. CASE Commits(u)
      BY <1>1, <2>2, <3>1, <3>2, <3>7, CommitCases DEF Refuse
    <3>8. CASE Undone(u)
      BY <1>1, <2>2, <3>1, <3>8 DEF Undone
    <3>9. CASE Drop(u)
      BY <1>1, <2>2, <3>2, <3>9 DEF Drop
    <3> QED BY <1>4, <3>3, <3>4, <3>5, <3>6, <3>7, <3>8, <3>9 DEF TaskStep
  <2> QED BY <2>1, <2>2
<1>5. ASSUME NEW u \in Dreams, Fault(u) PROVE row' = row /\ longTerm' = longTerm
  <2>1. ~task[u].aborted
    BY <1>5 DEF Fault, CaptureFails, NoticeFails, ModelFails, OutputUnreadable, SwapFails, CommitThrows, Deadline
  <2>2. task'[t] = task[t]
    BY <1>1, <1>5, <2>1 DEF Fault, CaptureFails, NoticeFails, ModelFails, OutputUnreadable, SwapFails,
       CommitThrows, Deadline, Fail, Refuse, Undo
  <2> QED BY <2>2
<1>6. CASE (\E r \in Records : EditLongTerm(r)) \/ (\E n \in Notes : Appends(n)) \/ UNCHANGED vars
  BY <1>6 DEF EditLongTerm, Appends, vars
<1> QED BY <1>2, <1>3, <1>4, <1>5, <1>6 DEF Next

LEMMA LongTermStep ==
  ASSUME Structure, [Next]_vars, edits' = edits
  PROVE longTerm' \ {Dreamt} = longTerm \ {Dreamt}
<1>1. CASE Tick \/ ForceDream
  BY <1>1 DEF Tick, ForceDream, Launch
<1>2. CASE Stop \/ Start \/ Crash \/ LeaseLapses \/ RetryDue
  BY <1>2 DEF Stop, Start, Crash, LeaseLapses, RetryDue
<1>3. ASSUME NEW t \in Dreams, TaskStep(t) PROVE longTerm' \ {Dreamt} = longTerm \ {Dreamt}
  <2>1. CASE Commits(t)
    BY <2>1, CommitCases
  <2>2. CASE ~Commits(t)
    BY <1>3, <2>2 DEF TaskStep, Captured, Accepted, Generated, Logged, Recaptured, Swaps, Undone,
       Completes, Closes, Drop
  <2> QED BY <2>1, <2>2
<1>4. ASSUME NEW t \in Dreams, Fault(t) PROVE longTerm' = longTerm
  BY <1>4 DEF Fault, CaptureFails, NoticeFails, ModelFails, OutputUnreadable, SwapFails, CommitThrows, Deadline
<1>5. ASSUME NEW r \in Records, EditLongTerm(r) PROVE FALSE
  BY <1>5 DEF EditLongTerm, Structure, Types
<1>6. CASE (\E n \in Notes : Appends(n)) \/ UNCHANGED vars
  BY <1>6 DEF Appends, vars
<1> QED BY <1>1, <1>2, <1>3, <1>4, <1>5, <1>6 DEF Next

(* No late task writes: what is settled changes by a manual trigger only, and  *)
(* a cancelled task leaves row and long-term memory alone                      *)
(* (dreamStore.ts:414, dreamPipeline.ts:539).                                  *)
THEOREM NoTaskWritesLate == Spec => NoLateWrite
<1>1. Structure /\ [Next]_vars =>
        [Settled /\ row' # row =>
           row'.status \in Active /\ \E t \in Dreams : task'[t].forced /\ task'[t].run = row']_vars
  BY OutcomeStep DEF Reopens
<1>2. Structure /\ [Next]_vars =>
        [\A t \in Dreams : task[t].aborted /\ task'[t] # task[t] => row' = row /\ longTerm' = longTerm]_vars
  BY CancelledStep
<1>3. Spec => []Structure
  BY StructureHolds
<1> QED BY <1>1, <1>2, <1>3, PTL DEF Spec, NoLateWrite, OutcomeStands, CancelledIsSilent

(* What the administrator has added, changed or removed in the long-term       *)
(* memory while a Dream ran is neither lost nor revived by its commit          *)
(* (dreamConsolidationStore.ts:222-241).                                       *)
THEOREM EditsAreKept == Spec => LongTermKept
<1>1. Structure /\ [Next]_vars => [edits' = edits => longTerm' \ {Dreamt} = longTerm \ {Dreamt}]_vars
  BY LongTermStep
<1>2. Spec => []Structure
  BY StructureHolds
<1> QED BY <1>1, <1>2, PTL DEF Spec, LongTermKept


-------------------------------------------------------------------------------
(* What a step may do to the document: it leaves it, or one writer moves on *)

\* Inputs come from the document, the row or the task itself.
RowBears ==
  row'.status # "none" =>
    row'.input = doc \/ (row.status # "none" /\ row'.input = row.input)

Reads(t) ==
  task'[t].pc \in Attended =>
    \/ task[t].pc \in Attended /\ task'[t].run.input = task[t].run.input
    \/ row.status # "none" /\ task'[t].run.input = row.input
    \/ task'[t].run.input = doc

InPlace(t) ==
  task[t].pc \in {"swap", "undo"} \/ task'[t].pc \in {"swap", "undo"} =>
    task'[t].pc = task[t].pc /\ task'[t].run.input = task[t].run.input

Apart(t) == \A u \in Dreams \ {t} : InPlace(u)

Still == UNCHANGED <<memoryVars, recorded, torn>> /\ \A t \in Dreams : InPlace(t)

Begins(t) ==
  /\ UNCHANGED <<doc, raced, recorded, torn>> /\ Apart(t)
  /\ task[t].pc \notin {"swap", "undo"} /\ task'[t].pc = "swap"
  /\ task[t].pc \in Attended /\ task'[t].run.input = task[t].run.input
  /\ \E s \in Swap :
       /\ swap' = [swap EXCEPT ![t] = s] /\ s.at \in {"open", "conflict"}
       /\ s.at = "open" => s.expected = task[t].run.input /\ s.content = Digest(task[t].run.input)

Replaces(w) ==
  SwapStep(w) /\ UNCHANGED <<recorded, torn>> /\ \A t \in Dreams : InPlace(t)

Undoes(t) ==
  /\ UNCHANGED <<doc, raced, recorded, torn>> /\ Apart(t)
  /\ task[t].pc = "swap" /\ swap[t].at \in {"renamed", "updated"} /\ task'[t].pc = "undo"
  /\ task'[t].run.input = task[t].run.input
  /\ \E s \in Swap :
       /\ swap' = [swap EXCEPT ![t] = s] /\ s.at = "open" /\ s.content = task[t].run.input
       /\ s.expected = IF swap[t].at = "updated" THEN swap[t].seen ELSE swap[t].content

Leaves(t) ==
  /\ UNCHANGED <<doc, raced>> /\ Apart(t) /\ swap' = [swap EXCEPT ![t] = Idle]
  /\ task'[t].pc \notin {"swap", "undo"}
  /\ recorded \subseteq recorded' /\ (torn => torn')
  /\ Holds(t) => torn' \/ Covered(task[t].run.input) \in recorded'

Reconsiders(n) ==
  /\ AppendRead(n) \/ AppendEnds(n)
  /\ UNCHANGED <<doc, raced, recorded, torn>> /\ \A t \in Dreams : InPlace(t)

Ends ==
  /\ UNCHANGED <<doc, raced, recorded>> /\ task' = [t \in Dreams |-> NoTask]
  /\ swap' = [w \in Writers |-> IF swap[w].at \in {"done", "failed"} THEN swap[w] ELSE Idle]
  /\ torn' = (torn \/ \E t \in Dreams : swap[t].at # "idle")

MemoryForm ==
  /\ RowBears /\ \A t \in Dreams : Reads(t)
  /\ \/ Still \/ Ends
     \/ \E t \in Dreams : Begins(t) \/ Undoes(t) \/ Leaves(t)
     \/ \E w \in Writers : Replaces(w)
     \/ \E n \in Notes : Reconsiders(n)

LEMMA Alone ==
  ASSUME Structure, NEW t \in Dreams, NEW k, task' = [task EXCEPT ![t] = k]
  PROVE /\ task'[t] = k /\ Apart(t) /\ \A u \in Dreams \ {t} : Reads(u)
<1>1. task'[t] = k /\ \A u \in Dreams \ {t} : task'[u] = task[u]
  BY DEF Structure, Types
<1> QED BY <1>1 DEF Apart, InPlace, Reads

LEMMA FailForm ==
  ASSUME Structure, NEW t \in Dreams, NEW error, Fail(t, error), UNCHANGED <<doc, raced, recorded>>,
         \/ task[t].pc \notin {"swap", "undo"} /\ UNCHANGED <<swap, torn>>
         \/ /\ swap' = [swap EXCEPT ![t] = Idle] /\ (torn => torn')
            /\ Holds(t) => torn' \/ Covered(task[t].run.input) \in recorded'
  PROVE MemoryForm
<1>1. /\ task' = [task EXCEPT ![t] = Closing(t)] /\ Closing(t).pc = "closing"
  BY Constants DEF Fail, Closing, NoTask
<1>2. task'[t].pc = "closing" /\ Apart(t) /\ \A u \in Dreams : Reads(u)
  BY <1>1, Alone DEF Reads, Attended, Staged
<1>3. RowBears
  <2>1. row.status = "none" => row' = row
    BY DEF Fail, Owns, Active
  <2>2. row'.input = row.input
    BY DEF Fail, FailedRow, Structure, Types, Row
  <2> QED BY <2>1, <2>2 DEF RowBears
<1>4. CASE task[t].pc \notin {"swap", "undo"} /\ UNCHANGED <<swap, torn>>
  <2>1. Still
    BY <1>2, <1>4 DEF Still, Apart, InPlace, memoryVars
  <2> QED BY <1>2, <1>3, <2>1 DEF MemoryForm
<1>5. CASE /\ swap' = [swap EXCEPT ![t] = Idle] /\ (torn => torn')
           /\ Holds(t) => torn' \/ Covered(task[t].run.input) \in recorded'
  <2>1. Leaves(t)
    BY <1>2, <1>5 DEF Leaves
  <2> QED BY <1>2, <1>3, <2>1 DEF MemoryForm
<1> QED BY <1>4, <1>5

LEMMA LeaveForm ==
  ASSUME Structure, NEW t \in Dreams, task' = [task EXCEPT ![t] = NoTask], UNCHANGED <<doc, raced, recorded, row>>,
         swap' = [swap EXCEPT ![t] = Idle], torn => torn', Holds(t) => torn'
  PROVE MemoryForm
<1>1. task'[t].pc = "idle" /\ Apart(t) /\ \A u \in Dreams : Reads(u)
  BY Alone, Constants DEF Reads, Attended, Staged
<1>2. Leaves(t)
  BY <1>1 DEF Leaves
<1> QED BY <1>1, <1>2 DEF MemoryForm, RowBears

LEMMA UndoForm ==
  ASSUME Structure, NEW t \in Dreams, NEW error, task[t].pc = "swap", swap[t].at \in {"renamed", "updated"},
         Undo(t, IF swap[t].at = "updated" THEN swap[t].seen ELSE swap[t].content, error),
         UNCHANGED <<doc, raced, recorded, torn, row>>
  PROVE MemoryForm
<1> DEFINE k == task[t]
           left == IF swap[t].at = "updated" THEN swap[t].seen ELSE swap[t].content
           s == [at |-> "open", expected |-> left, content |-> k.run.input, seen |-> None, tries |-> 0]
           j == [k EXCEPT !.pc = "undo", !.error = error]
<1>1. k \in Task /\ swap[t] \in Swap
  BY DEF Structure, Types, Writers
<1>2. task' = [task EXCEPT ![t] = j] /\ swap' = [swap EXCEPT ![t] = s]
  BY DEF Undo, StartSwap, Structure, Types
<1>3. s \in Swap
  BY <1>1 DEF Swap, Task, Row, Places
<1>4. j.pc = "undo" /\ j.run = k.run
  BY <1>1 DEF Task
<1>5. task'[t] = j /\ Apart(t) /\ \A u \in Dreams \ {t} : Reads(u)
  BY <1>2, Alone
<1>6. Reads(t)
  BY <1>4, <1>5 DEF Reads, Attended, Staged
<1>7. Undoes(t)
  BY <1>2, <1>3, <1>4, <1>5 DEF Undoes
<1> QED BY <1>5, <1>6, <1>7 DEF MemoryForm, RowBears

LEMMA RefuseForm ==
  ASSUME Structure, NEW t \in Dreams, NEW error, task[t].pc = "swap", Refuse(t, error),
         swap[t].at \in {"updated", "unchanged", "conflict"}, UNCHANGED <<doc, raced, recorded, torn>>
  PROVE MemoryForm
<1>1. CASE swap[t].at = "updated"
  BY <1>1, UndoForm DEF Refuse, At
<1>2. CASE swap[t].at # "updated"
  BY <1>2, FailForm DEF Refuse, At, Holds
<1> QED BY <1>1, <1>2


LEMMA StillForm ==
  ASSUME Structure, UNCHANGED <<memoryVars, recorded, torn, row>>,
         \A t \in Dreams :
           \/ task'[t].pc = task[t].pc /\ task'[t].run = task[t].run
           \/ task[t].pc \notin {"swap", "undo"} /\ task'[t].pc \notin {"swap", "undo"} /\ Reads(t)
  PROVE MemoryForm
<1>1. \A t \in Dreams : InPlace(t) /\ Reads(t)
  BY DEF InPlace, Reads
<1> QED BY <1>1 DEF MemoryForm, Still, RowBears

LEMMA LaunchForm ==
  ASSUME Structure, NEW t \in Dreams, NEW forced \in BOOLEAN, Launch(t, forced)
  PROVE MemoryForm
<1> DEFINE k == [NoTask EXCEPT !.worker = life, !.forced = forced]
           captures == row.status = "none" \/ (forced /\ row.status = "completed")
           claimed == [k EXCEPT !.run = Claimed(life)]
<1>1. /\ task[t] = NoTask /\ row \in Row /\ task[t].pc = "idle"
      /\ UNCHANGED <<memoryVars, recorded, torn>> /\ k \in Task
  BY Constants DEF Structure, Types, Launch, TaskOK, RunsTrue, NoTask, Task
<1>2. ASSUME NEW j, task' = [task EXCEPT ![t] = j], j.pc \notin {"swap", "undo"}, RowBears,
             j.pc \in Attended => row.status # "none" /\ j.run.input = row.input
      PROVE MemoryForm
  <2>1. task'[t] = j /\ Apart(t) /\ \A u \in Dreams \ {t} : Reads(u)
    BY <1>2, Alone
  <2>2. Still
    BY <1>1, <1>2, <2>1 DEF Still, InPlace, Apart
  <2>3. Reads(t)
    BY <1>2, <2>1 DEF Reads
  <2> QED BY <1>2, <2>1, <2>2, <2>3 DEF MemoryForm
<1>3. CASE captures
  <2>1. task' = [task EXCEPT ![t] = [k EXCEPT !.pc = "capture"]] /\ UNCHANGED row
    BY <1>3 DEF Launch
  <2>2. [k EXCEPT !.pc = "capture"].pc = "capture"
    BY <1>1 DEF Task
  <2> QED BY <1>2, <2>1, <2>2 DEF RowBears, Attended, Staged
<1>4. CASE ~captures /\ Exhausted(forced)
  <2>1. row' = GivenUp /\ UNCHANGED task
    BY <1>4 DEF Launch
  <2>2. RowBears
    BY <1>1, <1>4, <2>1 DEF GivenUp, RowBears, Row
  <2>3. \A u \in Dreams : InPlace(u) /\ Reads(u)
    BY <2>1 DEF InPlace, Reads
  <2> QED BY <1>1, <2>2, <2>3 DEF MemoryForm, Still
<1>5. CASE ~captures /\ ~Exhausted(forced)
  <2>1. row.status \in Active \cup {"failed"}
    BY <1>1, <1>5 DEF Launch, Claimable
  <2>2. row' = Claimed(life) /\ row.status # "none" /\ Claimed(life).input = row.input
        /\ Claimed(life) \in Row
    BY <1>5, <2>1, ClaimedRow DEF Launch, Active
  <2>3. claimed \in Task /\ claimed.run = Claimed(life)
    BY <1>1, <2>2 DEF Task
  <2>4. PICK pc \in {"accept", "model", "recapture", "complete"} :
          task' = [task EXCEPT ![t] = [claimed EXCEPT !.pc = pc]]
    <3>1. CASE forced
      BY <1>5, <3>1 DEF Launch
    <3>2. CASE ~forced
      <4>1. Enter(t, claimed)
        BY <1>5, <3>2 DEF Launch
      <4> QED BY <4>1, <2>1, <2>3, ClaimedRow DEF Enter, Active
    <3> QED BY <3>1, <3>2
  <2>5. [claimed EXCEPT !.pc = pc].pc = pc /\ [claimed EXCEPT !.pc = pc].run.input = row.input
    BY <2>2, <2>3 DEF Task
  <2> QED BY <1>2, <2>2, <2>4, <2>5 DEF RowBears
<1> QED BY <1>3, <1>4, <1>5

LEMMA CapturedForm ==
  ASSUME Structure, NEW t \in Dreams, Captured(t)
  PROVE MemoryForm
<1> DEFINE k == task[t]
           fresh == FreshRow(k.worker)
           j == [k EXCEPT !.pc = IF k.forced THEN "accept" ELSE "model",
                          !.run = fresh, !.snapshot = Snapshot]
<1>1. k \in Task /\ k.pc = "capture" /\ UNCHANGED <<memoryVars, recorded, torn>>
  BY DEF Structure, Types, Captured
<1>2. CASE row.status = "none" \/ (k.forced /\ row.status = "completed")
  <2>1. row' = fresh /\ task' = [task EXCEPT ![t] = j] /\ fresh.input = doc
    BY <1>2 DEF Captured, FreshRow, NoRow
  <2>2. j.pc \in {"accept", "model"} /\ j.run = fresh
    BY <1>1 DEF Task
  <2>3. task'[t] = j /\ Apart(t) /\ \A u \in Dreams \ {t} : Reads(u)
    BY <2>1, Alone
  <2>4. Still
    BY <1>1, <2>2, <2>3 DEF Still, InPlace, Apart
  <2>5. Reads(t) /\ RowBears
    BY <2>1, <2>2, <2>3 DEF Reads, RowBears
  <2> QED BY <2>3, <2>4, <2>5 DEF MemoryForm
<1>3. CASE ~(row.status = "none" \/ (k.forced /\ row.status = "completed"))
  <2>1. task' = [task EXCEPT ![t] = NoTask] /\ UNCHANGED row
    BY <1>3 DEF Captured
  <2> QED BY <1>1, <2>1, Alone, StillForm, Constants DEF Apart, Reads, Structure, Types, Attended, Staged
<1> QED BY <1>2, <1>3

LEMMA BeginForm ==
  ASSUME Structure, NEW t \in Dreams, NEW snapshot, BeginCommit(t, snapshot),
         task[t].pc \in {"logged", "recapture"}, UNCHANGED <<doc, raced, recorded, torn, row>>
  PROVE MemoryForm
<1> DEFINE k == task[t]
           j == [k EXCEPT !.pc = "swap", !.snapshot = snapshot]
           input == k.run.input
<1>1. k \in Task /\ RunsTrue(k, row) /\ swap[t] \in Swap
  BY DEF Structure, Types, TaskOK, Writers
<1>2. input \in Docs
  BY <1>1 DEF RunsTrue, Attended, Staged
<1>3. task' = [task EXCEPT ![t] = j] /\ j.pc = "swap" /\ j.run = k.run
  BY <1>1 DEF BeginCommit, Structure, Types, Task
<1>4. task'[t] = j /\ Apart(t) /\ \A u \in Dreams \ {t} : Reads(u)
  BY <1>3, Alone
<1>5. \E s \in Swap : /\ swap' = [swap EXCEPT ![t] = s] /\ s.at \in {"open", "conflict"}
                      /\ s.at = "open" => s.expected = input /\ s.content = Digest(input)
  <2>1. CASE k.run.output = "compress"
    <3> DEFINE s == [at |-> "open", expected |-> input, content |-> Digest(input), seen |-> None, tries |-> 0]
    <3>1. swap' = [swap EXCEPT ![t] = s]
      BY <2>1 DEF BeginCommit, StartSwap, BoundTo
    <3>2. s \in Swap
      BY <1>2, DigestDoc DEF Swap, Places
    <3> QED BY <3>1, <3>2
  <2>2. CASE k.run.output # "compress"
    <3> DEFINE s == [swap[t] EXCEPT !.at = "conflict"]
    <3>1. swap' = [swap EXCEPT ![t] = s]
      BY <2>2 DEF BeginCommit, Goto
    <3>2. s \in Swap /\ s.at = "conflict"
      BY <1>1 DEF Swap, Places
    <3> QED BY <3>1, <3>2
  <2> QED BY <2>1, <2>2
<1>6. Begins(t) /\ Reads(t)
  BY <1>3, <1>4, <1>5 DEF Begins, Reads, Attended, Staged
<1> QED BY <1>4, <1>6 DEF MemoryForm, RowBears


LEMMA SameTasks ==
  ASSUME Structure, NEW t \in Dreams, NEW k, task' = [task EXCEPT ![t] = k],
         k.run = task[t].run, k.pc = task[t].pc \/ {k.pc, task[t].pc} \cap {"swap", "undo"} = {},
         k.pc \in Attended => task[t].pc \in Attended, UNCHANGED <<memoryVars, recorded, torn, row>>
  PROVE MemoryForm
<1>1. task'[t] = k /\ \A u \in Dreams \ {t} : task'[u] = task[u]
  BY DEF Structure, Types
<1>2. Reads(t)
  BY <1>1 DEF Reads
<1> QED BY <1>1, <1>2, StillForm

LEMMA TaskForm ==
  ASSUME Structure, NEW t \in Dreams, TaskStep(t)
  PROVE MemoryForm
<1>0. task[t] \in Task /\ swap[t] \in Swap /\ RunsTrue(task[t], row) /\ MovesTrue(task[t], swap[t])
  BY DEF Structure, Types, TaskOK, SwapOK, Writers
<1>1. CASE Captured(t)
  BY <1>1, CapturedForm
<1>2. CASE Accepted(t)
  <2>1. PICK pc \in {"model", "recapture", "complete"} : task' = [task EXCEPT ![t] = [task[t] EXCEPT !.pc = pc]]
    BY <1>0, <1>2 DEF Accepted, Enter, RunsTrue, Attended, Active
  <2>2. [task[t] EXCEPT !.pc = pc].pc = pc /\ [task[t] EXCEPT !.pc = pc].run = task[t].run
    BY <1>0 DEF Task
  <2> QED BY <1>2, <2>1, <2>2, SameTasks DEF Accepted, Attended
<1>3. ASSUME NEW output \in {"keep", "compress"}, Generated(t, output)
      PROVE MemoryForm
  <2>1. task[t].pc = "model" /\ UNCHANGED <<memoryVars, recorded, torn>>
    BY <1>3 DEF Generated
  <2>2. CASE ~Owns(t, {"running"})
    BY <1>3, <2>1, <2>2, FailForm DEF Generated, memoryVars
  <2>3. CASE Owns(t, {"running"})
    <3> DEFINE run == [row EXCEPT !.status = "generated", !.output = output]
               j == [task[t] EXCEPT !.pc = "logged", !.run = run]
    <3>1. row' = run /\ task' = [task EXCEPT ![t] = j]
      BY <1>0, <1>3, <2>3 DEF Generated, Structure, Types
    <3>2. run.input = row.input /\ row.status # "none"
      BY <2>3 DEF Structure, Types, Row, Owns
    <3>3. j.pc = "logged" /\ j.run = run
      BY <1>0 DEF Task
    <3>4. task'[t] = j /\ Apart(t) /\ \A u \in Dreams \ {t} : Reads(u)
      BY <3>1, Alone
    <3>5. Reads(t) /\ RowBears /\ Still
      BY <2>1, <3>1, <3>2, <3>3, <3>4 DEF Reads, RowBears, Still, Apart, InPlace
    <3> QED BY <3>4, <3>5 DEF MemoryForm
  <2> QED BY <2>2, <2>3
<1>4. CASE Logged(t) \/ Recaptured(t)
  <2>1. /\ task[t].pc \in {"logged", "recapture"} /\ UNCHANGED <<doc, raced, row, recorded, torn>>
        /\ \/ task' = [task EXCEPT ![t].pc = "recapture"] /\ UNCHANGED swap
           \/ BeginCommit(t, task[t].snapshot) \/ BeginCommit(t, Snapshot)
    BY <1>4 DEF Logged, Recaptured
  <2>2. CASE task' = [task EXCEPT ![t].pc = "recapture"] /\ UNCHANGED swap
    <3>1. task' = [task EXCEPT ![t] = [task[t] EXCEPT !.pc = "recapture"]]
      BY <2>2 DEF Structure, Types
    <3>2. [task[t] EXCEPT !.pc = "recapture"].pc = "recapture" /\ [task[t] EXCEPT !.pc = "recapture"].run = task[t].run
      BY <1>0 DEF Task
    <3> QED BY <2>1, <2>2, <3>1, <3>2, SameTasks DEF memoryVars, Attended, Staged
  <2> QED BY <2>1, <2>2, BeginForm
<1>5. CASE Swaps(t)
  <2>1. SwapStep(t) /\ t \in Writers /\ UNCHANGED <<row, task, recorded, torn>>
    BY <1>5 DEF Swaps, SwapStep, Writers
  <2>2. RowBears /\ \A u \in Dreams : InPlace(u) /\ Reads(u)
    BY <2>1 DEF RowBears, InPlace, Reads
  <2> QED BY <2>1, <2>2 DEF MemoryForm, Replaces
<1>6. CASE Commits(t)
  <2>1. UNCHANGED <<doc, raced, torn>> /\ swap[t].at \in {"updated", "unchanged", "conflict"}
    BY <1>6 DEF Commits
  <2>2. CASE UNCHANGED <<longTerm, recorded>> /\ \E error \in {"retry", "fatal"} : Refuse(t, error)
    BY <1>6, <2>1, <2>2, CommitCases, RefuseForm
  <2>3. CASE ~(UNCHANGED <<longTerm, recorded>> /\ \E error \in {"retry", "fatal"} : Refuse(t, error))
    <3> DEFINE result == IF swap[t].at \in {"updated", "unchanged"} THEN "applied" ELSE "kept"
               j == [task[t] EXCEPT !.pc = "complete", !.snapshot = None]
    <3>1. /\ row' = [row EXCEPT !.status = "consolidated", !.result = result]
          /\ recorded' = IF swap[t].at \in {"updated", "unchanged"}
                           THEN recorded \cup {Covered(task[t].run.input)} ELSE recorded
          /\ task' = [task EXCEPT ![t] = j] /\ swap' = [swap EXCEPT ![t] = Idle]
          /\ task[t].pc = "swap" /\ row.status = "generated"
      BY <1>6, <2>3, CommitCases
    <3>2. row'.input = row.input
      BY <3>1 DEF Structure, Types, Row
    <3>3. j.pc = "complete" /\ j.run = task[t].run
      BY <1>0 DEF Task
    <3>4. task'[t] = j /\ Apart(t) /\ \A u \in Dreams \ {t} : Reads(u)
      BY <3>1, Alone
    <3>5. Reads(t) /\ RowBears
      BY <3>1, <3>2, <3>3, <3>4 DEF Reads, RowBears, Attended, Staged
    <3>6. Leaves(t)
      BY <2>1, <3>1, <3>3, <3>4 DEF Leaves, Holds
    <3> QED BY <3>4, <3>5, <3>6 DEF MemoryForm
  <2> QED BY <2>2, <2>3
<1>7. CASE Undone(t)
  <2>1. /\ task[t].pc = "undo" /\ swap[t].at \in {"updated", "unchanged", "conflict"}
        /\ torn' = (torn \/ swap[t].at = "conflict") /\ swap' = [swap EXCEPT ![t] = Idle]
        /\ UNCHANGED <<doc, raced, recorded>>
        /\ \/ task' = [task EXCEPT ![t] = NoTask] /\ UNCHANGED row
           \/ \E error \in {"fatal", task[t].error} : Fail(t, error)
    BY <1>7 DEF Undone
  <2>2. (torn => torn') /\ (Holds(t) => torn')
    BY <2>1 DEF Holds
  <2> QED BY <2>1, <2>2, LeaveForm, FailForm
<1>8. CASE Completes(t) \/ Closes(t)
  <2>1. /\ task[t].pc \in {"complete", "closing"} /\ UNCHANGED <<memoryVars, recorded, torn>>
        /\ \E k \in {Closing(t), NoTask} : task' = [task EXCEPT ![t] = k]
    BY <1>8 DEF Completes, Closes
  <2>2. \A k \in {Closing(t), NoTask} : k.pc \in {"idle", "closing"}
    BY Constants DEF Closing, NoTask
  <2>3. task'[t].pc \in {"idle", "closing"} /\ Apart(t) /\ \A u \in Dreams \ {t} : Reads(u)
    BY <2>1, <2>2, Alone
  <2>4. Still /\ Reads(t)
    BY <2>1, <2>3 DEF Still, Apart, InPlace, Reads, Attended, Staged
  <2>5. RowBears
    <3>1. row'.input = row.input /\ (row.status = "none" => row' = row)
      BY <1>8 DEF Completes, Complete, Closes, Owns, Structure, Types, Row
    <3> QED BY <3>1 DEF RowBears
  <2> QED BY <2>3, <2>4, <2>5 DEF MemoryForm
<1>9. CASE Drop(t)
  <2>1. UNCHANGED <<doc, raced, row, recorded, torn>> /\ task[t].pc \notin {"idle", "undo", "closing"}
    BY <1>9 DEF Drop
  <2>2. CASE task[t].pc = "swap" /\ swap[t].at \in {"renamed", "updated"}
    BY <1>9, <2>1, <2>2, UndoForm DEF Drop, At
  <2>3. CASE ~(task[t].pc = "swap" /\ swap[t].at \in {"renamed", "updated"})
    BY <1>9, <2>1, <2>3, LeaveForm DEF Drop, Holds
  <2> QED BY <2>2, <2>3
<1> QED BY <1>1, <1>2, <1>3, <1>4, <1>5, <1>6, <1>7, <1>8, <1>9 DEF TaskStep

LEMMA FaultForm ==
  ASSUME Structure, NEW t \in Dreams, Fault(t)
  PROVE MemoryForm
<1>0. task[t] \in Task
  BY DEF Structure, Types
<1>1. CASE CaptureFails(t)
  <2>1. CASE task[t].pc = "capture"
    <3>1. task' = [task EXCEPT ![t] = NoTask] /\ UNCHANGED <<memoryVars, recorded, torn, row>>
      BY <1>1, <2>1 DEF CaptureFails
    <3> QED BY <2>1, <3>1, Alone, StillForm, Constants DEF Apart, Reads, Structure, Types, Attended, Staged
  <2>2. CASE task[t].pc = "recapture"
    BY <1>1, <2>2, FailForm DEF CaptureFails, memoryVars
  <2> QED BY <1>1, <2>1, <2>2 DEF CaptureFails
<1>2. CASE NoticeFails(t) \/ ModelFails(t) \/ OutputUnreadable(t)
  <2>1. /\ task[t].pc \in {"accept", "model", "recapture"} /\ UNCHANGED <<memoryVars, recorded, torn>>
        /\ \E error \in {"fatal", "retry", "contract"} : Fail(t, error)
    BY <1>2 DEF NoticeFails, ModelFails, OutputUnreadable
  <2> QED BY <2>1, FailForm DEF memoryVars
<1>3. CASE SwapFails(t)
  BY <1>3, FailForm DEF SwapFails, Holds
<1>4. CASE CommitThrows(t)
  BY <1>4, RefuseForm DEF CommitThrows
<1>5. CASE Deadline(t)
  <2>1. task' = [task EXCEPT ![t] = [task[t] EXCEPT !.aborted = TRUE]] /\ UNCHANGED <<memoryVars, recorded, torn, row>>
    BY <1>5 DEF Deadline, Structure, Types
  <2>2. /\ [task[t] EXCEPT !.aborted = TRUE].pc = task[t].pc
        /\ [task[t] EXCEPT !.aborted = TRUE].run = task[t].run
    BY <1>0 DEF Task
  <2> QED BY <2>1, <2>2, SameTasks
<1> QED BY <1>1, <1>2, <1>3, <1>4, <1>5 DEF Fault

LEMMA Forms ==
  ASSUME Structure, [Next]_vars PROVE MemoryForm
<1>1. CASE Tick \/ ForceDream
  BY <1>1, LaunchForm DEF Tick, ForceDream
<1>2. CASE Stop
  <2>1. \A t \in Dreams : task'[t].pc = task[t].pc /\ task'[t].run = task[t].run
    BY <1>2 DEF Stop, Structure, Types, Task
  <2> QED BY <1>2, <2>1, StillForm DEF Stop
<1>3. CASE Crash
  <2>1. \A t \in Dreams : task'[t].pc = "idle"
    BY <1>3, Constants DEF Crash
  <2>2. RowBears /\ \A t \in Dreams : Reads(t)
    BY <1>3, <2>1 DEF Crash, RowBears, Reads, Attended, Staged
  <2> QED BY <1>3, <2>2 DEF Crash, Ends, MemoryForm
<1>4. CASE LeaseLapses \/ RetryDue
  <2>1. /\ UNCHANGED <<memoryVars, recorded, torn, task>> /\ row'.input = row.input /\ row'.status = row.status
    BY <1>4 DEF LeaseLapses, RetryDue, Structure, Types, Row
  <2>2. RowBears /\ Still /\ \A t \in Dreams : Reads(t)
    BY <2>1 DEF RowBears, Still, InPlace, Reads
  <2> QED BY <2>2 DEF MemoryForm
<1>5. CASE Start \/ (\E r \in Records : EditLongTerm(r)) \/ UNCHANGED vars
  <2>1. UNCHANGED <<memoryVars, recorded, torn, task, row>>
    BY <1>5 DEF Start, EditLongTerm, vars, memoryVars
  <2> QED BY <2>1, StillForm
<1>6. ASSUME NEW n \in Notes, Appends(n) PROVE MemoryForm
  <2>1. UNCHANGED <<row, task, recorded, torn>> /\ n \in Writers
    BY <1>6 DEF Appends, Writers
  <2>2. RowBears /\ \A t \in Dreams : InPlace(t) /\ Reads(t)
    BY <2>1 DEF RowBears, InPlace, Reads
  <2>3. CASE SwapStep(n)
    BY <2>1, <2>2, <2>3 DEF MemoryForm, Replaces
  <2>4. CASE AppendRead(n) \/ AppendEnds(n)
    BY <2>1, <2>2, <2>4 DEF MemoryForm, Reconsiders, AppendRead, AppendEnds
  <2> QED BY <1>6, <2>3, <2>4 DEF Appends, Append, SwapStep
<1> QED BY <1>1, <1>2, <1>3, <1>4, <1>5, <1>6, TaskForm, FaultForm DEF Next


-------------------------------------------------------------------------------
(* The notes that did not race *)

LEMMA CoveredAdd ==
  ASSUME NEW m, NEW n, NEW d
  PROVE n \in Covered(d \cup {NoteItem(m)}) <=> (n \in Covered(d) \/ n = m)
<1>1. n \in Covered(d \cup {NoteItem(m)}) <=> \E i \in d \cup {NoteItem(m)} : n \in i.covers
  BY DEF Covered
<1>2. n \in Covered(d) <=> \E i \in d : n \in i.covers
  BY DEF Covered
<1>3. n \in NoteItem(m).covers <=> n = m
  BY DEF NoteItem
<1> QED BY <1>1, <1>2, <1>3

LEMMA CoveredItem ==
  ASSUME NEW n, NEW d, NoteItem(n) \in d
  PROVE n \in Covered(d)
BY DEF Covered, NoteItem

LEMMA CarriedInit == ASSUME Init PROVE NotesCarried
<1> SUFFICES ASSUME NEW n \in Notes PROVE NoteCarried(n)
  BY DEF NotesCarried
<1>1. row.status = "none" /\ \A w \in Writers : swap[w].at = "idle"
  BY DEF Init, MemoryInit, NoRow, Idle
<1>2. \A t \in Dreams : task[t].pc = "idle"
  BY DEF Init, NoTask
<1>3. n \in Writers
  BY DEF Writers
<1> QED BY <1>1, <1>2, <1>3 DEF NoteCarried, Sound, Attended, Staged

\* What has been read stays behind the document while the document keeps the note.
LEMMA ReadersBehind ==
  ASSUME NEW n \in Notes, NoteCarried(n), n \in Covered(doc) => n \in Covered(doc'),
         RowBears, \A t \in Dreams : Reads(t)
  PROVE /\ row'.status # "none" => Behind(row.input, n)'
        /\ \A t \in Dreams : task'[t].pc \in Attended => Behind(task[t].run.input, n)'
<1>1. ASSUME row'.status # "none" PROVE Behind(row.input, n)'
  BY <1>1 DEF NoteCarried, RowBears, Behind
<1>2. ASSUME NEW t \in Dreams, task'[t].pc \in Attended PROVE Behind(task[t].run.input, n)'
  <2>1. Reads(t)
    OBVIOUS
  <2> QED BY <1>2, <2>1 DEF NoteCarried, Reads, Behind
<1> QED BY <1>1, <1>2

\* A step of one writer that leaves the document.
LEMMA MovedOn ==
  ASSUME Structure, NEW n \in Notes, NoteCarried(n), UNCHANGED doc, RowBears, \A t \in Dreams : Reads(t),
         NEW w \in Writers, NEW s, swap' = [swap EXCEPT ![w] = s], Sound(s, n),
         w = n => (s.at \in {"renamed", "updated", "unchanged", "done"} => n \in Covered(doc))
  PROVE NoteCarried(n)'
<1>1. swap'[w] = s /\ \A v \in Writers \ {w} : swap'[v] = swap[v]
  BY DEF Structure, Types
<1>2. n \in Writers
  BY DEF Writers
<1>3. ASSUME NEW v \in Writers PROVE Sound(swap[v], n)'
  <2>1. Sound(swap[v], n) /\ (v = w => Sound(swap'[v], n))
    BY <1>1 DEF NoteCarried
  <2>2. Sound(swap'[v], n)
    BY <1>1, <2>1
  <2> QED BY <2>2 DEF Sound, Behind
<1>4. swap'[n].at \in {"renamed", "updated", "unchanged", "done"} => n \in Covered(doc')
  BY <1>1, <1>2 DEF NoteCarried
<1> QED BY <1>3, <1>4, ReadersBehind DEF NoteCarried

\* What a writer at its rename brings in was in the document, but for its own note.
LEMMA Brings ==
  ASSUME Structure, NEW n \in Notes, NoteCarried(n), NEW w \in Writers \ {n}, swap[w].at = "rename",
         n \in Covered(swap[w].content)
  PROVE n \in Covered(doc)
<1>1. CASE w \in Notes
  <2>1. swap[w].content = swap[w].expected \cup {NoteItem(w)}
    BY <1>1 DEF Structure, NoteOK, Moving
  <2>2. n \in Covered(swap[w].expected)
    BY <2>1, CoveredAdd
  <2> QED BY <2>2 DEF NoteCarried, Sound, Behind
<1>2. CASE w \in Dreams
  <2>1. SwapOK(w) /\ TaskOK(w) /\ task[w].pc \in PCs
    BY <1>2 DEF Structure, Types, Task
  <2>2. task[w].pc \in {"swap", "undo"} /\ task[w].run.input \in Docs
    BY <2>1 DEF SwapOK, MovesTrue, TaskOK, RunsTrue, Attended, Staged
  <2>3. swap[w].content \in {Digest(task[w].run.input), task[w].run.input}
    BY <2>1, <2>2 DEF SwapOK, MovesTrue
  <2>4. n \in Covered(task[w].run.input)
    BY <2>2, <2>3, DigestDoc
  <2> QED BY <1>2, <2>2, <2>4 DEF NoteCarried, Behind, Attended, Staged
<1> QED BY <1>1, <1>2 DEF Writers

LEMMA RenameCarries ==
  ASSUME Structure, NEW n \in Notes, NoteCarried(n), NEW w \in Writers, Rename(w), n \notin raced',
         RowBears, \A t \in Dreams : Reads(t)
  PROVE NoteCarried(n)'
<1>0. swap[w] \in Swap /\ swap[w].at = "rename" /\ doc' = swap[w].content /\ n \in Writers
  BY DEF Structure, Types, Rename, At, Writers
<1>1. swap' = [swap EXCEPT ![w] = [swap[w] EXCEPT !.at = "renamed"]]
  BY DEF Rename, Goto, Structure, Types
<1>2. /\ swap'[w].at = "renamed" /\ swap'[w].content = swap[w].content
      /\ \A v \in Writers \ {w} : swap'[v] = swap[v]
  BY <1>0, <1>1 DEF Structure, Types, Swap
<1>3. n \in Covered(doc) => n \in Covered(doc')
  BY <1>0 DEF NoteCarried, Sound
<1>4. ASSUME NEW v \in Writers PROVE Sound(swap[v], n)'
  <2>1. CASE v = w
    BY <1>0, <1>2, <2>1 DEF Sound
  <2>2. CASE v # w
    <3>1. Sound(swap[v], n) /\ swap'[v] = swap[v]
      BY <1>2, <2>2 DEF NoteCarried
    <3>2. ASSUME swap[v].at \in {"rename", "renamed"}, n \in Covered(doc')
          PROVE n \in Covered(swap[v].content)
      <4>1. w # n
        BY <2>2, <3>2 DEF Rename
      <4>2. n \in Covered(doc)
        BY <1>0, <3>2, <4>1, Brings
      <4> QED BY <3>1, <3>2, <4>2 DEF Sound
    <3> QED BY <1>3, <3>1, <3>2 DEF Sound, Behind
  <2> QED BY <2>1, <2>2
<1>5. swap'[n].at \in {"renamed", "updated", "unchanged", "done"} => n \in Covered(doc')
  <2>1. CASE w = n
    <3>1. NoteItem(n) \in doc'
      BY <1>0, <2>1 DEF Structure, NoteOK, Moving
    <3> QED BY <3>1, CoveredItem
  <2>2. CASE w # n
    BY <1>0, <1>2, <1>3, <2>2 DEF NoteCarried
  <2> QED BY <2>1, <2>2
<1> QED BY <1>3, <1>4, <1>5, ReadersBehind DEF NoteCarried

LEMMA ReplaceCarries ==
  ASSUME Structure, NEW n \in Notes, NoteCarried(n), NEW w \in Writers, SwapStep(w), n \notin raced',
         RowBears, \A t \in Dreams : Reads(t)
  PROVE NoteCarried(n)'
<1>0. swap[w] \in Swap /\ Sound(swap[w], n)
  BY DEF Structure, Types, NoteCarried
<1>1. CASE Open(w)
  <2> DEFINE place == IF doc # swap[w].expected THEN "conflict"
                      ELSE IF doc = swap[w].content THEN "unchanged" ELSE "check"
             s == [swap[w] EXCEPT !.at = place]
  <2>1. swap' = [swap EXCEPT ![w] = s] /\ UNCHANGED doc /\ swap[w].at = "open"
    BY <1>1 DEF Open, Goto, At, Structure, Types
  <2>2. s.at = place /\ s.expected = swap[w].expected /\ s.content = swap[w].content
    BY <1>0 DEF Swap
  <2>3. Sound(s, n)
    BY <1>0, <2>1, <2>2 DEF Sound, Behind
  <2>4. ASSUME w = n, s.at \in {"renamed", "updated", "unchanged", "done"} PROVE n \in Covered(doc)
    <3>1. NoteItem(n) \in swap[w].content
      BY <2>1, <2>4 DEF Structure, NoteOK, Moving
    <3>2. NoteItem(n) \in doc
      BY <2>2, <2>4, <3>1
    <3> QED BY <3>2, CoveredItem
  <2> HIDE DEF s
  <2> QED BY <2>1, <2>3, <2>4, MovedOn
<1>2. CASE Check(w)
  <2> DEFINE place == IF doc # swap[w].expected THEN "conflict" ELSE "rename"
             s == [swap[w] EXCEPT !.at = place]
  <2>1. swap' = [swap EXCEPT ![w] = s] /\ UNCHANGED doc /\ swap[w].at = "check"
    BY <1>2 DEF Check, Goto, At, Structure, Types
  <2>2. s.at = place /\ s.expected = swap[w].expected /\ s.content = swap[w].content
    BY <1>0 DEF Swap
  <2>3. Sound(s, n) /\ s.at \notin {"renamed", "updated", "unchanged", "done"}
    BY <1>0, <2>1, <2>2 DEF Sound, Behind
  <2> HIDE DEF s
  <2> QED BY <2>1, <2>3, MovedOn
<1>3. CASE Rename(w)
  BY <1>3, RenameCarries
<1>4. CASE Reread(w)
  <2> DEFINE s == [swap[w] EXCEPT !.at = "updated", !.seen = doc]
  <2>1. swap' = [swap EXCEPT ![w] = s] /\ UNCHANGED doc /\ swap[w].at = "renamed"
    BY <1>4 DEF Reread, At, Structure, Types
  <2>2. s.at = "updated" /\ s.seen = doc /\ s.content = swap[w].content
    BY <1>0 DEF Swap
  <2>3. Sound(s, n)
    BY <1>0, <2>1, <2>2 DEF Sound, Behind
  <2>4. w = n => n \in Covered(doc)
    BY <2>1 DEF NoteCarried
  <2> HIDE DEF s
  <2> QED BY <2>1, <2>3, <2>4, MovedOn
<1> QED BY <1>1, <1>2, <1>3, <1>4 DEF SwapStep

LEMMA ReconsiderCarries ==
  ASSUME Structure, NEW n \in Notes, NoteCarried(n), NEW m \in Notes, AppendRead(m) \/ AppendEnds(m),
         RowBears, \A t \in Dreams : Reads(t)
  PROVE NoteCarried(n)'
<1>0. swap[m] \in Swap /\ m \in Writers /\ UNCHANGED doc
  BY DEF Structure, Types, Writers, AppendRead, AppendEnds
<1>1. CASE AppendEnds(m)
  <2> DEFINE s == [Idle EXCEPT !.at = "done"]
  <2>1. swap' = [swap EXCEPT ![m] = s] /\ swap[m].at \in {"updated", "unchanged"}
    BY <1>1 DEF AppendEnds
  <2>2. Sound(s, n) /\ (m = n => n \in Covered(doc))
    BY <2>1 DEF Sound, Idle, NoteCarried
  <2> HIDE DEF s
  <2> QED BY <1>0, <2>1, <2>2, MovedOn
<1>2. CASE AppendRead(m)
  <2>1. CASE swap[m].at = "conflict" /\ swap[m].tries = 2
    <3> DEFINE s == [swap[m] EXCEPT !.at = "failed"]
    <3>1. swap' = [swap EXCEPT ![m] = s]
      BY <1>2, <2>1 DEF AppendRead, Goto
    <3>2. s.at = "failed"
      BY <1>0 DEF Swap
    <3>3. Sound(s, n)
      BY <3>2 DEF Sound
    <3> HIDE DEF s
    <3> QED BY <1>0, <3>1, <3>2, <3>3, MovedOn
  <2>2. CASE ~(swap[m].at = "conflict" /\ swap[m].tries = 2) /\ NoteItem(m) \in doc
    <3> DEFINE s == [swap[m] EXCEPT !.at = "done"]
    <3>1. swap' = [swap EXCEPT ![m] = s]
      BY <1>2, <2>2 DEF AppendRead, Goto
    <3>2. s.at = "done" /\ (m = n => n \in Covered(doc))
      BY <1>0, <2>2, CoveredItem DEF Swap
    <3>3. Sound(s, n)
      BY <3>2 DEF Sound
    <3> HIDE DEF s
    <3> QED BY <1>0, <3>1, <3>2, <3>3, MovedOn
  <2>3. CASE ~(swap[m].at = "conflict" /\ swap[m].tries = 2) /\ NoteItem(m) \notin doc
    <3> DEFINE s == [at |-> "open", expected |-> doc, content |-> doc \cup {NoteItem(m)},
                     seen |-> None, tries |-> swap[m].tries + 1]
    <3>1. swap' = [swap EXCEPT ![m] = s]
      BY <1>2, <2>3 DEF AppendRead, StartSwap
    <3>2. Sound(s, n) /\ s.at = "open"
      BY CoveredAdd DEF Sound, Behind
    <3> HIDE DEF s
    <3> QED BY <1>0, <3>1, <3>2, MovedOn
  <2> QED BY <2>1, <2>2, <2>3
<1> QED BY <1>1, <1>2

LEMMA NoteCarriedNext ==
  ASSUME Structure, NEW n \in Notes, NoteCarried(n), MemoryForm, n \notin raced'
  PROVE NoteCarried(n)'
<1>0. RowBears /\ (\A t \in Dreams : Reads(t)) /\ n \in Writers /\ Dreams \subseteq Writers /\ n \notin Dreams
  BY WritersAssumption DEF MemoryForm, Writers
<1>1. CASE Still
  <2>1. UNCHANGED <<doc, swap>>
    BY <1>1 DEF Still, memoryVars
  <2>2. \A w \in Writers : Sound(swap[w], n)'
    BY <2>1 DEF NoteCarried, Sound, Behind
  <2> QED BY <1>0, <2>1, <2>2, ReadersBehind DEF NoteCarried
<1>2. CASE Ends
  <2>1. UNCHANGED doc /\ \A w \in Writers : swap'[w] = swap[w] \/ swap'[w].at = "idle"
    BY <1>2, Constants DEF Ends
  <2>2. ASSUME NEW w \in Writers PROVE Sound(swap[w], n)'
    <3>1. CASE swap'[w] = swap[w]
      BY <2>1, <3>1 DEF NoteCarried, Sound, Behind
    <3>2. CASE swap'[w].at = "idle"
      BY <3>2 DEF Sound
    <3> QED BY <2>1, <3>1, <3>2
  <2> QED BY <1>0, <2>1, <2>2, ReadersBehind DEF NoteCarried
<1>3. ASSUME NEW t \in Dreams, Begins(t) PROVE NoteCarried(n)'
  <2>1. PICK s \in Swap : /\ swap' = [swap EXCEPT ![t] = s] /\ s.at \in {"open", "conflict"}
                          /\ s.at = "open" => s.expected = task[t].run.input /\ s.content = Digest(task[t].run.input)
    BY <1>3 DEF Begins
  <2>2. task[t].run.input \in Docs /\ Behind(task[t].run.input, n) /\ UNCHANGED doc
    BY <1>3 DEF Begins, Structure, TaskOK, RunsTrue, NoteCarried
  <2>3. Sound(s, n)
    BY <2>1, <2>2, DigestDoc DEF Sound
  <2> QED BY <1>0, <2>1, <2>2, <2>3, MovedOn
<1>4. ASSUME NEW t \in Dreams, Undoes(t) PROVE NoteCarried(n)'
  <2>1. PICK s \in Swap : /\ swap' = [swap EXCEPT ![t] = s] /\ s.at = "open" /\ s.content = task[t].run.input
                          /\ s.expected = IF swap[t].at = "updated" THEN swap[t].seen ELSE swap[t].content
    BY <1>4 DEF Undoes
  <2>2. task[t].run.input \in Docs /\ Behind(task[t].run.input, n) /\ UNCHANGED doc
    BY <1>4 DEF Undoes, Structure, TaskOK, RunsTrue, NoteCarried, Attended, Staged
  <2>3. swap[t].content = Digest(task[t].run.input) /\ Sound(swap[t], n)
    BY <1>0, <1>4 DEF Undoes, Structure, SwapOK, MovesTrue, NoteCarried
  <2>4. Behind(s.expected, n) /\ (n \in Covered(s.expected) => n \in Covered(s.content))
    BY <2>1, <2>2, <2>3, DigestDoc DEF Sound, Behind
  <2>5. Sound(s, n)
    BY <2>1, <2>4 DEF Sound
  <2> QED BY <1>0, <2>1, <2>2, <2>5, MovedOn
<1>5. ASSUME NEW t \in Dreams, Leaves(t) PROVE NoteCarried(n)'
  <2>1. Sound(Idle, n)
    BY Constants DEF Sound
  <2> QED BY <1>0, <1>5, <2>1, MovedOn DEF Leaves
<1>6. ASSUME NEW w \in Writers, Replaces(w) PROVE NoteCarried(n)'
  BY <1>0, <1>6, ReplaceCarries DEF Replaces
<1>7. ASSUME NEW m \in Notes, Reconsiders(m) PROVE NoteCarried(n)'
  BY <1>0, <1>7, ReconsiderCarries DEF Reconsiders
<1> QED BY <1>1, <1>2, <1>3, <1>4, <1>5, <1>6, <1>7 DEF MemoryForm

LEMMA RacedGrows ==
  ASSUME MemoryForm PROVE raced \subseteq raced'
BY DEF MemoryForm, Still, Ends, Begins, Undoes, Leaves, Replaces, SwapStep, Open, Check, Rename, Reread,
       Reconsiders, memoryVars

LEMMA NotesCarriedNext ==
  ASSUME Structure, NotesCarried, MemoryForm PROVE NotesCarried'
BY NoteCarriedNext, RacedGrows DEF NotesCarried


-------------------------------------------------------------------------------
(* The compressions *)

LEMMA DigestItem ==
  ASSUME NEW d
  PROVE /\ \A i : Digest(d) = {i} => i.covers = Covered(d)
        /\ \A i \in Digest(d) : Digest(d) = {i}
        /\ \A i \in Items : d # {} /\ i.kind = "dream" /\ i.covers = Covered(d) => Digest(d) = {i}
<1> DEFINE item == [kind |-> "dream", covers |-> Covered(d)]
<1>1. Digest(d) = IF d = {} THEN {} ELSE {item}
  BY DEF Digest
<1>2. item.covers = Covered(d)
  OBVIOUS
<1>3. \A i \in Items : i.kind = "dream" /\ i.covers = Covered(d) => i = item
  BY DEF Items
<1> HIDE DEF item
<1> QED BY <1>1, <1>2, <1>3

LEMMA CompressionsInit == ASSUME Init PROVE CompressionsHeld
<1>1. doc = {} /\ (\A w \in Writers : swap[w].at = "idle") /\ \A t \in Dreams : task[t].pc = "idle"
  BY DEF Init, MemoryInit, Idle, NoTask
<1>2. \A t \in Dreams : ~Holds(t) /\ Replacing(t) /\ AnsweredBehind(t)
  BY <1>1 DEF Holds, Replacing, AnsweredBehind
<1> QED BY <1>1, <1>2 DEF CompressionsHeld, Compressions, Windows, Answered, Compressed

Stays(u) == InPlace(u) /\ swap'[u] = swap[u]

LEMMA StaysHolds ==
  ASSUME NEW u \in Dreams, Stays(u)
  PROVE (Holds(u)' <=> Holds(u)) /\ (Holds(u) => task'[u].run.input = task[u].run.input)
BY DEF Stays, InPlace, Holds

LEMMA StaysReplacing ==
  ASSUME NEW u \in Dreams, Stays(u), Replacing(u), Covered(doc) \subseteq Covered(doc')
  PROVE Replacing(u)'
<1>1. CASE task[u].pc \in {"swap", "undo"} \/ task'[u].pc \in {"swap", "undo"}
  <2>1. task'[u].pc = task[u].pc /\ task'[u].run.input = task[u].run.input /\ swap'[u] = swap[u]
    BY <1>1 DEF Stays, InPlace
  <2>2. Holds(u)' <=> Holds(u)
    BY StaysHolds
  <2>3. Put(u)' = Put(u)
    BY <2>1 DEF Put
  <2> QED BY <2>1, <2>2, <2>3 DEF Replacing
<1>2. CASE ~(task[u].pc \in {"swap", "undo"} \/ task'[u].pc \in {"swap", "undo"})
  BY <1>2 DEF Replacing, Holds
<1> QED BY <1>1, <1>2

\* The document stands; a Dream stops holding its compression only when that is recorded.
LEMMA AnsweredOn ==
  ASSUME Compressions, UNCHANGED doc, recorded \subseteq recorded',
         \A u \in Dreams :
           /\ Holds(u)' => Holds(u) /\ task'[u].run.input = task[u].run.input
           /\ Holds(u) => \/ Holds(u)' /\ task'[u].run.input = task[u].run.input
                          \/ Covered(task[u].run.input) \in recorded'
  PROVE Answered' /\ \A t \in Dreams : AnsweredBehind(t)'
<1>1. \A u \in Dreams : \A i : Holds(u) /\ Put(u) = {i} => i.covers \in recorded' \/ (Holds(u)' /\ Put(u)' = {i})
  BY DigestItem DEF Put
<1>2. Answered'
  BY <1>1 DEF Compressions, Answered, Compressed
<1>3. ASSUME NEW t \in Dreams, Holds(t)' PROVE AnsweredBehind(t)'
  <2>1. Holds(t) /\ task'[t].run.input = task[t].run.input /\ Put(t)' = Put(t) /\ AnsweredBehind(t)
    BY <1>3 DEF Put, Compressions
  <2>2. Compressed(task[t].run.input)' = Compressed(task[t].run.input)
    BY <2>1 DEF Compressed
  <2> QED BY <1>1, <2>1, <2>2 DEF AnsweredBehind
<1> QED BY <1>2, <1>3 DEF AnsweredBehind

\* A step of one writer that leaves the document: what it does to that writer decides.
LEMMA CompressionsOn ==
  ASSUME Structure, Compressions, UNCHANGED doc, recorded \subseteq recorded', NEW w \in Writers,
         NEW s, swap' = [swap EXCEPT ![w] = s],
         s.at = "rename" => doc = s.expected, s.at = "renamed" => doc = s.content,
         \A u \in Dreams \ {w} : InPlace(u),
         w \in Dreams =>
           /\ Replacing(w)'
           /\ Holds(w)' => Holds(w) /\ task'[w].run.input = task[w].run.input
           /\ Holds(w) => \/ Holds(w)' /\ task'[w].run.input = task[w].run.input
                          \/ Covered(task[w].run.input) \in recorded'
  PROVE Compressions'
<1>1. swap'[w] = s /\ \A v \in Writers \ {w} : swap'[v] = swap[v]
  BY DEF Structure, Types
<1>2. Windows'
  BY <1>1 DEF Compressions, Windows
<1>3. \A u \in Dreams \ {w} : Stays(u)
  BY <1>1 DEF Stays, Writers
<1>4. Covered(doc) \subseteq Covered(doc')
  OBVIOUS
<1>5. \A u \in Dreams : Replacing(u)'
  BY <1>3, <1>4, StaysReplacing DEF Compressions
<1>6. Answered' /\ \A u \in Dreams : AnsweredBehind(u)'
  BY <1>3, StaysHolds, AnsweredOn
<1> QED BY <1>2, <1>5, <1>6 DEF Compressions

LEMMA BeginsHeld ==
  ASSUME Structure, Compressions, NEW t \in Dreams, Begins(t) PROVE Compressions'
<1>1. PICK s \in Swap : swap' = [swap EXCEPT ![t] = s] /\ s.at \in {"open", "conflict"}
  BY DEF Begins
<1>2. t \in Writers /\ swap'[t] = s
  BY <1>1 DEF Structure, Types, Writers
<1>3. ~Holds(t) /\ ~Holds(t)' /\ Replacing(t)'
  BY <1>1, <1>2 DEF Begins, Holds, Replacing
<1> QED BY <1>1, <1>2, <1>3, CompressionsOn DEF Begins, Apart

LEMMA UndoesHeld ==
  ASSUME Structure, Compressions, NEW t \in Dreams, Undoes(t) PROVE Compressions'
<1>1. PICK s \in Swap : /\ swap' = [swap EXCEPT ![t] = s] /\ s.at = "open"
                        /\ s.expected = IF swap[t].at = "updated" THEN swap[t].seen ELSE swap[t].content
  BY DEF Undoes
<1>2. t \in Writers /\ swap'[t] = s
  BY <1>1 DEF Structure, Types, Writers
<1>3. Holds(t) /\ Holds(t)' /\ task'[t].run.input = task[t].run.input /\ Put(t)' = Put(t)
  BY <1>1, <1>2 DEF Undoes, Holds, Put
<1>4. Replacing(t) /\ SwapOK(t) /\ UNCHANGED doc
  BY DEF Compressions, Structure, Undoes
<1>5. s.expected = Put(t)
  BY <1>1, <1>4 DEF Undoes, Replacing, SwapOK, MovesTrue, Put
<1>6. Replacing(t)'
  BY <1>1, <1>2, <1>3, <1>4, <1>5 DEF Undoes, Replacing
<1> QED BY <1>1, <1>2, <1>3, <1>6, CompressionsOn DEF Undoes, Apart

LEMMA LeavesHeld ==
  ASSUME Structure, Compressions, NEW t \in Dreams, Leaves(t), ~torn' PROVE Compressions'
<1>1. ~Holds(t)' /\ Replacing(t)' /\ t \in Writers
  BY DEF Leaves, Holds, Replacing, Writers
<1> QED BY <1>1, CompressionsOn, Constants DEF Leaves, Apart

LEMMA EndsHeld ==
  ASSUME Structure, Compressions, Ends, ~torn' PROVE Compressions'
<1>1. \A t \in Dreams : swap[t].at = "idle" /\ task'[t].pc = "idle"
  BY Constants DEF Ends
<1>2. \A t \in Dreams : ~Holds(t)' /\ Replacing(t)' /\ ~Holds(t)
  BY <1>1 DEF Holds, Replacing
<1>3. Windows'
  BY Constants DEF Ends, Windows
<1>4. Answered' /\ \A t \in Dreams : AnsweredBehind(t)'
  BY <1>2, AnsweredOn DEF Ends
<1> QED BY <1>2, <1>3, <1>4 DEF Compressions

LEMMA ReconsidersHeld ==
  ASSUME Structure, Compressions, NEW n \in Notes, Reconsiders(n) PROVE Compressions'
<1>1. n \in Writers /\ n \notin Dreams /\ swap[n] \in Swap
  BY WritersAssumption DEF Writers, Structure, Types
<1>2. \E s : swap' = [swap EXCEPT ![n] = s] /\ s.at \in {"open", "done", "failed"}
  <2>1. CASE AppendEnds(n)
    <3> DEFINE s == [Idle EXCEPT !.at = "done"]
    <3>1. swap' = [swap EXCEPT ![n] = s] /\ s.at = "done"
      BY <2>1 DEF AppendEnds, Idle
    <3> HIDE DEF s
    <3> QED BY <3>1
  <2>2. CASE AppendRead(n)
    <3>1. ASSUME NEW place \in {"failed", "done"}, Goto(n, place)
          PROVE \E s : swap' = [swap EXCEPT ![n] = s] /\ s.at \in {"open", "done", "failed"}
      <4>1. swap' = [swap EXCEPT ![n] = [swap[n] EXCEPT !.at = place]]
        BY <3>1 DEF Goto, Structure, Types
      <4>2. [swap[n] EXCEPT !.at = place].at = place
        BY <1>1 DEF Swap
      <4> QED BY <4>1, <4>2
    <3>2. ASSUME NEW expected, NEW content, NEW tries, StartSwap(n, expected, content, tries)
          PROVE \E s : swap' = [swap EXCEPT ![n] = s] /\ s.at \in {"open", "done", "failed"}
      <4> DEFINE s == [at |-> "open", expected |-> expected, content |-> content,
                       seen |-> None, tries |-> tries]
      <4>1. swap' = [swap EXCEPT ![n] = s] /\ s.at = "open"
        BY <3>2 DEF StartSwap
      <4> HIDE DEF s
      <4> QED BY <4>1
    <3> QED BY <2>2, <3>1, <3>2 DEF AppendRead
  <2> QED BY <2>1, <2>2 DEF Reconsiders
<1>3. PICK s : swap' = [swap EXCEPT ![n] = s] /\ s.at \in {"open", "done", "failed"}
  BY <1>2
<1> QED BY <1>1, <1>3, CompressionsOn DEF Reconsiders

\* A Dream keeps the input it works from while its replacement is under way.
LEMMA Turning ==
  ASSUME Structure, NEW w \in Dreams, InPlace(w), swap[w].at # "idle"
  PROVE /\ task[w].pc \in {"swap", "undo"} /\ task'[w].pc = task[w].pc
        /\ task'[w].run.input = task[w].run.input /\ Put(w)' = Put(w)
        /\ task[w].run.input \in Docs /\ SwapOK(w)
<1>1. SwapOK(w) /\ TaskOK(w) /\ task[w].pc \in PCs
  BY DEF Structure, Types, Task
<1>2. task[w].pc \in {"swap", "undo"}
  BY <1>1 DEF SwapOK, MovesTrue
<1>3. task'[w].pc = task[w].pc /\ task'[w].run.input = task[w].run.input
  BY <1>2 DEF InPlace
<1>4. task[w].run.input \in Docs
  BY <1>1, <1>2 DEF TaskOK, RunsTrue, Attended, Staged
<1> QED BY <1>1, <1>2, <1>3, <1>4 DEF Put

LEMMA OpenHeld ==
  ASSUME Structure, Compressions, NEW w \in Writers, Open(w), UNCHANGED recorded,
         \A t \in Dreams : InPlace(t)
  PROVE Compressions'
<1> DEFINE place == IF doc # swap[w].expected THEN "conflict"
                    ELSE IF doc = swap[w].content THEN "unchanged" ELSE "check"
           s == [swap[w] EXCEPT !.at = place]
<1>1. swap' = [swap EXCEPT ![w] = s] /\ UNCHANGED doc /\ swap[w].at = "open" /\ swap[w] \in Swap
  BY DEF Open, Goto, At, Structure, Types
<1>2. s.at = place /\ s.expected = swap[w].expected /\ s.content = swap[w].content /\ swap'[w] = s
  BY <1>1 DEF Swap, Structure, Types
<1>3. ASSUME w \in Dreams
      PROVE /\ Replacing(w)' /\ (Holds(w)' <=> Holds(w)) /\ task'[w].run.input = task[w].run.input
  <2>1. /\ task[w].pc \in {"swap", "undo"} /\ task'[w].pc = task[w].pc /\ SwapOK(w)
        /\ task'[w].run.input = task[w].run.input /\ Put(w)' = Put(w) /\ Replacing(w)
    BY <1>1, <1>3, Turning DEF Compressions
  <2>2. CASE task[w].pc = "swap"
    <3>1. swap[w].expected = task[w].run.input /\ swap[w].content = Put(w)
      BY <1>1, <2>1, <2>2 DEF SwapOK, MovesTrue, Put
    <3>2. ~Holds(w) /\ ~Holds(w)'
      BY <1>1, <1>2, <2>1, <2>2 DEF Holds
    <3>3. swap'[w].at = "check" => task[w].run.input # Put(w)
      BY <1>2, <3>1
    <3>4. swap'[w].at \in {"conflict", "unchanged", "check"}
      BY <1>2
    <3> QED BY <2>1, <2>2, <3>2, <3>3, <3>4 DEF Replacing
  <2>3. CASE task[w].pc = "undo"
    <3>1. Holds(w) /\ swap[w].expected = Put(w) /\ task[w].run.input # Put(w)
      BY <1>1, <2>1, <2>3 DEF Holds, Replacing
    <3>2. swap[w].content = task[w].run.input
      BY <2>1, <2>3 DEF SwapOK, MovesTrue
    <3>3. swap'[w].at \in {"conflict", "check"} /\ swap'[w].expected = Put(w)
      BY <1>2, <3>1, <3>2
    <3>4. Holds(w)'
      BY <2>1, <2>3, <3>3 DEF Holds
    <3> QED BY <1>1, <2>1, <2>3, <3>1, <3>3, <3>4 DEF Replacing
  <2> QED BY <2>1, <2>2, <2>3
<1>4. s.at \notin {"rename", "renamed"}
  BY <1>2
<1> HIDE DEF s
<1> QED BY <1>1, <1>3, <1>4, CompressionsOn

LEMMA CheckHeld ==
  ASSUME Structure, Compressions, NEW w \in Writers, Check(w), UNCHANGED recorded,
         \A t \in Dreams : InPlace(t)
  PROVE Compressions'
<1> DEFINE place == IF doc # swap[w].expected THEN "conflict" ELSE "rename"
           s == [swap[w] EXCEPT !.at = place]
<1>1. swap' = [swap EXCEPT ![w] = s] /\ UNCHANGED doc /\ swap[w].at = "check" /\ swap[w] \in Swap
  BY DEF Check, Goto, At, Structure, Types
<1>2. s.at = place /\ s.expected = swap[w].expected /\ swap'[w] = s
  BY <1>1 DEF Swap, Structure, Types
<1>3. ASSUME w \in Dreams
      PROVE /\ Replacing(w)' /\ (Holds(w)' <=> Holds(w)) /\ task'[w].run.input = task[w].run.input
  <2>1. /\ task[w].pc \in {"swap", "undo"} /\ task'[w].pc = task[w].pc
        /\ task'[w].run.input = task[w].run.input /\ Put(w)' = Put(w) /\ Replacing(w)
    BY <1>1, <1>3, Turning DEF Compressions
  <2>2. swap'[w].at \in {"conflict", "rename"} /\ swap'[w].expected = swap[w].expected
    BY <1>2
  <2>3. Holds(w)' <=> Holds(w)
    BY <1>1, <2>1, <2>2 DEF Holds
  <2> QED BY <1>1, <2>1, <2>2, <2>3 DEF Replacing
<1>4. s.at # "renamed" /\ (s.at = "rename" => doc = s.expected)
  BY <1>2
<1> HIDE DEF s
<1> QED BY <1>1, <1>3, <1>4, CompressionsOn

LEMMA RereadHeld ==
  ASSUME Structure, Compressions, NEW w \in Writers, Reread(w), UNCHANGED recorded,
         \A t \in Dreams : InPlace(t)
  PROVE Compressions'
<1> DEFINE s == [swap[w] EXCEPT !.at = "updated", !.seen = doc]
<1>1. swap' = [swap EXCEPT ![w] = s] /\ UNCHANGED doc /\ swap[w].at = "renamed" /\ swap[w] \in Swap
  BY DEF Reread, At, Structure, Types
<1>2. s.at = "updated" /\ s.seen = doc /\ swap'[w] = s
  BY <1>1 DEF Swap, Structure, Types
<1>3. ASSUME w \in Dreams
      PROVE /\ Replacing(w)' /\ (Holds(w)' <=> Holds(w)) /\ task'[w].run.input = task[w].run.input
  <2>1. /\ task[w].pc \in {"swap", "undo"} /\ task'[w].pc = task[w].pc /\ SwapOK(w)
        /\ task'[w].run.input = task[w].run.input /\ Put(w)' = Put(w) /\ Replacing(w)
    BY <1>1, <1>3, Turning DEF Compressions
  <2>2. task[w].pc = "swap" => swap[w].content = Put(w)
    BY <1>1, <2>1 DEF SwapOK, MovesTrue, Put
  <2>3. doc = swap[w].content
    BY <1>1 DEF Compressions, Windows
  <2>4. Holds(w)' <=> Holds(w)
    BY <1>1, <1>2, <2>1 DEF Holds
  <2> QED BY <1>1, <1>2, <2>1, <2>2, <2>3, <2>4 DEF Replacing
<1> HIDE DEF s
<1> QED BY <1>1, <1>2, <1>3, CompressionsOn


\* A rename that meets nobody: the document was what the writer expects, and nobody else
\* has yet to look at the file again.
LEMMA MetNobody ==
  ASSUME Structure, NEW w \in Writers, Rename(w), raced' = {}
  PROVE /\ doc = swap[w].expected /\ doc' = swap[w].content /\ swap[w].at = "rename"
        /\ \A v \in Writers \ {w} : swap[v].at \notin {"rename", "renamed"} /\ swap'[v] = swap[v]
        /\ swap'[w].at = "renamed" /\ swap'[w].content = swap[w].content
        /\ swap'[w].expected = swap[w].expected
<1>1. swap[w] \in Swap
  BY DEF Structure, Types
<1>2. swap' = [swap EXCEPT ![w] = [swap[w] EXCEPT !.at = "renamed"]]
  BY DEF Rename, Goto, Structure, Types
<1>3. /\ swap'[w].at = "renamed" /\ swap'[w].content = swap[w].content
      /\ swap'[w].expected = swap[w].expected /\ \A v \in Writers \ {w} : swap'[v] = swap[v]
  BY <1>1, <1>2 DEF Structure, Types, Swap
<1> QED BY <1>3 DEF Rename, At

LEMMA RenameWindows ==
  ASSUME Structure, NEW w \in Writers, Rename(w), raced' = {}
  PROVE Windows'
BY MetNobody DEF Windows

LEMMA RenameCovers ==
  ASSUME Structure, NotesCarried, raced = {}, NEW w \in Writers, Rename(w)
  PROVE Covered(doc) \subseteq Covered(doc')
<1> SUFFICES ASSUME NEW n \in Covered(doc) PROVE n \in Covered(doc')
  OBVIOUS
<1>1. n \in Notes
  BY DEF Structure, Types, Docs, Items, Covered
<1>2. Sound(swap[w], n)
  BY <1>1 DEF NotesCarried, NoteCarried
<1> QED BY <1>2 DEF Rename, At, Sound

LEMMA NoteRenameHeld ==
  ASSUME Structure, NotesCarried, Compressions, NEW w \in Notes, Rename(w), raced = {}, raced' = {},
         UNCHANGED recorded, \A t \in Dreams : InPlace(t)
  PROVE Compressions'
<1>1. w \in Writers /\ w \notin Dreams
  BY WritersAssumption DEF Writers
<1>2. \A u \in Dreams : Stays(u)
  BY <1>1, MetNobody DEF Stays, Writers
<1>3. doc' = doc \cup {NoteItem(w)}
  BY <1>1, MetNobody DEF Structure, NoteOK, Moving
<1>4. Compressed(doc') = Compressed(doc) /\ \A i : i.kind = "dream" => doc' # {i}
  <2>1. NoteItem(w).kind = "note" /\ NoteItem(w) \in doc'
    BY <1>3 DEF NoteItem
  <2>2. \A i : i.kind = "dream" => i # NoteItem(w)
    BY <2>1
  <2> QED BY <1>3, <2>1, <2>2 DEF Compressed
<1>5. \A u \in Dreams : /\ (Holds(u)' <=> Holds(u))
                        /\ Holds(u) => Put(u)' = Put(u) /\ task'[u].run.input = task[u].run.input
  BY <1>2, StaysHolds DEF Put
<1>6. Answered'
  BY <1>4, <1>5 DEF Compressions, Answered
<1>7. ASSUME NEW t \in Dreams, Holds(t)' PROVE AnsweredBehind(t)'
  <2>1. Compressed(task'[t].run.input) = Compressed(task[t].run.input) /\ AnsweredBehind(t)
    BY <1>5, <1>7 DEF Compressions
  <2>2. \A i \in Compressed(task[t].run.input) : i.kind = "dream"
    BY DEF Compressed
  <2> QED BY <1>4, <1>5, <1>7, <2>1, <2>2 DEF AnsweredBehind
<1>8. \A t \in Dreams : Replacing(t)'
  BY <1>1, <1>2, RenameCovers, StaysReplacing DEF Compressions
<1> QED BY <1>1, <1>6, <1>7, <1>8, RenameWindows DEF Compressions, AnsweredBehind

LEMMA SwapRenameHeld ==
  ASSUME Structure, NotesCarried, Compressions, NEW w \in Dreams, Rename(w), raced = {}, raced' = {},
         task[w].pc = "swap", UNCHANGED recorded, \A t \in Dreams : InPlace(t)
  PROVE Compressions'
<1> DEFINE input == task[w].run.input
<1>0. w \in Writers
  BY DEF Writers
<1>1. /\ doc = swap[w].expected /\ doc' = swap[w].content /\ swap[w].at = "rename"
      /\ swap'[w].at = "renamed" /\ \A u \in Dreams \ {w} : Stays(u)
  BY <1>0, MetNobody DEF Stays, Writers
<1>2. /\ task'[w].pc = "swap" /\ task'[w].run.input = input /\ Put(w)' = Put(w)
      /\ input \in Docs /\ SwapOK(w)
  BY <1>1, Turning
<1>3. doc = input /\ doc' = Put(w)
  BY <1>1, <1>2 DEF SwapOK, MovesTrue, Put
<1>4. ~Holds(w) /\ Holds(w)'
  BY <1>1, <1>2 DEF Holds
<1>5. \A u \in Dreams \ {w} : /\ (Holds(u)' <=> Holds(u))
                              /\ Holds(u) => Put(u)' = Put(u) /\ task'[u].run.input = task[u].run.input
  BY <1>1, StaysHolds DEF Put
<1>6. \A i \in doc' : Put(w)' = {i}
  BY <1>2, <1>3, DigestItem DEF Put
<1>7. Answered'
  BY <1>4, <1>6 DEF Answered, Compressed
<1>8. AnsweredBehind(w)'
  <2>1. Compressed(task'[w].run.input) = Compressed(doc)
    BY <1>2, <1>3
  <2>2. ASSUME NEW i \in Compressed(doc)
        PROVE i.covers \in recorded \/ \E u \in Dreams \ {w} : Holds(u)' /\ Put(u)' = {i}
    <3>1. i.covers \in recorded \/ \E u \in Dreams : Holds(u) /\ Put(u) = {i}
      BY DEF Compressions, Answered
    <3> QED BY <1>4, <1>5, <3>1
  <2> QED BY <2>1, <2>2 DEF AnsweredBehind
<1>9. ASSUME NEW t \in Dreams \ {w}, Holds(t)' PROVE AnsweredBehind(t)'
  <2>1. /\ Compressed(task'[t].run.input) = Compressed(task[t].run.input) /\ AnsweredBehind(t)
        /\ Holds(t) /\ Put(t)' = Put(t)
    BY <1>5, <1>9 DEF Compressions
  <2>2. ASSUME NEW i \in Compressed(task[t].run.input)
        PROVE \/ i.covers \in recorded
              \/ \E u \in Dreams \ {t} : Holds(u)' /\ Put(u)' = {i}
              \/ Put(t)' = {i} /\ doc' # {i}
    <3>1. CASE \E u \in Dreams \ {t} : Holds(u) /\ Put(u) = {i}
      BY <1>4, <1>5, <3>1
    <3>2. CASE Put(t) = {i} /\ doc' = {i}
      BY <1>4, <1>6, <3>2
    <3> QED BY <2>1, <3>1, <3>2 DEF AnsweredBehind
  <2> QED BY <2>1, <2>2 DEF AnsweredBehind
<1>10. Covered(doc) \subseteq Covered(doc')
  BY <1>0, RenameCovers
<1>11. Replacing(w)'
  <2>1. Replacing(w)
    BY DEF Compressions
  <2>2. input # Put(w)
    BY <1>1, <2>1 DEF Replacing
  <2>3. Covered(input) \subseteq Covered(doc')
    BY <1>3, <1>10
  <2> QED BY <1>1, <1>2, <2>2, <2>3 DEF Replacing
<1>12. \A t \in Dreams : Replacing(t)'
  BY <1>1, <1>10, <1>11, StaysReplacing DEF Compressions
<1> QED BY <1>0, <1>7, <1>8, <1>9, <1>12, RenameWindows DEF Compressions, AnsweredBehind

\* Putting a document back: what is in it again was recorded or is held by another Dream.
LEMMA UndoRenameHeld ==
  ASSUME Structure, NotesCarried, Compressions, NEW w \in Dreams, Rename(w), raced = {}, raced' = {},
         task[w].pc = "undo", UNCHANGED recorded, \A t \in Dreams : InPlace(t)
  PROVE Compressions'
<1> DEFINE input == task[w].run.input
<1>0. w \in Writers
  BY DEF Writers
<1>1. /\ doc = swap[w].expected /\ doc' = swap[w].content /\ swap[w].at = "rename"
      /\ swap'[w].at = "renamed" /\ \A u \in Dreams \ {w} : Stays(u)
  BY <1>0, MetNobody DEF Stays, Writers
<1>2. /\ task'[w].pc = "undo" /\ input \in Docs /\ SwapOK(w) /\ Replacing(w) /\ AnsweredBehind(w)
  BY <1>1, Turning DEF Compressions
<1>3. Holds(w) /\ ~Holds(w)'
  BY <1>1, <1>2 DEF Holds
<1>4. doc = Put(w) /\ doc' = input /\ input # Put(w)
  BY <1>1, <1>2, <1>3 DEF SwapOK, MovesTrue, Replacing
<1>5. \A u \in Dreams \ {w} : /\ (Holds(u)' <=> Holds(u))
                              /\ Holds(u) => Put(u)' = Put(u) /\ task'[u].run.input = task[u].run.input
  BY <1>1, StaysHolds DEF Put
<1>6. Answered'
  <2> SUFFICES ASSUME NEW i \in Compressed(input)
               PROVE i.covers \in recorded \/ \E t \in Dreams : Holds(t)' /\ Put(t)' = {i}
    BY <1>4 DEF Answered
  <2>1. i.covers \in recorded \/ \E u \in Dreams \ {w} : Holds(u) /\ Put(u) = {i}
    BY <1>2, <1>3, <1>4 DEF AnsweredBehind
  <2> QED BY <1>5, <2>1
<1>7. ASSUME NEW t \in Dreams, Holds(t)' PROVE AnsweredBehind(t)'
  <2>0. t # w
    BY <1>3, <1>7
  <2>1. /\ task'[t].run.input = task[t].run.input /\ AnsweredBehind(t) /\ Replacing(t)
        /\ Holds(t) /\ Put(t)' = Put(t)
    BY <1>5, <1>7, <2>0 DEF Compressions
  <2>2. task[t].run.input \in Docs
    <3>1. task[t].pc \in {"swap", "undo"} /\ TaskOK(t)
      BY <2>1 DEF Holds, Structure
    <3> QED BY <3>1 DEF TaskOK, RunsTrue, Attended, Staged
  <2>3. ASSUME NEW i \in Compressed(task[t].run.input)
        PROVE \/ i.covers \in recorded
              \/ \E u \in Dreams \ {t} : Holds(u)' /\ Put(u)' = {i}
              \/ Put(t)' = {i} /\ doc' # {i}
    <3>0. i \in Items /\ i.kind = "dream" /\ i \in task[t].run.input
      BY <2>2 DEF Compressed, Docs
    <3>1. CASE \E u \in Dreams \ {t, w} : Holds(u) /\ Put(u) = {i}
      BY <1>5, <3>1
    <3>2. CASE Put(w) = {i}
      <4>1. i.covers \subseteq Covered(task[t].run.input)
        BY <3>0 DEF Covered
      <4>2. Covered(task[t].run.input) \subseteq Covered({i})
        BY <1>4, <2>1, <3>2 DEF Replacing
      <4>3. Covered({i}) = i.covers
        BY DEF Covered
      <4>4. Put(t) = {i}
        <5>1. i.covers = Covered(task[t].run.input)
          BY <4>1, <4>2, <4>3
        <5> QED BY <3>0, <5>1, DigestItem DEF Put
      <4> QED BY <1>4, <2>1, <3>2, <4>4
    <3>3. CASE Put(t) = {i} /\ doc' = {i}
      <4>1. input = {i}
        BY <1>4, <3>3
      <4>2. Covered(input) = i.covers
        BY <4>1 DEF Covered
      <4>3. Put(w) = {i}
        BY <3>0, <4>1, <4>2, DigestItem DEF Put
      <4> QED BY <1>4, <4>1, <4>3
    <3> QED BY <2>0, <2>1, <3>1, <3>2, <3>3 DEF AnsweredBehind
  <2> QED BY <2>1, <2>3 DEF AnsweredBehind
<1>8. Covered(doc) \subseteq Covered(doc')
  BY <1>0, RenameCovers
<1>9. Replacing(w)'
  BY <1>2, <1>3 DEF Replacing
<1>10. \A t \in Dreams : Replacing(t)'
  BY <1>1, <1>8, <1>9, StaysReplacing DEF Compressions
<1> QED BY <1>0, <1>6, <1>7, <1>10, RenameWindows DEF Compressions, AnsweredBehind

LEMMA CompressionsNext ==
  ASSUME Structure, NotesCarried, CompressionsHeld, MemoryForm PROVE CompressionsHeld'
<1> SUFFICES ASSUME raced' = {}, ~torn' PROVE Compressions'
  BY DEF CompressionsHeld
<1>1. raced = {}
  BY RacedGrows
<1>2. CASE Still
  <2>1. UNCHANGED <<doc, swap, recorded, torn>> /\ \A u \in Dreams : Stays(u)
    BY <1>2 DEF Still, memoryVars, Stays
  <2>2. Compressions
    BY <1>1, <2>1 DEF CompressionsHeld
  <2>3. Windows' /\ \A u \in Dreams : Replacing(u)'
    BY <2>1, <2>2, StaysReplacing DEF Compressions, Windows
  <2>4. Answered' /\ \A u \in Dreams : AnsweredBehind(u)'
    BY <2>1, <2>2, StaysHolds, AnsweredOn
  <2> QED BY <2>3, <2>4 DEF Compressions
<1>3. CASE Ends
  <2>1. Compressions
    BY <1>1, <1>3 DEF CompressionsHeld, Ends, Structure, Types
  <2> QED BY <1>3, <2>1, EndsHeld
<1>4. ASSUME NEW t \in Dreams, Begins(t) \/ Undoes(t) \/ Leaves(t) PROVE Compressions'
  <2>1. Compressions
    BY <1>1, <1>4 DEF CompressionsHeld, Begins, Undoes, Leaves
  <2> QED BY <1>4, <2>1, BeginsHeld, UndoesHeld, LeavesHeld
<1>5. ASSUME NEW w \in Writers, Replaces(w) PROVE Compressions'
  <2>1. SwapStep(w) /\ UNCHANGED <<recorded, torn>> /\ \A t \in Dreams : InPlace(t)
    BY <1>5 DEF Replaces
  <2>2. Compressions
    BY <1>1, <2>1 DEF CompressionsHeld
  <2>3. CASE Rename(w) /\ w \in Dreams
    <3>1. task[w].pc \in {"swap", "undo"}
      BY <2>1, <2>3, Turning DEF Rename, At
    <3> QED BY <1>1, <2>1, <2>2, <2>3, <3>1, SwapRenameHeld, UndoRenameHeld
  <2>4. CASE Rename(w) /\ w \in Notes
    BY <1>1, <2>1, <2>2, <2>4, NoteRenameHeld
  <2>5. CASE Open(w) \/ Check(w) \/ Reread(w)
    BY <2>1, <2>2, <2>5, OpenHeld, CheckHeld, RereadHeld
  <2> QED BY <2>1, <2>3, <2>4, <2>5 DEF SwapStep, Writers
<1>6. ASSUME NEW n \in Notes, Reconsiders(n) PROVE Compressions'
  BY <1>1, <1>6, ReconsidersHeld DEF CompressionsHeld, Reconsiders
<1> QED BY <1>2, <1>3, <1>4, <1>5, <1>6 DEF MemoryForm

-------------------------------------------------------------------------------
(* What it comes to *)

(* The inductive invariant: types and the places of tasks, writers and row     *)
(* (executeClaimed, workingMemoryDocument.ts:95-158), what has been read      *)
(* against what the document has, and who answers for each compression.        *)
THEOREM DreamInvariance == Spec => []Inv
<1>1. Init => Inv
  BY InitOK, CarriedInit, CompressionsInit DEF Inv
<1>2. Inv /\ [Next]_vars => Inv'
  BY StructureNext, Forms, NotesCarriedNext, CompressionsNext DEF Inv
<1> QED BY <1>1, <1>2, PTL DEF Spec

LEMMA TypesSay == ASSUME Structure PROVE DreamTypeOK
<1>1. MemoryTypeOK
  <2>1. \A w \in Writers : swap[w] \in Swap
    BY DEF Structure, Types
  <2>2. DOMAIN swap = Writers /\ doc \subseteq Items /\ raced \subseteq Writers
    BY DEF Structure, Types, Docs
  <2> QED BY <2>1, <2>2 DEF MemoryTypeOK, Swap, Places, Docs
<1>2. row \in Row /\ (\A t \in Dreams : task[t].pc \in PCs) /\ longTerm \subseteq Records \cup {Dreamt}
      /\ recorded \subseteq SUBSET Notes /\ bound \in Bounds /\ budget \in 0..bound.faults
  BY DEF Structure, Types, Task
<1>3. RowOK
  BY DEF Structure
<1> QED BY <1>1, <1>2, <1>3 DEF DreamTypeOK, RowOK, Row, PCs

(* The row of the day never claims more than happened: an automatic schedule   *)
(* takes a round up three times at most, and a run that says its compression   *)
(* was applied has its addition in the long-term memory, its compression       *)
(* recorded and its input's notes, but for those that raced, in the document   *)
(* (dreamStore.ts:206, dreamConsolidationStore.ts:205-245).                    *)
THEOREM RowTellsTheTruth == Spec => []RowIsTrue
<1>1. Inv => RowIsTrue
  <2> SUFFICES ASSUME Inv PROVE RowIsTrue
    OBVIOUS
  <2>1. DreamTypeOK /\ RowOK /\ row \in Row
    BY TypesSay DEF Inv, Structure, Types
  <2>2. ThreeAutomaticClaims
    BY <2>1 DEF RowOK, ThreeAutomaticClaims
  <2>3. ASSUME row.result = "applied", NEW n \in Covered(row.input) \ raced PROVE n \in Covered(doc)
    <3>1. row.status # "none" /\ row.input \in Docs
      BY <2>1, <2>3 DEF RowOK
    <3>2. n \in Notes
      BY <3>1 DEF Docs, Items, Covered
    <3> QED BY <3>1, <3>2, <2>3 DEF Inv, NotesCarried, NoteCarried, Behind
  <2>4. CommitIsWhole
    BY <2>1, <2>3 DEF RowOK, CommitIsWhole
  <2> QED BY <2>1, <2>2, <2>4 DEF RowIsTrue
<1> QED BY <1>1, DreamInvariance, PTL

(* A note whose append was acknowledged leaves the document only if its rename *)
(* met another writer's, and a compression stands in the document only if a    *)
(* commit recorded it or will be told of it, short of a race, a crash or a     *)
(* changed file (workingMemoryDocument.ts:137-146,                             *)
(* dreamWorkingMemoryCommit.ts:36-58).                                         *)
THEOREM DocumentIsAccounted == Spec => []DocumentAccounted
<1>1. Inv => DocumentAccounted
  <2> SUFFICES ASSUME Inv PROVE DocumentAccounted
    OBVIOUS
  <2>1. LossNeedsRace
    BY DEF Inv, NotesCarried, NoteCarried, LossNeedsRace, At
  <2>2. ASSUME raced = {}, ~torn, NEW i \in doc, i.kind = "dream", i.covers \notin recorded
        PROVE Pending(i.covers)
    <3>1. PICK t \in Dreams : Holds(t) /\ Put(t) = {i}
      BY <2>2 DEF Inv, CompressionsHeld, Compressions, Answered, Compressed
    <3>2. i.covers = Covered(task[t].run.input)
      BY <3>1, DigestItem DEF Put
    <3> QED BY <3>1, <3>2 DEF Pending, Holds
  <2>3. CompressionsRecorded
    BY <2>2 DEF CompressionsRecorded, Inv, Structure, Types
  <2> QED BY <2>1, <2>3 DEF DocumentAccounted
<1> QED BY <1>1, DreamInvariance, PTL

===============================================================================
