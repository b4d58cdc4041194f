------------------------------ MODULE ReplyIntake ------------------------------
(***************************************************************************)
(* From an inbound message to the one reply event that answers it: the     *)
(* intake (src/runtime/intake.ts), the reply debounce and its recovery of  *)
(* conversation records (src/runtime/replyDebounce.ts) and the handoff of  *)
(* a quiet window to its conversation, over the turn store.                *)
(*                                                                         *)
(* Two stores are written by one process without a common transaction: the *)
(* session queue (turnVars) and the conversation records (disk), of which  *)
(* the process keeps a copy (record).  The coordinator is abstracted to    *)
(* what it claims and in which order it applies results (see TurnQueue).   *)
(* A snapshot is <<message, captureSequence>>, a payload a set of them.    *)
(***************************************************************************)
EXTENDS TurnStore, FiniteSets, Sequences

CONSTANTS
  Conversations,
  Senders,          \* the reply-debounce sessions, one per sender and conversation
  Home,             \* [Senders -> Conversations]
  Messages,
  From,             \* [Messages -> Senders]
  Copies,           \* deliveries of one message that may be handled at the same time
  MaxFollowUps,     \* MAX_RUNTIME_REPLY_FOLLOW_UP_SNAPSHOTS
  MaxRecord,        \* bound on the length of a record
  Bounds            \* how far behaviours may go, one of these records each

\* A small instance: the messages that arrive and those of them that ask for a reply (the
\* others are only recorded), how often each is delivered, bot.replyDebounceMs, how late
\* the clock runs and which disturbances may happen and how many.
Bound ==
  [messages : SUBSET Messages, direct : SUBSET Messages, copies : SUBSET Copies, delay : Nat,
   time : 0..MaxTime, kinds : SUBSET STRING, faults : Nat]

Assistant == "assistant"   \* an entry that is no user message

ASSUME IntakeAssumption ==
  /\ Sessions = Conversations \cup Senders
  /\ Conversations \cap Senders = {}
  /\ Home \in [Senders -> Conversations]
  /\ From \in [Messages -> Senders]
  /\ Keys = Messages \cup {NoKey} /\ NoKey \notin Messages
  /\ Assistant \notin Messages
  /\ MaxRecord \in Nat
  /\ Bodies = SUBSET (Messages \X (1..MaxRecord))
  /\ MaxFollowUps \in Nat \ {0}
  /\ Bounds \subseteq Bound
  /\ \A b \in Bounds : b.direct \subseteq b.messages

TheWorker == 1
ConvOf(m) == Home[From[m]]

VARIABLES
  now,
  seen,      \* seenIncomingEvents
  record,    \* conversation -> sequence of entries, in memory
  disk,      \* the same as last written
  intake,    \* message -> copy -> "none", or its record was recovered ("strict") or not ("plain")
  jobs,      \* event -> what its running handler holds
  window,    \* event -> the messages it answers for (history)
  bound,     \* how far this behaviour goes
  budget     \* disturbances left

intakeVars == <<seen, record, disk, intake>>
vars == <<turnVars, now, intakeVars, jobs, window, bound, budget>>

NoIntake == [m \in Messages |-> [i \in Copies |-> "none"]]
NoJob == [pc |-> "none", at |-> 0, body |-> {}]

IntakeTypeOK ==
  /\ TurnTypeOK
  /\ bound \in Bounds /\ now \in 0..bound.time
  /\ seen \subseteq Messages
  /\ record \in [Conversations -> Seq(Messages \cup {Assistant})]
  /\ disk \in [Conversations -> Seq(Messages \cup {Assistant})]
  /\ intake \in [Messages -> [Copies -> {"none", "plain", "strict"}]]
  /\ jobs \in [EventIds -> [pc : {"none", "claimed", "ready"}, at : 0..MaxTime, body : Bodies]]
  /\ window \in [EventIds -> SUBSET Messages]
  /\ budget \in 0..bound.faults
  /\ \A e \in EventIds : events[e].at <= bound.time

Init ==
  /\ TurnStoreInit
  /\ now = 0 /\ seen = {}
  /\ record = [c \in Conversations |-> <<>>]
  /\ disk = [c \in Conversations |-> <<>>]
  /\ intake = NoIntake
  /\ jobs = [e \in EventIds |-> NoJob]
  /\ window = [e \in EventIds |-> {}]
  /\ bound \in Bounds /\ budget = bound.faults

Disturb(kind) ==
  /\ kind \in bound.kinds /\ budget > 0
  /\ budget' = budget - 1 /\ UNCHANGED bound

Delay == bound.delay

--------------------------------------------------------------------------------
(* Conversation records *)

Entries(rec) == {rec[i] : i \in DOMAIN rec}

Latest(body) == CHOOSE s \in body : \A t \in body : t[2] <= s[2]
Earliest(body) == CHOOSE s \in body : \A t \in body : s[2] <= t[2]

\* runtime_incomingCaptureSequence
CaptureSequence(rec, m) ==
  IF m \in Entries(rec) THEN CHOOSE i \in DOMAIN rec : rec[i] = m ELSE Len(rec) + 1

\* mutant: a recorded message is not looked for
AlwaysRecorded(rec, m, n) == Append(rec, m)

\* runtime_recordIncomingMessage
WithMessage(rec, m, n) ==
  IF m \in Entries(rec) \/ Len(rec) >= n THEN rec ELSE Append(rec, m)

\* a message is taken at its earliest captureSequence
Unique(snaps) == {s \in snaps : \A t \in snaps : t[1] = s[1] => s[2] <= t[2]}

Ahead(rec, snaps) == {s \in Unique(snaps) : s[2] > Len(rec)}

Fresh(rec, snaps) == {s \in Ahead(rec, snaps) : s[1] \notin Entries(rec)}

\* recoverSnapshots throws at a sequence another entry has taken and at a missing one; a
\* message that is recorded elsewhere passes and is not appended
Recoverable(rec, snaps) ==
  LET fresh == Fresh(rec, snaps)
  IN /\ \A s \in Unique(snaps) : s[2] <= Len(rec) => rec[s[2]] = s[1]
     /\ \A s \in Ahead(rec, snaps) :
          s[2] = Len(rec) + 1 + Cardinality({t \in fresh : t[2] < s[2]})
     /\ \A s, t \in fresh : s[2] = t[2] => s = t

Recovered(rec, snaps) ==
  LET fresh == Fresh(rec, snaps)
  IN  rec \o [i \in 1..Cardinality(fresh) |-> CHOOSE m \in Messages : <<m, Len(rec) + i>> \in fresh]

ActiveWindows(c) ==
  {e \in EventIds : Active(e) /\ events[e].session \in Senders /\ Home[events[e].session] = c}

Payloads(E) == UNION {events[e].body : e \in E}

\* activeConversationPayloads, all their snapshots
ActiveSnapshots(c) == IF Delay = 0 THEN {} ELSE Payloads(ActiveWindows(c))

Replies(e) == events[e].state # "absent" /\ events[e].session \in Conversations

\* recoverSnapshots with its strict write
Recover(c, snaps) ==
  /\ record' = [record EXCEPT ![c] = Recovered(@, snaps)]
  /\ disk' = [disk EXCEPT ![c] = record'[c]]

\* it takes the snapshots in the order of their sequences
Passes(rec, snaps, P) ==
  Recoverable(rec, P) /\ \A s \in P, t \in Unique(snaps) : t[2] < s[2] => t \in P

\* at the first that does not pass it throws; what it appended by then stays in memory
Throw(c, snaps) ==
  \E P \in SUBSET Unique(snaps) :
    /\ Passes(record[c], snaps, P)
    /\ \A s \in Unique(snaps) \ P : ~Passes(record[c], snaps, P \cup {s})
    /\ record' = [record EXCEPT ![c] = Recovered(@, P)]
    /\ UNCHANGED disk

--------------------------------------------------------------------------------
(* Intake *)

\* recoverActiveConversation
ToRecover(c) == ActiveSnapshots(c)

\* up to the await of handleInboundConversationGate; a message the record already
\* has is only marked seen
Arrive(m, i) ==
  LET c == ConvOf(m)
      snaps == ToRecover(c)
  IN /\ m \in bound.messages /\ i \in bound.copies
     /\ m \notin seen /\ intake[m][i] = "none"
     /\ \/ /\ Recoverable(record[c], snaps)
           /\ IF snaps = {} THEN UNCHANGED <<record, disk>> ELSE Recover(c, snaps)
           /\ IF m \in Entries(record'[c])
                THEN seen' = seen \cup {m} /\ UNCHANGED intake
                ELSE /\ intake' = [intake EXCEPT ![m][i] = IF snaps = {} THEN "plain" ELSE "strict"]
                     /\ UNCHANGED seen
        \/ /\ ~Recoverable(record[c], snaps)
           /\ Throw(c, snaps)
           /\ UNCHANGED <<seen, intake>>
     /\ UNCHANGED <<turnVars, now, jobs, window, bound, budget>>

ActiveOf(sender) == {e \in EventIds : Active(e) /\ events[e].session = sender /\ Delay > 0}

Bumped(body, m, n) ==
  LET followUps == (body \ {Earliest(body)}) \cup {<<m, n>>}
      kept == {s \in followUps :
                 Cardinality({t \in followUps : t[2] > s[2]}) < MaxFollowUps}
  IN  {Earliest(body)} \cup kept

BumpSequence(e, m) ==
  Later(Latest(events[e].body)[2] + 1, CaptureSequence(record[ConvOf(m)], m))

\* handleActiveIncoming: deadline and payload in one compare-and-set, then the record from
\* the new payload; how says what happens before the record is written
Bump(m, i, how) ==
  \E e \in ActiveOf(From[m]) :
    LET c == ConvOf(m)
        body == events[e].body
        n == BumpSequence(e, m)
        at == Later(now + Delay, events[e].at + 1)
        snaps == Payloads(ActiveWindows(c) \ {e}) \cup Bumped(body, m, n)
    IN /\ intake[m][i] # "none"
       /\ m \notin {s[1] : s \in body}
       /\ at <= bound.time /\ n <= MaxRecord
       /\ UpdateActiveEvent(e, at, Bumped(body, m, n))
       /\ window' = [window EXCEPT ![e] = @ \cup {m}]
       /\ intake' = [intake EXCEPT ![m][i] = "none"]
       /\ IF ~Recoverable(record[c], snaps) THEN Throw(c, snaps) /\ UNCHANGED seen
          ELSE /\ record' = [record EXCEPT ![c] = Recovered(@, snaps)]
               /\ IF how = "unsaved" THEN UNCHANGED <<disk, seen>>
                  ELSE /\ disk' = [disk EXCEPT ![c] = record'[c]]
                       /\ seen' = seen \cup {m}
       /\ UNCHANGED <<now, jobs>>

\* the snapshot is already in the payload: neither payload nor deadline changes
BumpDuplicate(m, i) ==
  /\ intake[m][i] # "none"
  /\ \E e \in ActiveOf(From[m]) : m \in {s[1] : s \in events[e].body}
  /\ seen' = seen \cup {m}
  /\ intake' = [intake EXCEPT ![m][i] = "none"]
  /\ UNCHANGED <<turnVars, now, record, disk, jobs, window, bound, budget>>

\* RuntimeReplyDebounce.schedule
ScheduleReply(m, n) ==
  LET s == IF Delay = 0 THEN ConvOf(m) ELSE From[m]
  IN /\ now + Delay <= bound.time /\ n <= MaxRecord
     /\ EnqueueEvent(s, m, {<<m, n>>}, now + Delay)
     /\ window' = IF IsDuplicate(s, m) THEN window
                  ELSE [window EXCEPT ![filled + 1] = {m}]

\* a save that fails is swallowed, a strict one throws after the record is rolled back
Recorded(m, i, n, how) ==
  LET c == ConvOf(m)
      rolledBack == how = "unsaved" /\ intake[m][i] = "strict"
  IN /\ record' = IF rolledBack THEN record ELSE [record EXCEPT ![c] = WithMessage(@, m, n)]
     /\ disk' = IF how = "unsaved" THEN disk ELSE [disk EXCEPT ![c] = record'[c]]
     /\ seen' = IF rolledBack THEN seen ELSE seen \cup {m}
     /\ intake' = [intake EXCEPT ![m][i] = "none"]

\* a message that asks for a reply and has no window opens one
Open(m, i, how) ==
  LET n == CaptureSequence(record[ConvOf(m)], m)
  IN /\ intake[m][i] # "none" /\ m \in bound.direct /\ ActiveOf(From[m]) = {}
     /\ ScheduleReply(m, n)
     /\ Recorded(m, i, n, how)
     /\ UNCHANGED <<now, jobs>>

\* any other message is recorded
Record(m, i, how) ==
  LET n == CaptureSequence(record[ConvOf(m)], m)
  IN /\ intake[m][i] # "none" /\ m \notin bound.direct /\ ActiveOf(From[m]) = {}
     /\ n <= MaxRecord
     /\ Recorded(m, i, n, how)
     /\ UNCHANGED <<turnVars, now, jobs, window>>

Accept(m, i) ==
  \/ BumpDuplicate(m, i)
  \/ \E how \in {"recorded", "unsaved"} :
       /\ IF how = "unsaved" THEN Disturb("save") ELSE UNCHANGED <<bound, budget>>
       /\ Bump(m, i, how) \/ Open(m, i, how) \/ Record(m, i, how)

--------------------------------------------------------------------------------
(* Turns *)

Attempt(e) == events[e].attempts

\* the handler keeps the event as the claim read it
Claim(e) ==
  /\ ClaimableAt(e, now)
  /\ ClaimTurns({e}, TheWorker)
  /\ jobs' = [jobs EXCEPT ![e] = [pc |-> "claimed", at |-> events[e].at, body |-> events[e].body]]
  /\ UNCHANGED <<now, intakeVars, window, bound, budget>>

\* the turn ends with this outcome and the handler is gone
EndJob(e, outcome) ==
  /\ FinishTurn(e, Attempt(e), outcome)
  /\ jobs' = [jobs EXCEPT ![e] = NoJob]

\* recoverMessages(payload)
JobSnapshots(e, c) == ActiveSnapshots(c) \cup jobs[e].body

\* mutant: the handler goes on without writing the record
KeepRecord(c, snaps) == UNCHANGED <<record, disk>>

RecoverForTurn(c, snaps) == Recover(c, snaps)

\* process: the record is written before anything is handed off
ProcessDebounce(e) ==
  LET c == Home[events[e].session]
      snaps == JobSnapshots(e, c)
  IN /\ jobs[e].pc = "claimed" /\ events[e].session \in Senders
     /\ \/ /\ Recoverable(record[c], snaps)
           /\ RecoverForTurn(c, snaps)
           /\ jobs' = [jobs EXCEPT ![e].pc = "ready"]
           /\ UNCHANGED turnVars
        \/ /\ ~Recoverable(record[c], snaps)
           /\ Throw(c, snaps)
           /\ EndJob(e, "failed")
     /\ UNCHANGED <<now, seen, intake, window, bound, budget>>

\* the reply gate moved: the window is dropped
GateClosed(e) ==
  /\ jobs[e].pc = "ready"
  /\ Disturb("gate")
  /\ EndJob(e, "no_reply")
  /\ UNCHANGED <<now, intakeVars, window>>

\* the handoff under the first message's reply key; a collision interrupts the turn
HandOffWindow(e) ==
  LET c == Home[events[e].session]
      key == Earliest(jobs[e].body)[1]
      moved == DeadlineMoved(e, jobs[e].at, now)
      new == ~moved /\ ~IsDuplicate(c, key)
  IN /\ jobs[e].pc = "ready"
     /\ IF ~moved /\ HandoffCollides(c, key, jobs[e].body)
          THEN InterruptTurn(e, Attempt(e))
          ELSE HandoffTurn(e, Attempt(e), c, key, jobs[e].body, jobs[e].at, now)
     /\ window' = IF new THEN [window EXCEPT ![filled + 1] = window[e]] ELSE window
     /\ jobs' = [jobs EXCEPT ![e] = NoJob]
     /\ UNCHANGED <<now, intakeVars, bound, budget>>

\* processIncomingReplyEvent: recover, write an assistant entry, answer
Answer(e) ==
  LET c == events[e].session
      snaps == JobSnapshots(e, c)
  IN /\ jobs[e].pc = "claimed" /\ Replies(e)
     /\ \/ /\ Recoverable(record[c], snaps)
           /\ record' = [record EXCEPT ![c] = Append(Recovered(@, snaps), Assistant)]
           /\ disk' = [disk EXCEPT ![c] = record'[c]]
           /\ seen' = seen \cup {Earliest(jobs[e].body)[1]}
           /\ EndJob(e, "replied")
        \/ /\ ~Recoverable(record[c], snaps)
           /\ Throw(c, snaps)
           /\ EndJob(e, "failed")
           /\ UNCHANGED seen
     /\ UNCHANGED <<now, intake, window, bound, budget>>

--------------------------------------------------------------------------------
(* The process *)

\* what a delivery awaits there is settled before any timer runs
AtTheGate == \E m \in Messages, i \in Copies : intake[m][i] # "none"

Tick ==
  /\ now < bound.time /\ ~AtTheGate
  /\ now' = now + 1
  /\ UNCHANGED <<turnVars, intakeVars, jobs, window, bound, budget>>

\* seenIncomingEvents forgets after its TTL
Forget(m) ==
  /\ m \in seen
  /\ Disturb("forget")
  /\ seen' = seen \ {m}
  /\ UNCHANGED <<turnVars, now, record, disk, intake, jobs, window>>

LoseMemory ==
  /\ seen' = {}
  /\ record' = disk
  /\ intake' = NoIntake
  /\ jobs' = [e \in EventIds |-> NoJob]

Crash ==
  /\ Disturb("crash")
  /\ LoseMemory
  /\ UNCHANGED <<turnVars, now, disk, window>>

\* a crash after the queue was written and before the record was
CrashAfterOpen(m, i) ==
  /\ Disturb("crash")
  /\ intake[m][i] # "none" /\ m \in bound.direct /\ ActiveOf(From[m]) = {}
  /\ ScheduleReply(m, CaptureSequence(record[ConvOf(m)], m))
  /\ LoseMemory
  /\ UNCHANGED <<now, disk>>

\* a crash after the compare-and-set of a window and before its record
CrashAfterBump(m, i) ==
  /\ Disturb("crash")
  /\ intake[m][i] # "none"
  /\ \E e \in ActiveOf(From[m]) :
       LET at == Later(now + Delay, events[e].at + 1)
       IN /\ m \notin {s[1] : s \in events[e].body}
          /\ at <= bound.time /\ BumpSequence(e, m) <= MaxRecord
          /\ UpdateActiveEvent(e, at, Bumped(events[e].body, m, BumpSequence(e, m)))
          /\ window' = [window EXCEPT ![e] = @ \cup {m}]
  /\ LoseMemory
  /\ UNCHANGED <<now, disk>>

\* a turn whose handler died is recovered before anything else runs
Lost == \E e \in EventIds : events[e].state = "running" /\ jobs[e].pc = "none"

Restart ==
  /\ Lost
  /\ RecoverTurnLeases(now)
  /\ UNCHANGED <<now, intakeVars, jobs, window, bound, budget>>

Handle(e) == Claim(e) \/ ProcessDebounce(e) \/ HandOffWindow(e) \/ Answer(e)

Work ==
  \/ \E m \in Messages : Forget(m)
  \/ \E m \in Messages, i \in Copies :
       Arrive(m, i) \/ Accept(m, i) \/ CrashAfterOpen(m, i) \/ CrashAfterBump(m, i)
  \/ \E e \in EventIds : Handle(e) \/ GateClosed(e)
  \/ Tick \/ Crash

Next == Restart \/ (~Lost /\ Work)

Spec == Init /\ [][Next]_vars

\* the coordinator claims and runs what is due, handlers return and the clock runs
FairSpec ==
  /\ Spec
  /\ WF_vars(Tick) /\ WF_vars(Restart)
  /\ WF_vars(\E m \in Messages, i \in Copies : Accept(m, i))
  /\ WF_vars(\E e \in EventIds : Handle(e))

--------------------------------------------------------------------------------
(* Properties *)

\* Saves do not fail, and either a message has one delivery at the gate or, when a message
\* is answered by itself at once, nothing crashes.
Calm ==
  /\ "save" \notin bound.kinds
  /\ IF Delay = 0 THEN "crash" \notin bound.kinds ELSE \A i, j \in bound.copies : i = j

\* A message is answered by one reply event, however often it is delivered and wherever
\* the process crashes.  (A window needs Calm: when two payloads claim one sequence the
\* recovery throws, and a message that a later one pushes out of the payload meanwhile is
\* on no record and delivered as a new one.)
AnsweredOnce ==
  (Delay = 0 \/ Calm) =>
    \A m \in Messages : Cardinality({e \in EventIds : Replies(e) /\ m \in window[e]}) <= 1

\* A reply event's context reaches every message of the window it answers: those that
\* arrived while the handoff was running, and those whose snapshot was dropped from the
\* tail (under the same condition as AnsweredOnce).
HandoffCarriesAll ==
  (Delay = 0 \/ Calm) =>
    \A e \in EventIds : (Replies(e) /\ events[e].body # {}) =>
      \A m \in window[e] :
        \/ m \in {s[1] : s \in events[e].body}
        \/ \E n \in 1..Latest(events[e].body)[2] :
             n \in DOMAIN disk[events[e].session] /\ disk[events[e].session][n] = m

\* What the queue holds can always be merged into the records on disk: a crash between
\* the two stores, or another sender's message, never takes a captured sequence.  (Without
\* Calm one can be lost: by a plain save that fails, which the code only logs; by a second
\* delivery that enters a window after the first was recorded outside it; and with no
\* debounce by a crash before the record, since nothing recovers it before the next message.)
SnapshotsRecoverable ==
  Calm => \A c \in Conversations :
    Recoverable(disk[c], ActiveSnapshots(c) \cup
      UNION {events[e].body : e \in {t \in EventIds : Active(t) /\ events[t].session = c}})

\* No message is recorded twice, though a second delivery of it may have passed the
\* duplicate check before the first was recorded.
RecordedOnce ==
  \A c \in Conversations, m \in Messages :
    Cardinality({i \in DOMAIN record[c] : record[c][i] = m}) <= 1

\* Room for a window and a reply event for every message, no reply gate that closes, and no
\* delivery that the bounds of an instance hold at the gate.
Unhindered ==
  2 * Cardinality(bound.messages) <= MaxEvents /\ bound.kinds \subseteq {"crash"} /\ ~AtTheGate

Answered(m) ==
  \E e \in EventIds, a \in Attempts :
    Replies(e) /\ m \in window[e] /\ turns[e][a].status = "replied"

\* Every message that has entered a window is answered in the end (windows only grow and an
\* answer stands, so it is enough that this is true again and again).
EveryWindowAnswered ==
  []<>(Unhindered => \A m \in Messages : (\E e \in EventIds : m \in window[e]) => Answered(m))

\* The queue and the conversation records, written by one process without a common
\* transaction, fit together: each message recorded once, each captured sequence usable.
RecordsFit == IntakeTypeOK /\ RecordedOnce /\ SnapshotsRecoverable

================================================================================
