------------------------------ MODULE OutboxStore ------------------------------
(***************************************************************************)
(* The durable outbox: the outbox table, and the outbox columns of the     *)
(* sessions table, of the Session store                                    *)
(* (services/sessions/sessionOutboxStore.ts, outboxSettleStore.ts,         *)
(* sessionHeldOutboxStore.ts).  Every operation of the store is one        *)
(* BEGIN IMMEDIATE transaction, hence one operator here: a Can... guard    *)
(* (what the operation checks before it writes, and throws about) and an   *)
(* update of the rows.                                                     *)
(*                                                                         *)
(* A row's identity is its place in the global append order.  The store    *)
(* allocates a session sequence and a partition sequence in the insert's   *)
(* transaction, so both orders are the append order restricted to the      *)
(* session and to the delivery partition.                                  *)
(*                                                                         *)
(* Time is abstracted to what the queries test: due is                     *)
(* available_at <= now and lapsed is lease_until <= now.                   *)
(***************************************************************************)
EXTENDS Integers

CONSTANTS
  Sessions,      \* session ids
  Partitions,    \* delivery partitions (an OneBot account, "web", an adapter)
  MaxRows,       \* bound on the number of rows ever appended
  MaxAttempts,   \* maxOutboxAttempts of the coordinator; attempts saturate here
  Steps,         \* the settle steps of a delivery, numbered in their order
  Effects        \* the steps that run through settleEffectStep (hooks)

ASSUME StoreAssumption ==
  /\ Sessions # {}
  /\ Partitions # {}
  /\ MaxRows \in Nat
  /\ MaxAttempts \in Nat \ {0}
  /\ Steps \subseteq Nat \ {0}
  /\ Effects \subseteq Steps

RowIds == 1..MaxRows
NoRow == 0
NoStep == 0
NoWorker == 0

Terminal == {"sent", "dead", "delivery_unknown"}
Outcomes == {"sent", "dead", "delivery_unknown", "retry"}
Deliverable == {"none", "released", "fallback_released"}

OutboxRow ==
  [session   : Sessions,
   partition : Partitions,
   seq       : Nat,
   state     : {"absent", "pending", "sending", "sent_remote"} \cup Terminal,
   hold      : Deliverable \cup {"held"},
   due       : BOOLEAN,
   attempts  : 0..MaxAttempts,
   worker    : Nat,
   lapsed    : BOOLEAN,
   started   : BOOLEAN,
   steps     : SUBSET Steps,
   uncertain : Steps \cup {NoStep},
   replayOf  : RowIds \cup {NoRow}]

VARIABLES
  rows,     \* RowIds -> OutboxRow
  size,     \* rows appended so far
  next,     \* sessions.next_outbox_sequence
  cursor    \* sessions.completed_outbox_sequence

storeVars == <<rows, size, next, cursor>>

StoreTypeOK ==
  /\ rows \in [RowIds -> OutboxRow]
  /\ size \in 0..MaxRows
  /\ next \in [Sessions -> Nat]
  /\ cursor \in [Sessions -> Nat]

NewRow(s, p, h, seq, src, state) ==
  [session |-> s, partition |-> p, seq |-> seq, state |-> state, hold |-> h,
   due |-> TRUE, attempts |-> 0, worker |-> NoWorker, lapsed |-> FALSE,
   started |-> FALSE, steps |-> {}, uncertain |-> NoStep, replayOf |-> src]

StoreInit ==
  /\ rows = [i \in RowIds |->
               NewRow(CHOOSE s \in Sessions : TRUE, CHOOSE p \in Partitions : TRUE,
                      "none", 0, NoRow, "absent")]
  /\ size = 0
  /\ next = [s \in Sessions |-> 0]
  /\ cursor = [s \in Sessions |-> 0]

--------------------------------------------------------------------------------
(* Appending and holding *)

InsertOutbox(s, p, h, src) ==
  /\ size < MaxRows
  /\ size' = size + 1
  /\ next' = [next EXCEPT ![s] = @ + 1]
  /\ rows' = [rows EXCEPT ![size + 1] = NewRow(s, p, h, next[s] + 1, src, "pending")]
  /\ UNCHANGED cursor

\* releaseHeldOutbox / neutralizeAndReleaseHeldOutbox of a row still held
ReleaseHeldOutbox(i, outcome) ==
  /\ rows[i].state # "absent"
  /\ rows[i].hold = "held"
  /\ rows' = [rows EXCEPT ![i].hold = outcome]
  /\ UNCHANGED <<size, next, cursor>>

--------------------------------------------------------------------------------
(* Claiming and leasing *)

\* mutant: the session cursor is not consulted
AnyRowIsHead(i) == TRUE

\* completed_outbox_sequence + 1
IsHead(i) == rows[i].seq = cursor[rows[i].session] + 1

\* mutant: an earlier row blocks its partition only until it is claimed
NoEarlierPending(i) ==
  \A e \in RowIds :
    (e < i /\ rows[e].partition = rows[i].partition) => rows[e].state # "pending"

\* no earlier row of the delivery partition is unfinished
PartitionFree(i) ==
  \A e \in RowIds :
    (e < i /\ rows[e].partition = rows[i].partition) => rows[e].state \in Terminal

\* the WHERE clause of claimNextOutbox, without the excluded partitions
Eligible(i) ==
  /\ rows[i].state \in {"pending", "sent_remote"}
  /\ rows[i].hold \in Deliverable
  /\ rows[i].due
  /\ IsHead(i)
  /\ PartitionFree(i)
  /\ rows[i].state = "sent_remote" => (rows[i].worker = NoWorker \/ rows[i].lapsed)

ClaimedRow(r, w) ==
  IF r.state = "pending"
    THEN [r EXCEPT !.state = "sending", !.worker = w, !.lapsed = FALSE, !.started = FALSE,
                   !.attempts = IF @ < MaxAttempts THEN @ + 1 ELSE @]
    ELSE [r EXCEPT !.worker = w, !.lapsed = FALSE]

ClaimOutbox(i, w) ==
  /\ rows' = [rows EXCEPT ![i] = ClaimedRow(@, w)]
  /\ UNCHANGED <<size, next, cursor>>

Leased(i) == rows[i].state \in {"sending", "sent_remote"} /\ rows[i].worker # NoWorker

RenewOutboxLease(i, w) ==
  /\ Leased(i) /\ rows[i].worker = w
  /\ rows' = [rows EXCEPT ![i].lapsed = FALSE]
  /\ UNCHANGED <<size, next, cursor>>

--------------------------------------------------------------------------------
(* The two phases of a delivery: transport, then settle *)

CanStartTransport(i, w) ==
  /\ rows[i].state = "sending" /\ rows[i].worker = w
  /\ ~rows[i].started

MarkOutboxTransportStarted(i) ==
  /\ rows' = [rows EXCEPT ![i].started = TRUE]
  /\ UNCHANGED <<size, next, cursor>>

CanRecordReceipt(i, w) ==
  /\ rows[i].worker = w
  /\ \/ rows[i].state = "sent_remote"
     \/ rows[i].state = "sending" /\ rows[i].started

MarkOutboxRemoteSent(i) ==
  /\ rows' = [rows EXCEPT ![i].state = "sent_remote"]
  /\ UNCHANGED <<size, next, cursor>>

SentRemoteBy(i, w) == rows[i].state = "sent_remote" /\ rows[i].worker = w

CompleteOutboxSettleStep(i, st) ==
  /\ rows' = [rows EXCEPT ![i].steps = @ \cup {st}]
  /\ UNCHANGED <<size, next, cursor>>

\* beginOutboxSettleEffect returns without a write when the step is complete
CanBeginEffect(i, w, st) ==
  /\ SentRemoteBy(i, w)
  /\ st \in rows[i].steps \/ rows[i].uncertain = NoStep

\* mutant: the hook runs without the write-ahead mark
BeginUnmarked(i, st) == UNCHANGED storeVars

BeginOutboxSettleEffect(i, st) ==
  /\ rows' = [rows EXCEPT ![i].uncertain = IF st \in rows[i].steps THEN @ ELSE st]
  /\ UNCHANGED <<size, next, cursor>>

CanCompleteEffect(i, w, st) ==
  /\ SentRemoteBy(i, w)
  /\ \/ st \in rows[i].steps /\ rows[i].uncertain = NoStep
     \/ rows[i].uncertain = st

CompleteOutboxSettleEffect(i, st) ==
  /\ rows' = [rows EXCEPT ![i].steps = @ \cup {st}, ![i].uncertain = NoStep]
  /\ UNCHANGED <<size, next, cursor>>

--------------------------------------------------------------------------------
(* Finishing *)

CanFinishOutbox(i, w, outcome) ==
  /\ rows[i].state \in {"sending", "sent_remote"}
  /\ rows[i].worker = w
  /\ rows[i].uncertain # NoStep => outcome = "delivery_unknown"
  /\ outcome # "retry" => IsHead(i)

\* mutant: a retry keeps the lease
RetriedUnderLease(r, due) ==
  [r EXCEPT !.state = IF @ = "sent_remote" THEN @ ELSE "pending", !.due = due]

RetriedRow(r, due) ==
  [r EXCEPT !.state = IF @ = "sent_remote" THEN @ ELSE "pending",
            !.worker = NoWorker, !.lapsed = FALSE, !.due = due]

ClosedRow(r, outcome) ==
  [r EXCEPT !.state = outcome, !.worker = NoWorker, !.lapsed = FALSE]

\* mutant: the cursor passes an unknown settle effect
FinishAndAdvance(i, outcome, due) ==
  /\ rows' = [rows EXCEPT ![i] = IF outcome = "retry" THEN RetriedRow(@, due)
                                                      ELSE ClosedRow(@, outcome)]
  /\ cursor' = IF outcome = "retry" THEN cursor
                 ELSE [cursor EXCEPT ![rows[i].session] = rows[i].seq]
  /\ UNCHANGED <<size, next>>

\* an unknown settle effect closes the row but leaves the session cursor behind it
FinishOutbox(i, outcome, due) ==
  /\ rows' = [rows EXCEPT ![i] = IF outcome = "retry" THEN RetriedRow(@, due)
                                                      ELSE ClosedRow(@, outcome)]
  /\ cursor' = IF outcome = "retry" \/ rows[i].uncertain # NoStep
                 THEN cursor
                 ELSE [cursor EXCEPT ![rows[i].session] = rows[i].seq]
  /\ UNCHANGED <<size, next>>

--------------------------------------------------------------------------------
(* Operator decisions about an unknown delivery *)

\* confirmed = applied keeps the effect, not_applied lets it run again
ResolveUnknownSettle(i, applied) ==
  /\ rows[i].state = "delivery_unknown" /\ rows[i].uncertain # NoStep
  /\ rows' = [rows EXCEPT ![i].state = "sent_remote",
                          ![i].steps = IF applied THEN @ \cup {rows[i].uncertain} ELSE @,
                          ![i].uncertain = NoStep, ![i].due = TRUE]
  /\ UNCHANGED <<size, next, cursor>>

\* replayUnknownOutbox(confirmedNotSent) of a row without a replay
ReplayUnknownOutbox(i) ==
  /\ rows[i].state = "delivery_unknown" /\ rows[i].uncertain = NoStep
  /\ rows[i].hold \in Deliverable
  /\ \A j \in RowIds : rows[j].state # "absent" => rows[j].replayOf # i
  /\ InsertOutbox(rows[i].session, rows[i].partition, rows[i].hold, i)

--------------------------------------------------------------------------------
(* Startup recovery: recoverOutboxLeases(all) and, for held rows, the      *)
(* neutralisation by recoverTurnLeases and recoverTerminalHeldOutbox.      *)

\* mutant: recovery forgets that the transport had started
NeverLost(r) == FALSE

LostInTransport(r) == r.state = "sending" /\ r.started

LostInSettle(r) == r.state = "sent_remote" /\ r.uncertain # NoStep

RecoveredState(r) ==
  IF LostInTransport(r) \/ LostInSettle(r) THEN "delivery_unknown"
  ELSE IF r.state = "sending" THEN "pending" ELSE r.state

\* what is delivered or settled again is due at once; other timers are left alone
RecoveredDue(r) ==
  \/ r.due
  \/ r.state \in {"sending", "sent_remote"} /\ ~LostInTransport(r) /\ ~LostInSettle(r)

RecoveredHold(r) == IF r.hold = "held" THEN "fallback_released" ELSE r.hold

RecoveredRow(r) ==
  [r EXCEPT !.state = RecoveredState(r), !.hold = RecoveredHold(r), !.due = RecoveredDue(r),
            !.worker = NoWorker, !.lapsed = FALSE]

\* the transaction throws when a row lost in transport is not its session's head
RecoverOutbox ==
  /\ \A i \in RowIds : LostInTransport(rows[i]) => IsHead(i)
  /\ rows' = [i \in RowIds |-> RecoveredRow(rows[i])]
  /\ cursor' = [s \in Sessions |->
                  IF \E i \in RowIds : rows[i].session = s /\ LostInTransport(rows[i])
                    THEN cursor[s] + 1 ELSE cursor[s]]
  /\ UNCHANGED <<size, next>>

================================================================================
