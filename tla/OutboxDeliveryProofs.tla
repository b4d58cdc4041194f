------------------------- MODULE OutboxDeliveryProofs --------------------------
(***************************************************************************)
(* Theorems of OutboxDelivery for every value of its constants, in four    *)
(* parts.                                                                  *)
(*                                                                         *)
(* The durable rows.  Every action of the coordinator touches them through *)
(* one operation of the store.  StoreStep names those operations with the  *)
(* guards the actions supply, and the inductive invariant RowsInv is       *)
(* preserved by each of them; nothing about the in-memory tasks is needed. *)
(*                                                                         *)
(* The coordinator.  Each of its actions is a StoreStep and keeps memory   *)
(* and tasks typed.                                                        *)
(*                                                                         *)
(* The order of sends and the refinement of OrderedOutbox.                 *)
(*                                                                         *)
(* The coordinator's bookkeeping.  Every step has one of five forms        *)
(* (StepForm): a task goes on, a task ends, a row is taken up, something   *)
(* else stirs, a coordinator comes or goes.  On these rest the probes of   *)
(* paused partitions, the timers and scans, the leases and the hooks.      *)
(***************************************************************************)
EXTENDS OutboxDelivery, TLAPS

--------------------------------------------------------------------------------
(* The steps of the store *)

FinishStep(i, outcome, due) ==
  /\ outcome \in Outcomes /\ due \in BOOLEAN
  /\ rows[i].state \in {"sending", "sent_remote"}
  /\ rows[i].uncertain # NoStep => outcome = "delivery_unknown"
  /\ outcome # "retry" => IsHead(i)
  /\ outcome = "retry" => (rows[i].state = "sent_remote" \/ ~rows[i].started)
  /\ FinishOutbox(i, outcome, due)

\* one operation on a row that leaves the transport count alone
RowOperation(i) ==
  \/ \E outcome \in Deliverable : ReleaseHeldOutbox(i, outcome)
  \/ \E w \in Nat : Eligible(i) /\ ClaimOutbox(i, w)
  \/ \E w \in Nat : CanRecordReceipt(i, w) /\ MarkOutboxRemoteSent(i)
  \/ \E w \in Nat, st \in Steps : SentRemoteBy(i, w) /\ CompleteOutboxSettleStep(i, st)
  \/ \E w \in Nat, st \in Steps : CanBeginEffect(i, w, st) /\ BeginOutboxSettleEffect(i, st)
  \/ \E w \in Nat, st \in Steps : CanCompleteEffect(i, w, st) /\ CompleteOutboxSettleEffect(i, st)
  \/ \E outcome \in Outcomes, due \in BOOLEAN : FinishStep(i, outcome, due)
  \/ \E kept \in BOOLEAN : ResolveUnknownSettle(i, kept)
  \/ \E lapsed \in BOOLEAN :
       rows' = [rows EXCEPT ![i].lapsed = lapsed] /\ UNCHANGED <<size, next, cursor>>
  \/ rows' = [rows EXCEPT ![i].due = TRUE] /\ UNCHANGED <<size, next, cursor>>

Transport(i) ==
  /\ \E w \in Nat : CanStartTransport(i, w)
  /\ MarkOutboxTransportStarted(i)
  /\ sends' = [sends EXCEPT ![i] = @ + 1]

Insertion ==
  \E s \in Sessions, p \in Partitions, h \in Deliverable \cup {"held"},
     src \in RowIds \cup {NoRow} : InsertOutbox(s, p, h, src)

StoreStep ==
  \/ UNCHANGED <<storeVars, sends>>
  \/ Insertion /\ UNCHANGED sends
  \/ RecoverOutbox /\ UNCHANGED sends
  \/ \E i \in RowIds : RowOperation(i) /\ UNCHANGED sends
  \/ \E i \in RowIds : Transport(i)

--------------------------------------------------------------------------------
(* Types of the durable rows *)

\* an inserted row has the type of a row
LEMMA NewRowType ==
  ASSUME NEW s \in Sessions, NEW p \in Partitions, NEW h \in Deliverable \cup {"held"},
         NEW seq \in Nat, NEW src \in RowIds \cup {NoRow},
         NEW state \in {"absent", "pending"}
  PROVE  NewRow(s, p, h, seq, src, state) \in OutboxRow
BY StoreAssumption DEF NewRow, OutboxRow, NoWorker, NoStep

\* every operation on one row keeps the table typed
LEMMA RowOperationType ==
  ASSUME StoreTypeOK, NEW i \in RowIds, RowOperation(i)
  PROVE  StoreTypeOK'
<1> USE StoreAssumption DEF StoreTypeOK
<1>r. rows[i] \in OutboxRow  OBVIOUS
<1>1. CASE \E outcome \in Deliverable : ReleaseHeldOutbox(i, outcome)
  BY <1>1, <1>r DEF ReleaseHeldOutbox, OutboxRow
<1>2. CASE \E w \in Nat : Eligible(i) /\ ClaimOutbox(i, w)
  <2>1. PICK w \in Nat : rows' = [rows EXCEPT ![i] = ClaimedRow(rows[i], w)]
                         /\ UNCHANGED <<size, next, cursor>>
    BY <1>2 DEF ClaimOutbox
  <2>2. ClaimedRow(rows[i], w) \in OutboxRow
    <3>1. CASE rows[i].state = "pending"
      <4> DEFINE n == IF rows[i].attempts < MaxAttempts THEN rows[i].attempts + 1
                                                        ELSE rows[i].attempts
      <4>1. n \in 0..MaxAttempts
        BY <1>r DEF OutboxRow
      <4> HIDE DEF n
      <4>2. [rows[i] EXCEPT !.state = "sending", !.worker = w, !.lapsed = FALSE,
                            !.started = FALSE, !.attempts = n] \in OutboxRow
        BY <1>r, <4>1 DEF OutboxRow
      <4> QED  BY <3>1, <4>2 DEF ClaimedRow, n
    <3>2. CASE rows[i].state # "pending"
      BY <1>r, <3>2 DEF ClaimedRow, OutboxRow
    <3> QED  BY <3>1, <3>2
  <2> QED  BY <2>1, <2>2
<1>3. CASE \E w \in Nat : CanRecordReceipt(i, w) /\ MarkOutboxRemoteSent(i)
  BY <1>3, <1>r DEF MarkOutboxRemoteSent, OutboxRow
<1>4. CASE \E w \in Nat, st \in Steps : SentRemoteBy(i, w) /\ CompleteOutboxSettleStep(i, st)
  BY <1>4, <1>r DEF CompleteOutboxSettleStep, OutboxRow
<1>5. CASE \E w \in Nat, st \in Steps : CanBeginEffect(i, w, st) /\ BeginOutboxSettleEffect(i, st)
  BY <1>5, <1>r DEF BeginOutboxSettleEffect, OutboxRow
<1>6. CASE \E w \in Nat, st \in Steps : CanCompleteEffect(i, w, st) /\ CompleteOutboxSettleEffect(i, st)
  <2>1. PICK st \in Steps : CompleteOutboxSettleEffect(i, st)
    BY <1>6
  <2>2. [rows[i] EXCEPT !.steps = @ \cup {st}, !.uncertain = NoStep] \in OutboxRow
    BY <1>r DEF OutboxRow
  <2> QED  BY <2>1, <2>2 DEF CompleteOutboxSettleEffect
<1>7. CASE \E outcome \in Outcomes, due \in BOOLEAN : FinishStep(i, outcome, due)
  <2>1. PICK outcome \in Outcomes, due \in BOOLEAN : FinishStep(i, outcome, due)
    BY <1>7
  <2>2. RetriedRow(rows[i], due) \in OutboxRow
    BY <1>r DEF RetriedRow, OutboxRow, NoWorker
  <2>3. outcome # "retry" => ClosedRow(rows[i], outcome) \in OutboxRow
    BY <1>r DEF ClosedRow, OutboxRow, NoWorker, Terminal, Outcomes
  <2>4. rows[i].session \in Sessions /\ rows[i].seq \in Nat
    BY <1>r DEF OutboxRow
  <2> QED  BY <2>1, <2>2, <2>3, <2>4 DEF FinishStep, FinishOutbox
<1>8. CASE \E kept \in BOOLEAN : ResolveUnknownSettle(i, kept)
  BY <1>8, <1>r DEF ResolveUnknownSettle, OutboxRow, NoStep
<1>9. CASE \E lapsed \in BOOLEAN :
             rows' = [rows EXCEPT ![i].lapsed = lapsed] /\ UNCHANGED <<size, next, cursor>>
  BY <1>9, <1>r DEF OutboxRow
<1>10. CASE rows' = [rows EXCEPT ![i].due = TRUE] /\ UNCHANGED <<size, next, cursor>>
  BY <1>10, <1>r DEF OutboxRow
<1> QED  BY <1>1, <1>2, <1>3, <1>4, <1>5, <1>6, <1>7, <1>8, <1>9, <1>10 DEF RowOperation

\* every store step keeps the table typed
LEMMA StoreStepType ==
  ASSUME StoreTypeOK, sends \in [RowIds -> Nat], StoreStep
  PROVE  StoreTypeOK' /\ sends' \in [RowIds -> Nat]
<1> USE StoreAssumption DEF StoreTypeOK
<1>1. CASE UNCHANGED <<storeVars, sends>>
  BY <1>1 DEF storeVars
<1>2. CASE Insertion /\ UNCHANGED sends
  <2>1. PICK s \in Sessions, p \in Partitions, h \in Deliverable \cup {"held"},
             src \in RowIds \cup {NoRow} : InsertOutbox(s, p, h, src)
    BY <1>2 DEF Insertion
  <2>2. NewRow(s, p, h, next[s] + 1, src, "pending") \in OutboxRow
    BY NewRowType
  <2> QED  BY <1>2, <2>1, <2>2 DEF InsertOutbox, RowIds
<1>3. CASE RecoverOutbox /\ UNCHANGED sends
  <2>1. \A i \in RowIds : RecoveredRow(rows[i]) \in OutboxRow
    <3> TAKE i \in RowIds
    <3>1. rows[i] \in OutboxRow
      OBVIOUS
    <3>2. /\ RecoveredState(rows[i]) \in {"absent", "pending", "sending", "sent_remote"} \cup Terminal
          /\ RecoveredHold(rows[i]) \in Deliverable \cup {"held"}
          /\ RecoveredDue(rows[i]) \in BOOLEAN
      BY <3>1 DEF RecoveredState, RecoveredHold, RecoveredDue, OutboxRow, Terminal, Deliverable,
                  LostInTransport, LostInSettle
    <3> QED  BY <3>1, <3>2 DEF OutboxRow, NoWorker, RecoveredRow
  <2> QED  BY <1>3, <2>1 DEF RecoverOutbox
<1>4. CASE \E i \in RowIds : RowOperation(i) /\ UNCHANGED sends
  BY <1>4, RowOperationType
<1>5. CASE \E i \in RowIds : Transport(i)
  <2>1. PICK i \in RowIds : Transport(i)
    BY <1>5
  <2>2. [rows[i] EXCEPT !.started = TRUE] \in OutboxRow
    <3>1. rows[i] \in OutboxRow
      OBVIOUS
    <3> QED  BY <3>1 DEF OutboxRow
  <2>3. sends' \in [RowIds -> Nat]
    <3>1. sends' = [sends EXCEPT ![i] = sends[i] + 1]
      BY <2>1 DEF Transport
    <3>2. sends[i] + 1 \in Nat
      OBVIOUS
    <3> QED  BY <3>1, <3>2
  <2> QED  BY <2>1, <2>2, <2>3 DEF Transport, MarkOutboxTransportStarted
<1> QED  BY <1>1, <1>2, <1>3, <1>4, <1>5 DEF StoreStep

--------------------------------------------------------------------------------
(* The inductive invariant of the durable rows *)

Present(i) == rows[i].state # "absent"

\* the rows appended so far are the first ones, in session order
Filled == \A i \in RowIds : Present(i) <=> i <= size

Sequenced ==
  /\ \A i \in RowIds : Present(i) => rows[i].seq <= next[rows[i].session]
  /\ \A i, j \in RowIds :
       (i < j /\ Present(j) /\ rows[i].session = rows[j].session) => rows[i].seq < rows[j].seq

CursorBounded == \A s \in Sessions : cursor[s] <= next[s]

\* only the head of a session is out, and only there an effect can be in doubt
OpenAtHead ==
  \A i \in RowIds :
    /\ rows[i].state \in {"sending", "sent_remote"} => IsHead(i)
    /\ (Present(i) /\ rows[i].uncertain # NoStep) =>
         rows[i].state \in {"sent_remote", "delivery_unknown"} /\ IsHead(i)

\* a row is claimed only when every earlier one of its partition is past transport
LaneOrder ==
  \A e, i \in RowIds :
    (/\ e < i /\ rows[e].partition = rows[i].partition
     /\ rows[i].state \notin {"absent", "pending"}) =>
       rows[e].state \notin {"absent", "pending", "sending"}

SendsCounted ==
  \A i \in RowIds :
    /\ sends[i] <= 1
    /\ sends[i] = 1 => /\ rows[i].state \notin {"absent", "pending"}
                       /\ rows[i].state = "sending" => rows[i].started

RowsInv ==
  /\ StoreTypeOK
  /\ sends \in [RowIds -> Nat]
  /\ Filled
  /\ Sequenced
  /\ CursorBounded
  /\ OpenAtHead
  /\ CursorSplitsSession
  /\ LaneOrder
  /\ SendsCounted

--------------------------------------------------------------------------------
(* What one operation on a row may change *)

Keeps(i) ==
  /\ rows'[i].state = rows[i].state
  /\ rows'[i].started = rows[i].started
  /\ rows'[i].uncertain = rows[i].uncertain
  /\ UNCHANGED cursor

GetsClaimed(i) ==
  /\ Eligible(i) /\ rows[i].state = "pending"
  /\ rows'[i].state = "sending" /\ rows'[i].started = FALSE
  /\ rows'[i].uncertain = rows[i].uncertain
  /\ UNCHANGED cursor

GetsReceipt(i) ==
  /\ rows[i].state = "sending" /\ rows[i].started
  /\ rows'[i].state = "sent_remote" /\ rows'[i].started = rows[i].started
  /\ rows'[i].uncertain = rows[i].uncertain
  /\ UNCHANGED cursor

Settles(i) ==
  /\ rows[i].state = "sent_remote"
  /\ rows'[i].state = "sent_remote" /\ rows'[i].started = rows[i].started
  /\ rows'[i].uncertain \in Steps \cup {NoStep}
  /\ UNCHANGED cursor

GoesBack(i) ==
  /\ rows[i].state = "sending" /\ ~rows[i].started /\ rows[i].uncertain = NoStep
  /\ rows'[i].state = "pending" /\ rows'[i].started = rows[i].started
  /\ rows'[i].uncertain = NoStep
  /\ UNCHANGED cursor

Closes(i) ==
  /\ rows[i].state \in {"sending", "sent_remote"} /\ rows[i].uncertain = NoStep /\ IsHead(i)
  /\ rows'[i].state \in Terminal /\ rows'[i].started = rows[i].started
  /\ rows'[i].uncertain = NoStep
  /\ cursor' = [cursor EXCEPT ![rows[i].session] = rows[i].seq]

FallsInDoubt(i) ==
  /\ rows[i].state \in {"sending", "sent_remote"} /\ rows[i].uncertain # NoStep /\ IsHead(i)
  /\ rows'[i].state = "delivery_unknown" /\ rows'[i].started = rows[i].started
  /\ rows'[i].uncertain = rows[i].uncertain
  /\ UNCHANGED cursor

DoubtEnds(i) ==
  /\ rows[i].state = "delivery_unknown" /\ rows[i].uncertain # NoStep
  /\ rows'[i].state = "sent_remote" /\ rows'[i].started = rows[i].started
  /\ rows'[i].uncertain = NoStep
  /\ UNCHANGED cursor

OnlyRow(i) ==
  /\ UNCHANGED <<size, next>>
  /\ \A j \in RowIds : j # i => rows'[j] = rows[j]
  /\ rows'[i].session = rows[i].session
  /\ rows'[i].partition = rows[i].partition
  /\ rows'[i].seq = rows[i].seq

RowChange(i) ==
  /\ OnlyRow(i)
  /\ \/ Keeps(i) \/ GetsClaimed(i) \/ GetsReceipt(i) \/ Settles(i)
     \/ GoesBack(i) \/ Closes(i) \/ FallsInDoubt(i) \/ DoubtEnds(i)

\* Every operation of the store on one row is one of those changes.
LEMMA RowOperationChange ==
  ASSUME StoreTypeOK, NEW i \in RowIds, RowOperation(i)
  PROVE  RowChange(i)
<1> USE DEF RowChange, OnlyRow
<1>r. rows[i] \in OutboxRow /\ rows \in [RowIds -> OutboxRow]
  BY DEF StoreTypeOK
<1>1. CASE \E outcome \in Deliverable : ReleaseHeldOutbox(i, outcome)
  BY <1>1, <1>r DEF ReleaseHeldOutbox, Keeps, OutboxRow
<1>2. CASE \E w \in Nat : Eligible(i) /\ ClaimOutbox(i, w)
  <2>1. PICK w \in Nat : /\ Eligible(i)
                         /\ rows' = [rows EXCEPT ![i] = ClaimedRow(rows[i], w)]
                         /\ UNCHANGED <<size, next, cursor>>
    BY <1>2 DEF ClaimOutbox
  <2>2. rows'[i] = ClaimedRow(rows[i], w)
    BY <2>1, <1>r
  <2>3. CASE rows[i].state = "pending"
    BY <2>1, <2>2, <2>3, <1>r DEF ClaimedRow, GetsClaimed, OutboxRow
  <2>4. CASE rows[i].state # "pending"
    BY <2>1, <2>2, <2>4, <1>r DEF ClaimedRow, Keeps, OutboxRow
  <2> QED  BY <2>3, <2>4
<1>3. CASE \E w \in Nat : CanRecordReceipt(i, w) /\ MarkOutboxRemoteSent(i)
  BY <1>3, <1>r DEF CanRecordReceipt, MarkOutboxRemoteSent, Keeps, GetsReceipt, OutboxRow
<1>4. CASE \E w \in Nat, st \in Steps : SentRemoteBy(i, w) /\ CompleteOutboxSettleStep(i, st)
  BY <1>4, <1>r DEF CompleteOutboxSettleStep, Keeps, OutboxRow
<1>5. CASE \E w \in Nat, st \in Steps : CanBeginEffect(i, w, st) /\ BeginOutboxSettleEffect(i, st)
  BY <1>5, <1>r DEF CanBeginEffect, SentRemoteBy, BeginOutboxSettleEffect, Settles, OutboxRow
<1>6. CASE \E w \in Nat, st \in Steps : CanCompleteEffect(i, w, st) /\ CompleteOutboxSettleEffect(i, st)
  BY <1>6, <1>r DEF CanCompleteEffect, SentRemoteBy, CompleteOutboxSettleEffect, Settles, OutboxRow
<1>7. CASE \E outcome \in Outcomes, due \in BOOLEAN : FinishStep(i, outcome, due)
  <2>1. PICK outcome \in Outcomes, due \in BOOLEAN : FinishStep(i, outcome, due)
    BY <1>7
  <2>2. CASE outcome = "retry"
    <3>1. rows' = [rows EXCEPT ![i] = RetriedRow(rows[i], due)] /\ UNCHANGED <<size, next, cursor>>
      BY <2>1, <2>2 DEF FinishStep, FinishOutbox
    <3>2. rows'[i] = RetriedRow(rows[i], due)
      BY <3>1, <1>r
    <3> QED  BY <2>1, <2>2, <3>1, <3>2, <1>r
             DEF FinishStep, RetriedRow, Keeps, GoesBack, OutboxRow
  <2>3. CASE outcome # "retry"
    <3>1. /\ rows' = [rows EXCEPT ![i] = ClosedRow(rows[i], outcome)]
          /\ UNCHANGED <<size, next>>
          /\ cursor' = IF rows[i].uncertain # NoStep THEN cursor
                       ELSE [cursor EXCEPT ![rows[i].session] = rows[i].seq]
      BY <2>1, <2>3 DEF FinishStep, FinishOutbox
    <3>2. rows'[i] = ClosedRow(rows[i], outcome)
      BY <3>1, <1>r
    <3> QED  BY <2>1, <2>3, <3>1, <3>2, <1>r
             DEF FinishStep, ClosedRow, Closes, FallsInDoubt, OutboxRow, Outcomes, Terminal
  <2> QED  BY <2>2, <2>3
<1>8. CASE \E kept \in BOOLEAN : ResolveUnknownSettle(i, kept)
  BY <1>8, <1>r DEF ResolveUnknownSettle, DoubtEnds, OutboxRow
<1>9. CASE \E lapsed \in BOOLEAN :
             rows' = [rows EXCEPT ![i].lapsed = lapsed] /\ UNCHANGED <<size, next, cursor>>
  BY <1>9, <1>r DEF Keeps, OutboxRow
<1>10. CASE rows' = [rows EXCEPT ![i].due = TRUE] /\ UNCHANGED <<size, next, cursor>>
  BY <1>10, <1>r DEF Keeps, OutboxRow
<1> QED  BY <1>1, <1>2, <1>3, <1>4, <1>5, <1>6, <1>7, <1>8, <1>9, <1>10 DEF RowOperation

--------------------------------------------------------------------------------
(* The invariant is preserved *)

\* changing one row within its guards keeps the invariants of the rows
LEMMA RowChangeInv ==
  ASSUME RowsInv, NEW i \in RowIds, RowChange(i), StoreTypeOK', UNCHANGED sends
  PROVE  RowsInv'
<1> USE DEF RowsInv, StoreTypeOK
<1>t. /\ \A j \in RowIds : rows[j] \in OutboxRow /\ rows'[j] \in OutboxRow
      /\ \A j \in RowIds : /\ rows[j].seq \in Nat /\ rows[j].session \in Sessions
                           /\ rows'[j].session = rows[j].session
                           /\ rows'[j].partition = rows[j].partition
                           /\ rows'[j].seq = rows[j].seq
      /\ \A j \in RowIds : j # i => rows'[j] = rows[j]
      /\ size' = size /\ next' = next
      /\ RowIds \subseteq Int
  <2>1. \A j \in RowIds : rows[j] \in OutboxRow /\ rows'[j] \in OutboxRow
    OBVIOUS
  <2>2. \A j \in RowIds : rows[j].seq \in Nat /\ rows[j].session \in Sessions
    BY <2>1 DEF OutboxRow
  <2>3. /\ \A j \in RowIds : j # i => rows'[j] = rows[j]
        /\ rows'[i].session = rows[i].session
        /\ rows'[i].partition = rows[i].partition
        /\ rows'[i].seq = rows[i].seq
        /\ size' = size /\ next' = next
    BY DEF RowChange, OnlyRow
  <2>4. RowIds \subseteq Int
    BY StoreAssumption DEF RowIds
  <2>5. \A j \in RowIds : /\ rows'[j].session = rows[j].session
                          /\ rows'[j].partition = rows[j].partition
                          /\ rows'[j].seq = rows[j].seq
    BY <2>3
  <2> QED  BY <2>1, <2>2, <2>3, <2>4, <2>5
<1>p. \A j \in RowIds : Present(j)' <=> Present(j)
  BY <1>t DEF Present, RowChange, Keeps, GetsClaimed, GetsReceipt, Settles, GoesBack, Closes,
              FallsInDoubt, DoubtEnds, Terminal
<1>i. Present(i) => rows[i].session \in Sessions /\ rows[i].seq <= next[rows[i].session]
  BY <1>t DEF Sequenced
\* a session has one head among the rows present
<1>h. \A j \in RowIds : (/\ j # i /\ Present(j) /\ Present(i) /\ IsHead(i)
                         /\ rows[j].session = rows[i].session) => ~IsHead(j)
  <2> SUFFICES ASSUME NEW j \in RowIds, j # i, Present(j), Present(i), IsHead(i),
                      rows[j].session = rows[i].session
               PROVE  ~IsHead(j)
    OBVIOUS
  <2>1. j < i \/ i < j
    BY <1>t
  <2>2. rows[j].seq # rows[i].seq
    BY <2>1, <1>t DEF Sequenced
  <2> QED  BY <2>2, <1>t DEF IsHead
<1>c. cursor' = cursor \/ (/\ IsHead(i) /\ Present(i) /\ Closes(i)
                           /\ cursor'[rows[i].session] = rows[i].seq
                           /\ \A s \in Sessions : s # rows[i].session => cursor'[s] = cursor[s])
  BY <1>t DEF Present, RowChange, Keeps, GetsClaimed, GetsReceipt, Settles, GoesBack, Closes,
              FallsInDoubt, DoubtEnds
<1>1. Filled'
  BY <1>t, <1>p DEF Filled
<1>2. Sequenced'
  BY <1>t, <1>p DEF Sequenced
<1>3. CursorBounded'
  BY <1>t, <1>c, <1>i DEF CursorBounded
<1>4. OpenAtHead'
  <2> SUFFICES ASSUME NEW j \in RowIds
               PROVE  /\ rows'[j].state \in {"sending", "sent_remote"} => IsHead(j)'
                      /\ (Present(j)' /\ rows'[j].uncertain # NoStep) =>
                           rows'[j].state \in {"sent_remote", "delivery_unknown"} /\ IsHead(j)'
    BY DEF OpenAtHead
  <2>1. (j # i \/ ~Closes(i)) => (Present(j) /\ IsHead(j) => IsHead(j)')
    BY <1>t, <1>c, <1>h DEF IsHead
  <2>2. CASE j # i
    BY <2>1, <2>2, <1>t, <1>p DEF OpenAtHead, Present
  <2>3. CASE j = i
    BY <2>1, <2>3, <1>t, <1>p
       DEF OpenAtHead, Present, RowChange, Keeps, GetsClaimed, GetsReceipt, Settles, GoesBack,
           Closes, FallsInDoubt, DoubtEnds, Eligible, Terminal, IsHead
  <2> QED  BY <2>2, <2>3
<1>5. CursorSplitsSession'
  <2> SUFFICES ASSUME NEW j \in RowIds, Present(j)
               PROVE  IF rows'[j].seq <= cursor'[rows'[j].session]
                        THEN rows'[j].state \in Terminal /\ rows'[j].uncertain = NoStep
                        ELSE rows'[j].state \in Terminal =>
                               /\ rows'[j].state = "delivery_unknown"
                               /\ rows'[j].uncertain # NoStep /\ IsHead(j)'
    BY <1>p DEF CursorSplitsSession, Present
  <2>0. /\ cursor \in [Sessions -> Nat] /\ cursor' \in [Sessions -> Nat]
    OBVIOUS
  <2>1. CASE cursor' = cursor
    <3>1. CASE j # i
      BY <2>1, <3>1, <1>t DEF CursorSplitsSession, IsHead, Present
    <3>2. CASE j = i
      BY <2>1, <3>2, <2>0, <1>t
         DEF CursorSplitsSession, OpenAtHead, IsHead, Present, RowChange, Keeps, GetsClaimed,
             GetsReceipt, Settles, GoesBack, Closes, FallsInDoubt, DoubtEnds, Eligible, Terminal
    <3> QED  BY <3>1, <3>2
  <2>2. CASE cursor' # cursor
    <3>1. /\ Closes(i) /\ Present(i) /\ IsHead(i) /\ cursor'[rows[i].session] = rows[i].seq
          /\ \A s \in Sessions : s # rows[i].session => cursor'[s] = cursor[s]
      BY <2>2, <1>c
    <3>2. CASE j = i
      BY <3>1, <3>2, <1>t, <2>0 DEF Closes
    <3>3. CASE j # i /\ rows[j].session = rows[i].session
      BY <3>1, <3>3, <1>t, <1>h, <2>0 DEF CursorSplitsSession, IsHead, Present
    <3>4. CASE j # i /\ rows[j].session # rows[i].session
      BY <3>1, <3>4, <1>t, <2>0 DEF CursorSplitsSession, IsHead, Present
    <3> QED  BY <3>2, <3>3, <3>4
  <2> QED  BY <2>1, <2>2
<1>6. LaneOrder'
  <2> SUFFICES ASSUME NEW e \in RowIds, NEW j \in RowIds, e < j,
                      rows[e].partition = rows[j].partition,
                      rows'[j].state \notin {"absent", "pending"}
               PROVE  rows'[e].state \notin {"absent", "pending", "sending"}
    BY <1>t DEF LaneOrder
  <2>1. e # j
    BY <1>t
  <2>2. CASE rows[j].state \in {"absent", "pending"}
    <3>1. j = i /\ GetsClaimed(i)
      BY <2>2, <1>t DEF RowChange, Keeps, GetsClaimed, GetsReceipt, Settles, GoesBack, Closes,
                        FallsInDoubt, DoubtEnds
    <3> QED  BY <3>1, <2>1, <1>t DEF GetsClaimed, Eligible, PartitionFree, Terminal
  <2>3. CASE rows[j].state \notin {"absent", "pending"}
    <3>1. rows[e].state \notin {"absent", "pending", "sending"}
      BY <2>3 DEF LaneOrder
    <3> QED  BY <3>1, <1>t DEF RowChange, Keeps, GetsClaimed, GetsReceipt, Settles, GoesBack,
                               Closes, FallsInDoubt, DoubtEnds, Terminal
  <2> QED  BY <2>2, <2>3
<1>7. SendsCounted'
  BY <1>t DEF SendsCounted, RowChange, Keeps, GetsClaimed, GetsReceipt, Settles, GoesBack,
              Closes, FallsInDoubt, DoubtEnds, Terminal
<1>8. sends' \in [RowIds -> Nat]
  OBVIOUS
<1> QED  BY <1>1, <1>2, <1>3, <1>4, <1>5, <1>6, <1>7, <1>8

\* a row appended at the end keeps them
LEMMA InsertionInv ==
  ASSUME RowsInv, Insertion, StoreTypeOK', UNCHANGED sends
  PROVE  RowsInv'
<1> USE DEF RowsInv, StoreTypeOK
<1>1. PICK s \in Sessions, p \in Partitions, h \in Deliverable \cup {"held"},
           src \in RowIds \cup {NoRow} : InsertOutbox(s, p, h, src)
  BY DEF Insertion
<1> DEFINE k == size + 1
<1>2. /\ k \in RowIds /\ size' = k /\ cursor' = cursor
      /\ \A j \in RowIds : rows[j] \in OutboxRow /\ j \in Int
      /\ \A j \in RowIds : rows[j].seq \in Nat /\ rows[j].session \in Sessions
  <2>1. \A j \in RowIds : rows[j] \in OutboxRow
    OBVIOUS
  <2>2. \A j \in RowIds : rows[j].seq \in Nat /\ rows[j].session \in Sessions
    BY <2>1 DEF OutboxRow
  <2>3. size < MaxRows /\ size' = size + 1 /\ cursor' = cursor
    BY <1>1 DEF InsertOutbox
  <2>4. \A j \in RowIds : j \in Int
    BY DEF RowIds
  <2>5. size + 1 \in RowIds
    BY <2>3, StoreAssumption DEF RowIds
  <2> QED  BY <2>1, <2>2, <2>3, <2>4, <2>5
<1>3. /\ \A j \in RowIds : j # k => rows'[j] = rows[j]
      /\ rows'[k] = NewRow(s, p, h, next[s] + 1, src, "pending")
      /\ next'[s] = next[s] + 1 /\ \A u \in Sessions : u # s => next'[u] = next[u]
  BY <1>1, <1>2 DEF InsertOutbox
<1>4. /\ rows'[k].state = "pending" /\ rows'[k].session = s /\ rows'[k].partition = p
      /\ rows'[k].seq = next[s] + 1 /\ rows'[k].uncertain = NoStep
  BY <1>3 DEF NewRow
<1>5. \A j \in RowIds : (Present(j) => j < k) /\ (j > k => ~Present(j)) /\ ~Present(k)
  BY <1>2 DEF Filled
<1>6. \A j \in RowIds : (Present(j)' <=> Present(j) \/ j = k) /\ (Present(j) => j # k)
  BY <1>3, <1>4, <1>5 DEF Present
<1> HIDE DEF k
<1>7. Filled'
  BY <1>2, <1>6 DEF Filled, k
<1>8. Sequenced'
  <2>1. \A j \in RowIds : Present(j)' => rows'[j].seq <= next'[rows'[j].session]
    BY <1>2, <1>3, <1>4, <1>6 DEF Sequenced
  <2>2. \A j, l \in RowIds :
          (j < l /\ Present(l)' /\ rows'[j].session = rows'[l].session) =>
             rows'[j].seq < rows'[l].seq
    <3> SUFFICES ASSUME NEW j \in RowIds, NEW l \in RowIds, j < l, Present(l)',
                        rows'[j].session = rows'[l].session
                 PROVE  rows'[j].seq < rows'[l].seq
      OBVIOUS
    <3>1. CASE l = k
      <4>1. j # k /\ Present(j)
        BY <3>1, <1>2, <1>5 DEF Filled, k
      <4>2. rows[j].seq <= next[s]
        BY <3>1, <4>1, <1>3, <1>4 DEF Sequenced
      <4> QED  BY <3>1, <4>1, <4>2, <1>2, <1>3, <1>4
    <3>2. CASE l # k
      BY <3>2, <1>2, <1>3, <1>5, <1>6 DEF Sequenced
    <3> QED  BY <3>1, <3>2
  <2> QED  BY <2>1, <2>2 DEF Sequenced
<1>9. CursorBounded'
  BY <1>2, <1>3 DEF CursorBounded
<1>10. OpenAtHead'
  BY <1>2, <1>3, <1>4, <1>6 DEF OpenAtHead, IsHead, Present
<1>11. CursorSplitsSession'
  <2> SUFFICES ASSUME NEW j \in RowIds, Present(j)'
               PROVE  IF rows'[j].seq <= cursor'[rows'[j].session]
                        THEN rows'[j].state \in Terminal /\ rows'[j].uncertain = NoStep
                        ELSE rows'[j].state \in Terminal =>
                               /\ rows'[j].state = "delivery_unknown"
                               /\ rows'[j].uncertain # NoStep /\ IsHead(j)'
    BY DEF CursorSplitsSession, Present
  <2>1. CASE j = k
    <3>1. cursor[s] < next[s] + 1
      BY DEF CursorBounded
    <3> QED  BY <2>1, <3>1, <1>2, <1>4 DEF Terminal
  <2>2. CASE j # k
    BY <2>2, <1>2, <1>3, <1>6 DEF CursorSplitsSession, IsHead, Present
  <2> QED  BY <2>1, <2>2
<1>12. LaneOrder'
  BY <1>2, <1>3, <1>4, <1>5 DEF LaneOrder, Present
<1>13. SendsCounted'
  BY <1>3, <1>4, <1>5 DEF SendsCounted, Present
<1> QED  BY <1>7, <1>8, <1>9, <1>10, <1>11, <1>12, <1>13

\* the recovery of every lease at once keeps them
LEMMA RecoverOutboxInv ==
  ASSUME RowsInv, RecoverOutbox, StoreTypeOK', UNCHANGED sends
  PROVE  RowsInv'
<1> USE DEF RowsInv, StoreTypeOK
<1>1. /\ \A j \in RowIds : rows[j] \in OutboxRow
      /\ \A j \in RowIds : rows[j].seq \in Nat /\ rows[j].session \in Sessions /\ j \in Int
      /\ size' = size /\ next' = next
  <2>1. \A j \in RowIds : rows[j] \in OutboxRow
    OBVIOUS
  <2>2. \A j \in RowIds : rows[j].seq \in Nat /\ rows[j].session \in Sessions
    BY <2>1 DEF OutboxRow
  <2>3. \A j \in RowIds : j \in Int
    BY DEF RowIds
  <2> QED  BY <2>1, <2>2, <2>3 DEF RecoverOutbox
<1>2. \A j \in RowIds : /\ rows'[j].state = RecoveredState(rows[j])
                        /\ rows'[j].session = rows[j].session
                        /\ rows'[j].partition = rows[j].partition
                        /\ rows'[j].seq = rows[j].seq
                        /\ rows'[j].started = rows[j].started
                        /\ rows'[j].uncertain = rows[j].uncertain
  <2> TAKE j \in RowIds
  <2>1. rows[j] \in OutboxRow /\ rows'[j] = RecoveredRow(rows[j])
    BY DEF RecoverOutbox
  <2> QED  BY <2>1 DEF RecoveredRow, OutboxRow
<1>3. \A j \in RowIds : Present(j)' <=> Present(j)
  BY <1>2 DEF Present, RecoveredState, LostInTransport, LostInSettle
<1>4. \A j, l \in RowIds : (/\ j # l /\ Present(j) /\ Present(l) /\ IsHead(l)
                            /\ rows[j].session = rows[l].session) => ~IsHead(j)
  <2> SUFFICES ASSUME NEW j \in RowIds, NEW l \in RowIds, j # l, Present(j), Present(l),
                      IsHead(l), rows[j].session = rows[l].session
               PROVE  ~IsHead(j)
    OBVIOUS
  <2>1. j < l \/ l < j
    BY <1>1
  <2>2. rows[j].seq # rows[l].seq
    BY <2>1, <1>1 DEF Sequenced
  <2> QED  BY <2>2, <1>1 DEF IsHead
<1> DEFINE Lost(s) == \E l \in RowIds : rows[l].session = s /\ LostInTransport(rows[l])
<1>5. \A s \in Sessions : cursor'[s] = IF Lost(s) THEN cursor[s] + 1 ELSE cursor[s]
  BY DEF RecoverOutbox
<1>6. \A l \in RowIds : LostInTransport(rows[l]) =>
        Present(l) /\ IsHead(l) /\ rows[l].uncertain = NoStep
  BY DEF RecoverOutbox, LostInTransport, OpenAtHead, Present
<1> HIDE DEF Lost
\* a row that is not lost itself either keeps its distance or is not the head
<1>7. \A j \in RowIds : (Present(j) /\ ~LostInTransport(rows[j]) /\ IsHead(j)) =>
        ~Lost(rows[j].session)
  BY <1>4, <1>6 DEF Lost
<1>8. Filled'
  BY <1>1, <1>3 DEF Filled
<1>9. Sequenced'
  BY <1>1, <1>2, <1>3 DEF Sequenced
<1>10. CursorBounded'
  <2> SUFFICES ASSUME NEW s \in Sessions PROVE cursor'[s] <= next'[s]
    BY DEF CursorBounded
  <2>1. CASE Lost(s)
    <3>1. PICK l \in RowIds : rows[l].session = s /\ LostInTransport(rows[l])
      BY <2>1 DEF Lost
    <3>2. Present(l) /\ IsHead(l)
      BY <3>1, <1>6
    <3>3. rows[l].seq <= next[s] /\ rows[l].seq = cursor[s] + 1
      BY <3>1, <3>2 DEF Sequenced, IsHead
    <3> QED  BY <2>1, <3>3, <1>1, <1>5
  <2>2. CASE ~Lost(s)
    BY <2>2, <1>1, <1>5 DEF CursorBounded
  <2> QED  BY <2>1, <2>2
<1>11. OpenAtHead'
  <2> SUFFICES ASSUME NEW j \in RowIds, Present(j)
               PROVE  /\ rows'[j].state \in {"sending", "sent_remote"} => IsHead(j)'
                      /\ rows'[j].uncertain # NoStep =>
                           rows'[j].state \in {"sent_remote", "delivery_unknown"} /\ IsHead(j)'
    BY <1>3 DEF OpenAtHead, Present
  <2>1. (IsHead(j) /\ ~LostInTransport(rows[j])) => IsHead(j)'
    BY <1>1, <1>2, <1>5, <1>7 DEF IsHead
  <2> QED  BY <2>1, <1>2, <1>6
           DEF OpenAtHead, RecoveredState, LostInTransport, LostInSettle
<1>12. CursorSplitsSession'
  <2> SUFFICES ASSUME NEW j \in RowIds, Present(j)
               PROVE  IF rows'[j].seq <= cursor'[rows'[j].session]
                        THEN rows'[j].state \in Terminal /\ rows'[j].uncertain = NoStep
                        ELSE rows'[j].state \in Terminal =>
                               /\ rows'[j].state = "delivery_unknown"
                               /\ rows'[j].uncertain # NoStep /\ IsHead(j)'
    BY <1>3 DEF CursorSplitsSession, Present
  <2>0. cursor[rows[j].session] \in Nat /\ rows[j].seq \in Nat
    BY <1>1
  <2>1. CASE LostInTransport(rows[j])
    <3>1. /\ rows'[j].state = "delivery_unknown" /\ rows'[j].uncertain = NoStep
          /\ rows'[j].seq = cursor[rows[j].session] + 1
      BY <2>1, <1>2, <1>6 DEF RecoveredState, IsHead
    <3>2. cursor'[rows[j].session] = cursor[rows[j].session] + 1
      BY <2>1, <1>1, <1>5 DEF Lost
    <3> QED  BY <3>1, <3>2, <2>0, <1>2 DEF Terminal
  <2>2. CASE ~LostInTransport(rows[j]) /\ IsHead(j)
    <3>1. cursor'[rows[j].session] = cursor[rows[j].session]
      BY <2>2, <1>1, <1>5, <1>7
    <3>2. rows[j].seq > cursor[rows[j].session]
      BY <2>2, <2>0 DEF IsHead
    <3>3. IsHead(j)'
      BY <3>1, <2>2, <1>2 DEF IsHead
    <3> QED  BY <3>1, <3>2, <3>3, <2>0, <2>2, <1>2
             DEF CursorSplitsSession, Present, RecoveredState, LostInSettle, Terminal
  <2>3. CASE ~LostInTransport(rows[j]) /\ ~IsHead(j)
    <3>1. rows[j].state = "sending" => IsHead(j)
      BY DEF OpenAtHead
    <3>2. rows'[j].state = rows[j].state
      BY <3>1, <2>3, <1>2 DEF RecoveredState, OpenAtHead, LostInSettle, Present
    <3>3. rows'[j].seq = rows[j].seq /\ rows'[j].session = rows[j].session
      BY <1>2
    <3>4. \/ cursor'[rows[j].session] = cursor[rows[j].session]
          \/ cursor'[rows[j].session] = cursor[rows[j].session] + 1
      BY <1>1, <1>5
    <3>5. rows[j].seq # cursor[rows[j].session] + 1
      BY <2>3 DEF IsHead
    <3>6. rows[j].seq <= cursor'[rows[j].session] <=> rows[j].seq <= cursor[rows[j].session]
      BY <2>0, <3>4, <3>5
    <3> QED  BY <3>2, <3>3, <3>6, <2>3, <1>2 DEF CursorSplitsSession, Present
  <2> QED  BY <2>1, <2>2, <2>3
<1>13. LaneOrder'
  BY <1>2 DEF LaneOrder, RecoveredState, LostInTransport, LostInSettle
<1>14. SendsCounted'
  BY <1>2 DEF SendsCounted, RecoveredState, LostInTransport, LostInSettle
<1> QED  BY <1>8, <1>9, <1>10, <1>11, <1>12, <1>13, <1>14

\* the start of a transport keeps them: the row is its session's head, unsent
LEMMA TransportInv ==
  ASSUME RowsInv, NEW i \in RowIds, Transport(i), StoreTypeOK', sends' \in [RowIds -> Nat]
  PROVE  RowsInv'
<1> USE DEF RowsInv, StoreTypeOK
<1>1. /\ rows[i].state = "sending" /\ ~rows[i].started
      /\ rows' = [rows EXCEPT ![i].started = TRUE]
      /\ UNCHANGED <<size, next, cursor>>
      /\ sends' = [sends EXCEPT ![i] = sends[i] + 1]
  BY DEF Transport, CanStartTransport, MarkOutboxTransportStarted
<1>2. \A j \in RowIds : rows[j] \in OutboxRow
  OBVIOUS
<1>3. \A j \in RowIds : /\ rows'[j].state = rows[j].state
                        /\ rows'[j].session = rows[j].session
                        /\ rows'[j].partition = rows[j].partition
                        /\ rows'[j].seq = rows[j].seq
                        /\ rows'[j].uncertain = rows[j].uncertain
                        /\ rows'[j].started = IF j = i THEN TRUE ELSE rows[j].started
  BY <1>1, <1>2 DEF OutboxRow
<1>4. Filled' /\ Sequenced' /\ CursorBounded'
  BY <1>1, <1>3 DEF Filled, Sequenced, CursorBounded, Present
<1>5. OpenAtHead'
  BY <1>1, <1>3 DEF OpenAtHead, IsHead, Present
<1>6. CursorSplitsSession'
  BY <1>1, <1>3 DEF CursorSplitsSession, IsHead
<1>7. LaneOrder'
  BY <1>3 DEF LaneOrder
<1>8. SendsCounted'
  <2>1. sends[i] \in Nat /\ sends[i] <= 1 /\ sends[i] # 1
    BY <1>1 DEF SendsCounted
  <2>2. sends'[i] = 1 /\ \A j \in RowIds : j # i => sends'[j] = sends[j]
    BY <2>1, <1>1
  <2> QED  BY <2>2, <1>1, <1>3 DEF SendsCounted
<1> QED  BY <1>4, <1>5, <1>6, <1>7, <1>8

\* Each store step keeps the invariant.
LEMMA StoreStepInv ==
  ASSUME RowsInv, StoreStep
  PROVE  RowsInv'
<1>1. StoreTypeOK' /\ sends' \in [RowIds -> Nat]
  BY StoreStepType DEF RowsInv
<1>2. CASE UNCHANGED <<storeVars, sends>>
  BY <1>2 DEF RowsInv, storeVars, StoreTypeOK, Filled, Sequenced, CursorBounded, OpenAtHead,
              CursorSplitsSession, LaneOrder, SendsCounted, Present, IsHead
<1>3. CASE Insertion /\ UNCHANGED sends
  BY <1>1, <1>3, InsertionInv
<1>4. CASE RecoverOutbox /\ UNCHANGED sends
  BY <1>1, <1>4, RecoverOutboxInv
<1>5. CASE \E i \in RowIds : RowOperation(i) /\ UNCHANGED sends
  BY <1>1, <1>5, RowOperationChange, RowChangeInv DEF RowsInv
<1>6. CASE \E i \in RowIds : Transport(i)
  BY <1>1, <1>6, TransportInv
<1> QED  BY <1>2, <1>3, <1>4, <1>5, <1>6 DEF StoreStep


--------------------------------------------------------------------------------
(* Types of what the coordinator keeps in memory *)

Memory ==
  /\ worker \in Nat
  /\ up \in BOOLEAN
  /\ scan \in BOOLEAN
  /\ lanes \in Lanes(Partitions)
  /\ wakes \subseteq RowIds
  /\ expiries \subseteq RowIds
  /\ claimed \subseteq RowIds
  /\ online \in [Partitions -> BOOLEAN]
  /\ budget \in Nat
  /\ applied \in [RowIds -> [Steps -> Nat]]

\* a live task has a row; at a settle operation it knows which
TaskOK(t) ==
  /\ t \in Task
  /\ t.pc # "free" => t.row \in RowIds
  /\ t.pc \in {"step", "effect"} => t.cur \in Steps

Tasks == claims \in [Slots -> Task] /\ \A c \in Slots : TaskOK(claims[c])

TypeInv == StoreTypeOK /\ sends \in [RowIds -> Nat] /\ Memory /\ Tasks

\* what a step has to show of the memory and the tasks
StepOK == Memory' /\ Tasks' /\ StoreStep

\* every method of the partition scheduler maps lane states to lane states
LEMMA LaneTypes ==
  ASSUME NEW l \in Lanes(Partitions), NEW p \in Partitions, NEW proven \in BOOLEAN
  PROVE  /\ NoLanes \in Lanes(Partitions)
         /\ PauseLane(l, p) \in Lanes(Partitions)
         /\ ResumeLane(l, p) \in Lanes(Partitions)
         /\ RetryLane(l, p) \in Lanes(Partitions)
         /\ CompleteAttempt(l, p, proven) \in Lanes(Partitions)
         /\ TakeReady(l, p) \in Lanes(Partitions)
         /\ ProbeFires(l, p) \in Lanes(Partitions)
<1> USE DEF Lanes
<1>1. NoLanes \in Lanes(Partitions)
  BY DEF NoLanes
<1>2. PauseLane(l, p) \in Lanes(Partitions)
  BY DEF PauseLane
<1>3. ResumeLane(l, p) \in Lanes(Partitions)
  BY DEF ResumeLane
<1>4. RetryLane(l, p) \in Lanes(Partitions)
  BY DEF RetryLane
<1>5. CompleteAttempt(l, p, proven) \in Lanes(Partitions)
  BY <1>3, <1>4 DEF CompleteAttempt
<1>6. TakeReady(l, p) \in Lanes(Partitions)
  BY DEF TakeReady
<1>7. ProbeFires(l, p) \in Lanes(Partitions)
  BY DEF ProbeFires
<1> QED  BY <1>1, <1>2, <1>3, <1>4, <1>5, <1>6, <1>7

\* replacing one task by a good one keeps the tasks good
LEMMA OneTask ==
  ASSUME Tasks, NEW c \in Slots, NEW t, TaskOK(t), claims' = [claims EXCEPT ![c] = t]
  PROVE  Tasks'
BY DEF Tasks, TaskOK

\* a disturbance leaves the budget a natural number
LEMMA DisturbType ==
  ASSUME Memory, NEW kind, NEW persisted \in BOOLEAN, Disturb(kind, persisted)
  PROVE  budget' \in Nat
<1> DEFINE cost == (IF kind = "none" THEN 0 ELSE 1) + (IF persisted THEN 0 ELSE 1)
<1>1. cost \in Nat
  OBVIOUS
<1>2. cost <= budget /\ budget' = budget - cost
  BY DEF Disturb
<1> HIDE DEF cost
<1> QED  BY <1>1, <1>2 DEF Memory

\* a step that leaves memory and tasks alone is good if it is a step of the store
LEMMA MemoryKept ==
  ASSUME TypeInv, StoreStep, UNCHANGED <<schedVars, claims, online, budget, ghostVars>>
  PROVE  StepOK
<1>1. Memory'
  BY DEF TypeInv, Memory, schedVars, ghostVars
<1>2. Tasks'
  BY DEF TypeInv, Tasks, TaskOK
<1> QED  BY <1>1, <1>2 DEF StepOK

\* the row and the partition of a live task
LEMMA LiveTask ==
  ASSUME TypeInv, NEW c \in Slots, Live(c)
  PROVE  /\ claims[c].row \in RowIds
         /\ Row(c) \in OutboxRow
         /\ Lane(c) \in Partitions
         /\ claims[c] \in Task
         /\ claims[c].proven \in BOOLEAN
         /\ claims[c].worker \in Nat
<1>1. claims[c] \in Task /\ claims[c].row \in RowIds
  BY DEF TypeInv, Tasks, TaskOK, Live
<1>2. Row(c) \in OutboxRow
  BY <1>1 DEF TypeInv, StoreTypeOK, Row
<1>3. Lane(c) \in Partitions
  BY <1>2 DEF Lane, OutboxRow
<1>4. claims[c].proven \in BOOLEAN /\ claims[c].worker \in Nat
  BY <1>1 DEF Task
<1> QED  BY <1>1, <1>2, <1>3, <1>4

--------------------------------------------------------------------------------
(* How a task ends *)

\* what finishOutboxFailure may write, and why the store may accept it
LEMMA FailureOutcomeFacts ==
  ASSUME NEW c \in Slots, NEW disconnected \in BOOLEAN
  PROVE  LET outcome == FailureOutcome(c, disconnected)
         IN  /\ outcome \in {"none", "retry later", "retry now", "dead", "delivery_unknown"}
             /\ outcome # "none" => StoredOutcome(outcome) \in Outcomes
             /\ StoredOutcome(outcome) = "retry" =>
                  (Row(c).state = "sent_remote" \/ ~Row(c).started)
<1> DEFINE r == Row(c)
           unsent == /\ r.state \notin Terminal \cup {"sent_remote"}
                     /\ r.uncertain = NoStep /\ ~r.started
           outcome == FailureOutcome(c, disconnected)
<1>1. CASE r.state \in Terminal
  BY <1>1 DEF FailureOutcome, StoredOutcome
<1>2. CASE r.state \notin Terminal /\ r.state = "sent_remote" /\ r.uncertain = NoStep
  BY <1>2 DEF FailureOutcome, StoredOutcome, Outcomes
<1>3. CASE r.state \notin Terminal /\ ~(r.state = "sent_remote" /\ r.uncertain = NoStep) /\ ~unsent
  BY <1>3 DEF FailureOutcome, StoredOutcome, Outcomes
<1>4. CASE unsent
  <2>1. ~r.started
    BY <1>4
  <2>2. outcome \in {"retry later", "retry now", "dead"}
    BY <1>4 DEF FailureOutcome
  <2>3. StoredOutcome(outcome) \in {"retry", "dead"}
    BY <2>2 DEF StoredOutcome
  <2> QED  BY <2>1, <2>2, <2>3 DEF Outcomes
<1> QED  BY <1>1, <1>2, <1>3, <1>4

\* a task that ends either way leaves typed memory and good tasks
LEMMA EndType ==
  ASSUME TypeInv, NEW c \in Slots, Live(c), NEW l \in Lanes(Partitions),
         NEW finalized \in BOOLEAN, NEW how, End(c, l, finalized, how)
  PROVE  /\ Tasks'
         /\ lanes' \in Lanes(Partitions)
         /\ scan' \in BOOLEAN
         /\ claimed' \subseteq RowIds
<1>t. /\ lanes \in Lanes(Partitions) /\ claimed \subseteq RowIds /\ scan \in BOOLEAN
      /\ Tasks
  BY DEF TypeInv, Memory
<1>r. claims[c] \in Task /\ claims[c].row \in RowIds
      /\ Lane(c) \in Partitions /\ claims[c].proven \in BOOLEAN
  BY LiveTask
<1>1. CASE Leave(c, l)
  <2>1. TaskOK(FreeTask)
    BY StoreAssumption DEF TaskOK, FreeTask, Task, NoRow, NoWorker, NoStep
  <2>2. claims' = [claims EXCEPT ![c] = FreeTask]
    BY <1>1 DEF Leave
  <2>3. Tasks'
    BY <1>t, <2>1, <2>2, OneTask
  <2>4. CompleteAttempt(l, Lane(c), claims[c].proven) \in Lanes(Partitions)
    BY <1>r, LaneTypes
  <2>5. lanes' \in Lanes(Partitions)
    BY <1>1, <1>t, <2>4 DEF Leave
  <2>6. scan' \in BOOLEAN /\ claimed' \subseteq RowIds
    BY <1>1, <1>t DEF Leave, Attended, Live, Mine
  <2> QED  BY <2>3, <2>5, <2>6
<1>2. CASE Abandon(c, l, finalized)
  <2> DEFINE t == [claims[c] EXCEPT !.zombie = TRUE, !.aborted = TRUE,
                                    !.tried = TRUE, !.finalized = finalized]
  <2>1. claims[c].pc \in {"step", "effect"} => claims[c].cur \in Steps
    BY <1>t DEF Tasks, TaskOK
  <2>2. t \in Task
    BY <1>r DEF Task
  <2>3. t.pc = claims[c].pc /\ t.row = claims[c].row /\ t.cur = claims[c].cur
    BY <1>r DEF Task
  <2>4. claims' = [claims EXCEPT ![c] = t]
    BY <1>2, <1>t DEF Abandon, Tasks
  <2> HIDE DEF t
  <2>5. TaskOK(t)
    BY <1>r, <2>1, <2>2, <2>3 DEF TaskOK
  <2>6. Tasks'
    BY <1>t, <2>4, <2>5, OneTask
  <2> QED  BY <1>2, <1>t, <2>6 DEF Abandon
<1> QED  BY <1>1, <1>2 DEF End

\* a failing task writes one accepted outcome or nothing at all
LEMMA FailTaskOK ==
  ASSUME TypeInv, NEW c \in Slots, Live(c), NEW kind, NEW disconnected \in BOOLEAN, NEW how,
         FailTask(c, kind, disconnected, how)
  PROVE  StepOK
<1> DEFINE i == claims[c].row
           outcome == FailureOutcome(c, disconnected)
<1>1. PICK persisted \in BOOLEAN :
        /\ Disturb(kind, persisted)
        /\ FinishFailure(c, disconnected, persisted, how)
  BY DEF FailTask
<1>2. UNCHANGED <<worker, up, online, sends, applied>>
  BY DEF FailTask, ghostVars
<1>3. budget' \in Nat
  BY <1>1, DisturbType DEF TypeInv
<1>t. /\ i \in RowIds /\ Lane(c) \in Partitions /\ lanes \in Lanes(Partitions)
      /\ wakes \subseteq RowIds /\ expiries \subseteq RowIds
  BY LiveTask DEF TypeInv, Memory
<1>f. /\ outcome # "none" => StoredOutcome(outcome) \in Outcomes
      /\ StoredOutcome(outcome) = "retry" => (Row(c).state = "sent_remote" \/ ~Row(c).started)
  BY FailureOutcomeFacts
<1>p. PauseLane(lanes, Lane(c)) \in Lanes(Partitions)
  BY <1>t, LaneTypes
<1> HIDE DEF outcome
<1>4. CASE /\ End(c, lanes, TRUE, how)
           /\ UNCHANGED <<storeVars, wakes, expiries>>
  <2>1. Tasks' /\ lanes' \in Lanes(Partitions) /\ scan' \in BOOLEAN /\ claimed' \subseteq RowIds
    BY <1>4, <1>t, EndType
  <2>2. StoreStep
    BY <1>2, <1>4 DEF StoreStep, storeVars
  <2> QED  BY <2>1, <2>2, <1>2, <1>3, <1>4 DEF StepOK, TypeInv, Memory
<1>5. CASE /\ outcome # "none" /\ CanFinishOutbox(i, claims[c].worker, StoredOutcome(outcome))
           /\ FinishOutbox(i, StoredOutcome(outcome), outcome = "retry now")
           /\ wakes' = IF outcome = "retry later" THEN wakes \cup {i} ELSE wakes
           /\ UNCHANGED expiries
           /\ End(c, IF outcome = "retry now" THEN PauseLane(lanes, Lane(c)) ELSE lanes,
                  TRUE, how)
  <2>1. Tasks' /\ lanes' \in Lanes(Partitions) /\ scan' \in BOOLEAN /\ claimed' \subseteq RowIds
    BY <1>5, <1>t, <1>p, EndType
  <2>2. FinishStep(i, StoredOutcome(outcome), outcome = "retry now")
    BY <1>5, <1>f DEF FinishStep, CanFinishOutbox, Row
  <2>3. RowOperation(i)
    <3>1. StoredOutcome(outcome) \in Outcomes /\ (outcome = "retry now") \in BOOLEAN
      BY <1>5, <1>f
    <3> QED  BY <2>2, <3>1 DEF RowOperation
  <2>4. StoreStep
    BY <2>3, <1>2, <1>t DEF StoreStep
  <2>5. wakes' \subseteq RowIds
    BY <1>5, <1>t
  <2> QED  BY <2>1, <2>4, <2>5, <1>2, <1>3, <1>5 DEF StepOK, TypeInv, Memory
<1>6. CASE /\ expiries' = expiries \cup {i}
           /\ End(c, lanes, FALSE, how)
           /\ UNCHANGED <<storeVars, wakes>>
  <2>1. Tasks' /\ lanes' \in Lanes(Partitions) /\ scan' \in BOOLEAN /\ claimed' \subseteq RowIds
    BY <1>6, <1>t, EndType
  <2>2. StoreStep
    BY <1>2, <1>6 DEF StoreStep, storeVars
  <2>3. expiries' \subseteq RowIds
    BY <1>6, <1>t
  <2> QED  BY <2>1, <2>2, <2>3, <1>2, <1>3, <1>6 DEF StepOK, TypeInv, Memory
<1> QED  BY <1>1, <1>4, <1>5, <1>6 DEF FinishFailure, outcome

--------------------------------------------------------------------------------
(* The steps of a task *)

\* a handler's step: one task moves on, and perhaps one operation of the store
LEMMA HandlerStepOK ==
  ASSUME TypeInv, NEW c \in Slots, NEW t, TaskOK(t),
         claims' = [claims EXCEPT ![c] = t],
         UNCHANGED <<schedVars, online>>, budget' \in Nat,
         applied' \in [RowIds -> [Steps -> Nat]], StoreStep
  PROVE  StepOK
<1>1. Tasks'
  BY OneTask DEF TypeInv
<1> QED  BY <1>1 DEF StepOK, TypeInv, Memory, schedVars

\* receipts, idempotent settle steps and completed hooks are steps of the store
LEMMA ReceiptAndSettleOK ==
  ASSUME TypeInv, NEW c \in Slots, Live(c),
         \/ SendRemote(c) \/ RemoteAnswers(c) \/ SettleStepAnswers(c) \/ SettleEffectAnswers(c)
  PROVE  StepOK
<1> DEFINE i == claims[c].row
           w == claims[c].worker
<1>r. /\ claims[c] \in Task /\ i \in RowIds /\ w \in Nat
      /\ claims[c].pc \in {"step", "effect"} => claims[c].cur \in Steps
      /\ claims[c].pc # "free"
  BY LiveTask DEF TypeInv, Tasks, TaskOK, Live
<1>a. budget \in Nat /\ applied \in [RowIds -> [Steps -> Nat]] /\ claims \in [Slots -> Task]
  BY DEF TypeInv, Memory, Tasks
<1>1. CASE SendRemote(c)
  <2> DEFINE t == [claims[c] EXCEPT !.pc = "remote"]
  <2>1. t \in Task /\ t.row = i /\ t.pc = "remote"
    BY <1>r DEF Task
  <2>2. claims' = [claims EXCEPT ![c] = t]
    BY <1>1, <1>a DEF SendRemote
  <2> HIDE DEF t
  <2>3. TaskOK(t)
    BY <2>1, <1>r DEF TaskOK
  <2>4. Transport(i)
    BY <1>1, <1>r DEF SendRemote, Transport
  <2>5. StoreStep
    BY <2>4, <1>r DEF StoreStep
  <2> QED  BY <1>1, <1>a, <2>2, <2>3, <2>5, HandlerStepOK DEF SendRemote
<1>2. CASE RemoteAnswers(c)
  <2> DEFINE t == [claims[c] EXCEPT !.pc = "run", !.phase = "settle", !.proven = TRUE]
  <2>1. t \in Task /\ t.row = i /\ t.pc = "run"
    BY <1>r DEF Task
  <2>2. claims' = [claims EXCEPT ![c] = t]
    BY <1>2, <1>a DEF RemoteAnswers
  <2> HIDE DEF t
  <2>3. TaskOK(t)
    BY <2>1, <1>r DEF TaskOK
  <2>4. RowOperation(i) /\ UNCHANGED sends
    BY <1>2, <1>r DEF RemoteAnswers, RowOperation, ghostVars
  <2>5. StoreStep
    BY <2>4, <1>r DEF StoreStep
  <2> QED  BY <1>2, <1>a, <2>2, <2>3, <2>5, HandlerStepOK DEF RemoteAnswers, ghostVars
<1>3. CASE SettleStepAnswers(c)
  <2> DEFINE t == [claims[c] EXCEPT !.pc = "run", !.done = @ \cup {claims[c].cur}, !.cur = NoStep]
  <2>0. claims[c].cur \in Steps
    BY <1>3, <1>r DEF SettleStepAnswers, At
  <2>1. t \in Task /\ t.row = i /\ t.pc = "run"
    BY <1>r, <2>0 DEF Task
  <2>2. claims' = [claims EXCEPT ![c] = t]
    BY <1>3, <1>a DEF SettleStepAnswers
  <2> HIDE DEF t
  <2>3. TaskOK(t)
    BY <2>1, <1>r DEF TaskOK
  <2>4. RowOperation(i) /\ UNCHANGED sends
    BY <1>3, <1>r, <2>0 DEF SettleStepAnswers, RowOperation, ghostVars
  <2>5. StoreStep
    BY <2>4, <1>r DEF StoreStep
  <2> QED  BY <1>3, <1>a, <2>2, <2>3, <2>5, HandlerStepOK DEF SettleStepAnswers, ghostVars
<1>4. CASE SettleEffectAnswers(c)
  <2> DEFINE t == [claims[c] EXCEPT !.pc = "run", !.done = @ \cup {claims[c].cur}, !.cur = NoStep]
  <2>0. claims[c].cur \in Steps
    BY <1>4, <1>r DEF SettleEffectAnswers, At
  <2>1. t \in Task /\ t.row = i /\ t.pc = "run"
    BY <1>r, <2>0 DEF Task
  <2>2. claims' = [claims EXCEPT ![c] = t]
    BY <1>4, <1>a DEF SettleEffectAnswers
  <2> HIDE DEF t
  <2>3. TaskOK(t)
    BY <2>1, <1>r DEF TaskOK
  <2>4. RowOperation(i) /\ UNCHANGED sends
    BY <1>4, <1>r, <2>0 DEF SettleEffectAnswers, RowOperation, ghostVars
  <2>5. StoreStep
    BY <2>4, <1>r DEF StoreStep
  <2> QED  BY <1>4, <1>a, <2>2, <2>3, <2>5, HandlerStepOK DEF SettleEffectAnswers, ghostVars
<1> QED  BY <1>1, <1>2, <1>3, <1>4

\* a task may begin, be prepared and enter its transport
LEMMA MovesOnOK ==
  ASSUME TypeInv, NEW c \in Slots, Live(c),
         \/ Begin(c) \/ Prepared(c) \/ RenewalAborts(c)
         \/ \E st \in Steps : SettleStep(c, st)
  PROVE  StepOK
<1>r. /\ claims[c] \in Task /\ claims[c].row \in RowIds
      /\ claims[c].pc \in {"step", "effect"} => claims[c].cur \in Steps
      /\ claims[c].pc # "free"
  BY LiveTask DEF TypeInv, Tasks, TaskOK, Live
<1>a. budget \in Nat /\ applied \in [RowIds -> [Steps -> Nat]] /\ claims \in [Slots -> Task]
  BY DEF TypeInv, Memory, Tasks
<1>s. UNCHANGED <<storeVars, ghostVars>> => StoreStep /\ applied' = applied
  BY DEF StoreStep, ghostVars
<1>1. CASE Begin(c) \/ Prepared(c)
  <2>1. \A pc \in {"run", "paced"} : TaskOK([claims[c] EXCEPT !.pc = pc])
    BY <1>r DEF TaskOK, Task
  <2>2. PICK pc \in {"run", "paced"} : claims' = [claims EXCEPT ![c] = [claims[c] EXCEPT !.pc = pc]]
    BY <1>1, <1>a DEF Begin, Prepared
  <2>3. UNCHANGED <<storeVars, schedVars, online, budget, ghostVars>>
    BY <1>1 DEF Begin, Prepared
  <2> QED  BY <1>a, <1>s, <2>1, <2>2, <2>3, HandlerStepOK
<1>2. CASE RenewalAborts(c)
  <2>1. TaskOK([claims[c] EXCEPT !.aborted = TRUE])
    BY <1>r DEF TaskOK, Task
  <2>2. claims' = [claims EXCEPT ![c] = [claims[c] EXCEPT !.aborted = TRUE]]
    BY <1>2, <1>a DEF RenewalAborts
  <2>3. budget' \in Nat
    BY <1>2, <1>a, DisturbType DEF RenewalAborts, TypeInv
  <2>4. UNCHANGED <<storeVars, schedVars, online, ghostVars>>
    BY <1>2 DEF RenewalAborts
  <2> QED  BY <1>a, <1>s, <2>1, <2>2, <2>3, <2>4, HandlerStepOK
<1>3. CASE \E st \in Steps : SettleStep(c, st)
  <2>1. PICK st \in Steps : SettleStep(c, st)
    BY <1>3
  <2>2. TaskOK([claims[c] EXCEPT !.pc = "step", !.cur = st])
    BY <1>r DEF TaskOK, Task
  <2>3. claims' = [claims EXCEPT ![c] = [claims[c] EXCEPT !.pc = "step", !.cur = st]]
    BY <2>1, <1>a DEF SettleStep
  <2>4. UNCHANGED <<storeVars, schedVars, online, budget, ghostVars>>
    BY <2>1 DEF SettleStep
  <2> QED  BY <1>a, <1>s, <2>2, <2>3, <2>4, HandlerStepOK
<1> QED  BY <1>1, <1>2, <1>3

\* a hook is entered under its write-ahead mark
LEMMA SettleEffectOK ==
  ASSUME TypeInv, NEW c \in Slots, Live(c), NEW st \in Steps, SettleEffect(c, st)
  PROVE  StepOK
<1> DEFINE i == claims[c].row
<1>r. claims[c] \in Task /\ i \in RowIds /\ claims[c].worker \in Nat
  BY LiveTask
<1>a. budget \in Nat /\ applied \in [RowIds -> [Steps -> Nat]] /\ claims \in [Slots -> Task]
  BY DEF TypeInv, Memory, Tasks
<1>1. TaskOK([claims[c] EXCEPT !.pc = "effect", !.cur = st])
  BY <1>r DEF TaskOK, Task
<1>2. claims' = [claims EXCEPT ![c] = [claims[c] EXCEPT !.pc = "effect", !.cur = st]]
  BY <1>a DEF SettleEffect
<1>3. StoreStep
  <2>1. RowOperation(i) /\ UNCHANGED sends
    BY <1>r DEF SettleEffect, RowOperation
  <2> QED  BY <2>1, <1>r DEF StoreStep
<1>4. applied' \in [RowIds -> [Steps -> Nat]]
  <2>1. applied' = [applied EXCEPT ![i][st] = applied[i][st] + 1]
    BY DEF SettleEffect
  <2>2. applied[i] \in [Steps -> Nat] /\ applied[i][st] + 1 \in Nat
    BY <1>a, <1>r
  <2> QED  BY <2>1, <2>2, <1>a
<1>5. UNCHANGED <<schedVars, online, budget>>
  BY DEF SettleEffect
<1> QED  BY <1>1, <1>2, <1>3, <1>4, <1>5, <1>a, HandlerStepOK

\* a task that did everything closes its row
LEMMA FinishSentOK ==
  ASSUME TypeInv, NEW c \in Slots, Live(c), FinishSent(c)
  PROVE  StepOK
<1> DEFINE i == claims[c].row
           l == IF claims[c].proven \/ claims[c].fresh THEN ResumeLane(lanes, Lane(c)) ELSE lanes
<1>t. i \in RowIds /\ Lane(c) \in Partitions /\ lanes \in Lanes(Partitions)
      /\ budget \in Nat
  BY LiveTask DEF TypeInv, Memory
<1>1. l \in Lanes(Partitions)
  BY <1>t, LaneTypes
<1>2. Leave(c, l) /\ UNCHANGED <<worker, up, wakes, expiries, online, ghostVars>>
  BY DEF FinishSent
<1> HIDE DEF l
<1>3. Tasks' /\ lanes' \in Lanes(Partitions) /\ scan' \in BOOLEAN /\ claimed' \subseteq RowIds
  <2>1. End(c, l, TRUE, "returned")
    BY <1>2 DEF End
  <2> QED  BY <2>1, <1>1, EndType
<1>4. budget' \in Nat
  BY <1>t, DisturbType DEF FinishSent, TypeInv
<1>5. StoreStep
  <2>1. CASE Row(c).state \in Terminal
    BY <2>1, <1>2 DEF FinishSent, StoreStep, ghostVars
  <2>2. CASE Row(c).state \notin Terminal
    <3>1. CanFinishOutbox(i, claims[c].worker, "sent") /\ FinishOutbox(i, "sent", TRUE)
      BY <2>2 DEF FinishSent, CanFinishSent
    <3>2. FinishStep(i, "sent", TRUE)
      BY <3>1 DEF FinishStep, CanFinishOutbox, Outcomes
    <3>3. RowOperation(i)
      BY <3>2 DEF RowOperation, Outcomes
    <3> QED  BY <3>3, <1>2, <1>t DEF StoreStep, ghostVars
  <2> QED  BY <2>1, <2>2
<1> QED  BY <1>2, <1>3, <1>4, <1>5 DEF StepOK, TypeInv, Memory, ghostVars

\* every step of a task is good, one case per action
LEMMA TaskStepOK ==
  ASSUME TypeInv, NEW c \in Slots, TaskStep(c)
  PROVE  StepOK
<1>1. Live(c)
  BY DEF TaskStep, Live, Begin, Disconnected, PrepareFails, Prepared, SendRemote, RemoteAnswers,
         SettleStep, SettleEffect, SettleStepAnswers, SettleEffectAnswers, OperationFails,
         FinishSent, Fenced, Refused, TimesOut, RenewLease, RenewalAborts, At, Running, Attended
<1>2. CASE \/ SendRemote(c) \/ RemoteAnswers(c) \/ SettleStepAnswers(c)
           \/ SettleEffectAnswers(c)
  BY <1>1, <1>2, ReceiptAndSettleOK
<1>3. CASE \/ Begin(c) \/ Prepared(c) \/ RenewalAborts(c)
           \/ \E st \in Steps : SettleStep(c, st)
  BY <1>1, <1>3, MovesOnOK
<1>4. CASE \E st \in Steps : SettleEffect(c, st)
  BY <1>1, <1>4, SettleEffectOK
<1>5. CASE \/ Disconnected(c) \/ PrepareFails(c) \/ OperationFails(c) \/ Fenced(c)
           \/ Refused(c) \/ TimesOut(c)
  <2>1. CASE Disconnected(c)
    BY <1>1, <2>1, FailTaskOK DEF Disconnected
  <2>2. CASE PrepareFails(c)
    BY <1>1, <2>2, FailTaskOK DEF PrepareFails
  <2>3. CASE OperationFails(c)
    <3> DEFINE kind == IF online[Lane(c)] THEN "remote" ELSE "none"
    <3>1. CASE FailTask(c, kind, FALSE, "returned")
      <4> HIDE DEF kind
      <4> QED  BY <1>1, <3>1, FailTaskOK
    <3>2. CASE FailTask(c, "settle", FALSE, "returned")
      BY <1>1, <3>2, FailTaskOK
    <3> QED  BY <2>3, <3>1, <3>2 DEF OperationFails
  <2>4. CASE Fenced(c)
    BY <1>1, <2>4, FailTaskOK DEF Fenced
  <2>5. CASE Refused(c)
    BY <1>1, <2>5, FailTaskOK DEF Refused
  <2>6. CASE TimesOut(c)
    BY <1>1, <2>6, FailTaskOK DEF TimesOut
  <2> QED  BY <1>5, <2>1, <2>2, <2>3, <2>4, <2>5, <2>6
<1>6. CASE FinishSent(c)
  BY <1>1, <1>6, FinishSentOK
<1>7. CASE RenewLease(c)
  <2>1. claims[c].row \in RowIds
    BY <1>1, LiveTask
  <2>2. RowOperation(claims[c].row)
    BY <1>7 DEF RenewLease, RenewOutboxLease, RowOperation
  <2>3. StoreStep
    BY <1>7, <2>1, <2>2 DEF StoreStep, RenewLease, ghostVars
  <2>4. UNCHANGED <<schedVars, claims, online, budget, ghostVars>>
    BY <1>7 DEF RenewLease
  <2> QED  BY <2>3, <2>4, MemoryKept
<1> QED  BY <1>2, <1>3, <1>4, <1>5, <1>6, <1>7 DEF TaskStep

--------------------------------------------------------------------------------
(* The steps of a row *)

\* a claim of an eligible row makes a good task
LEMMA TakeClaimOK ==
  ASSUME TypeInv, NEW i \in RowIds, NEW c \in Slots, Eligible(i), TakeClaim(i, c),
         UNCHANGED <<worker, up, scan, wakes, expiries, online, budget, ghostVars>>,
         lanes' \in Lanes(Partitions)
  PROVE  StepOK
<1>r. rows[i] \in OutboxRow /\ worker \in Nat /\ claimed \subseteq RowIds
  BY DEF TypeInv, StoreTypeOK, Memory
<1>1. ClaimedRow(rows[i], worker).attempts \in 0..MaxAttempts
  <2>1. CASE rows[i].state = "pending"
    <3> DEFINE n == IF rows[i].attempts < MaxAttempts THEN rows[i].attempts + 1
                                                      ELSE rows[i].attempts
    <3>1. n \in 0..MaxAttempts
      BY <1>r, StoreAssumption DEF OutboxRow
    <3> HIDE DEF n
    <3>2. ClaimedRow(rows[i], worker) =
            [rows[i] EXCEPT !.state = "sending", !.worker = worker, !.lapsed = FALSE,
                            !.started = FALSE, !.attempts = n]
      BY <2>1 DEF ClaimedRow, n
    <3> QED  BY <3>1, <3>2, <1>r DEF OutboxRow
  <2>2. CASE rows[i].state # "pending"
    BY <2>2, <1>r DEF ClaimedRow, OutboxRow
  <2> QED  BY <2>1, <2>2
<1>2. rows[i].steps \in SUBSET Steps
  BY <1>r DEF OutboxRow
<1>3. TaskOK(NewTask(i))
  BY <1>r, <1>1, <1>2 DEF NewTask, TaskOK, Task, NoStep
<1>4. Tasks'
  BY <1>3, OneTask DEF TakeClaim, TypeInv
<1>5. StoreStep
  <2>1. RowOperation(i)
    BY <1>r DEF TakeClaim, RowOperation
  <2> QED  BY <2>1 DEF StoreStep, ghostVars
<1>6. claimed' \subseteq RowIds
  BY <1>r DEF TakeClaim
<1> QED  BY <1>4, <1>5, <1>6 DEF StepOK, TypeInv, Memory, ghostVars

\* every step about a row is good, one case per action
LEMMA RowStepOK ==
  ASSUME TypeInv, NEW i \in RowIds, RowStep(i)
  PROVE  StepOK
<1>t. /\ Memory /\ Tasks /\ StoreTypeOK /\ sends \in [RowIds -> Nat]
      /\ lanes \in Lanes(Partitions)
  BY DEF TypeInv, Memory
<1>k. ASSUME StoreStep, scan' \in BOOLEAN, wakes' \subseteq RowIds, expiries' \subseteq RowIds,
             budget' \in Nat, applied' \in [RowIds -> [Steps -> Nat]],
             UNCHANGED <<worker, up, lanes, claimed, claims, online>>
      PROVE  StepOK
  <2>1. Tasks'
    BY <1>k, <1>t DEF Tasks, TaskOK
  <2> QED  BY <1>k, <1>t, <2>1 DEF StepOK, Memory
<1>1. CASE \E outcome \in {"released", "fallback_released"} : ReleaseOutbox(i, outcome)
  <2>1. RowOperation(i)
    BY <1>1 DEF ReleaseOutbox, RowOperation, Deliverable
  <2>2. StoreStep
    BY <1>1, <2>1 DEF ReleaseOutbox, StoreStep, ghostVars
  <2> QED  BY <1>1, <1>t, <1>k, <2>2 DEF ReleaseOutbox, Memory, ghostVars
<1>2. CASE \E c \in Slots : Claim(i, c)
  BY <1>2, <1>t, TakeClaimOK DEF Claim, Claimable
<1>3. CASE \E c \in Slots, p \in Partitions : ClaimProbe(p, i, c)
  <2>1. PICK c \in Slots, p \in Partitions : ClaimProbe(p, i, c)
    BY <1>3
  <2>2. lanes' \in Lanes(Partitions)
    BY <2>1, <1>t, LaneTypes DEF ClaimProbe
  <2> QED  BY <2>1, <2>2, TakeClaimOK DEF ClaimProbe, Probeable
<1>4. CASE BecomesDue(i)
  <2>1. RowOperation(i)
    BY <1>4 DEF BecomesDue, RowOperation
  <2>2. StoreStep
    BY <1>4, <2>1 DEF BecomesDue, StoreStep, ghostVars
  <2> QED  BY <1>4, <1>t, <2>2, MemoryKept DEF BecomesDue
<1>5. CASE LeaseLapses(i)
  <2>1. RowOperation(i)
    BY <1>5 DEF LeaseLapses, RowOperation
  <2>2. StoreStep
    BY <1>5, <2>1 DEF LeaseLapses, StoreStep, ghostVars
  <2>3. budget' \in Nat
    BY <1>5, <1>t, DisturbType DEF LeaseLapses, Memory
  <2> QED  BY <1>5, <1>t, <1>k, <2>2, <2>3 DEF LeaseLapses, Memory, schedVars, ghostVars
<1>6. CASE RetryWakes(i) \/ ExpiryWakes(i)
  <2>1. StoreStep
    BY <1>6 DEF RetryWakes, ExpiryWakes, StoreStep, ghostVars
  <2> QED  BY <1>6, <1>t, <1>k, <2>1 DEF RetryWakes, ExpiryWakes, Memory, ghostVars
<1>7. CASE OperatorReplays(i)
  <2>1. Insertion
    <3>1. rows[i] \in OutboxRow
      BY <1>t DEF StoreTypeOK
    <3>2. rows[i].session \in Sessions /\ rows[i].partition \in Partitions
          /\ rows[i].hold \in Deliverable \cup {"held"}
      BY <3>1 DEF OutboxRow
    <3>3. InsertOutbox(rows[i].session, rows[i].partition, rows[i].hold, i)
      BY <1>7 DEF OperatorReplays, ReplayUnknownOutbox
    <3> QED  BY <3>2, <3>3 DEF Insertion
  <2>2. StoreStep
    BY <1>7, <2>1 DEF OperatorReplays, StoreStep, ghostVars
  <2>3. budget' \in Nat
    BY <1>7, <1>t, DisturbType DEF OperatorReplays
  <2>4. scan' \in BOOLEAN
    BY <1>7, <1>t DEF OperatorReplays, Memory
  <2> QED  BY <1>7, <1>t, <1>k, <2>2, <2>3, <2>4 DEF OperatorReplays, Memory, ghostVars
<1>8. CASE \E kept \in BOOLEAN : OperatorResolves(i, kept)
  <2>1. PICK kept \in BOOLEAN : OperatorResolves(i, kept)
    BY <1>8
  <2>2. RowOperation(i)
    BY <2>1 DEF OperatorResolves, RowOperation
  <2>3. StoreStep
    BY <2>1, <2>2 DEF OperatorResolves, StoreStep
  <2>4. budget' \in Nat
    BY <2>1, <1>t, DisturbType DEF OperatorResolves
  <2>5. applied' \in [RowIds -> [Steps -> Nat]]
    <3> DEFINE st == rows[i].uncertain
    <3>1. applied \in [RowIds -> [Steps -> Nat]]
      BY <1>t DEF Memory
    <3>2. st \in Steps
      <4>1. rows[i] \in OutboxRow
        BY <1>t DEF StoreTypeOK
      <4> QED  BY <4>1, <2>1 DEF OutboxRow, OperatorResolves, ResolveUnknownSettle
    <3> HIDE DEF st
    <3>3. \/ applied' = applied
          \/ applied[i][st] # 0 /\ applied' = [applied EXCEPT ![i][st] = applied[i][st] - 1]
      BY <2>1 DEF OperatorResolves, st
    <3>4. applied[i][st] # 0 => applied[i][st] - 1 \in Nat
      BY <3>1, <3>2
    <3> QED  BY <3>1, <3>2, <3>3, <3>4
  <2>6. scan' \in BOOLEAN
    BY <2>1, <1>t DEF OperatorResolves, Memory
  <2> QED  BY <2>1, <1>t, <1>k, <2>3, <2>4, <2>5, <2>6 DEF OperatorResolves, Memory
<1> QED  BY <1>1, <1>2, <1>3, <1>4, <1>5, <1>6, <1>7, <1>8 DEF RowStep

\* every step about a partition is good, one case per action
LEMMA LaneStepOK ==
  ASSUME TypeInv, NEW p \in Partitions, LaneStep(p)
  PROVE  StepOK
<1>t. /\ Memory /\ Tasks /\ lanes \in Lanes(Partitions)
      /\ scan \in BOOLEAN /\ up \in BOOLEAN /\ online \in [Partitions -> BOOLEAN]
  BY DEF TypeInv, Memory
<1>k. ASSUME StoreStep, scan' \in BOOLEAN, lanes' \in Lanes(Partitions), budget' \in Nat,
             online' \in [Partitions -> BOOLEAN],
             UNCHANGED <<worker, up, wakes, expiries, claimed, claims, applied>>
      PROVE  StepOK
  <2>1. Tasks'
    BY <1>k, <1>t DEF Tasks, TaskOK
  <2> QED  BY <1>k, <1>t, <2>1 DEF StepOK, Memory
<1>l. ResumeLane(lanes, p) \in Lanes(Partitions) /\ ProbeFires(lanes, p) \in Lanes(Partitions)
  BY <1>t, LaneTypes
<1>1. CASE \E s \in Sessions : AppendOutbox(s, p) \/ AppendHeldOutbox(s, p)
  <2>1. PICK s \in Sessions : AppendOutbox(s, p) \/ AppendHeldOutbox(s, p)
    BY <1>1
  <2>2. Insertion
    BY <2>1 DEF AppendOutbox, AppendHeldOutbox, Insertion, Deliverable, NoRow
  <2>3. StoreStep
    BY <2>1, <2>2 DEF AppendOutbox, AppendHeldOutbox, StoreStep, ghostVars
  <2>4. budget' \in Nat
    BY <2>1, <1>t, DisturbType DEF AppendOutbox, AppendHeldOutbox, Memory
  <2> QED  BY <2>1, <2>3, <2>4, <1>t, <1>k DEF AppendOutbox, AppendHeldOutbox, ghostVars
<1>2. CASE ProbeTimer(p) \/ GoesOffline(p) \/ Connects(p) \/ InboundResumes(p)
  <2>1. UNCHANGED <<storeVars, ghostVars, worker, up, wakes, expiries, claimed, claims>>
    BY <1>2 DEF ProbeTimer, GoesOffline, Connects, InboundResumes, schedVars
  <2>2. StoreStep
    BY <2>1 DEF StoreStep, ghostVars
  <2>3. budget' \in Nat
    BY <1>2, <1>t, DisturbType DEF ProbeTimer, GoesOffline, Connects, InboundResumes, Memory
  <2>4. lanes' \in Lanes(Partitions) /\ scan' \in BOOLEAN
    BY <1>2, <1>t, <1>l
       DEF ProbeTimer, GoesOffline, Connects, InboundResumes, ResumePartition, schedVars
  <2>5. online' \in [Partitions -> BOOLEAN]
    BY <1>2, <1>t DEF ProbeTimer, GoesOffline, Connects, InboundResumes
  <2> QED  BY <2>1, <2>2, <2>3, <2>4, <2>5, <1>k DEF ghostVars
<1> QED  BY <1>1, <1>2 DEF LaneStep

--------------------------------------------------------------------------------
(* The coordinator's own steps *)

\* a scan that ends changes no row
LEMMA EndScanOK ==
  ASSUME TypeInv, EndScan
  PROVE  StepOK
<1>1. lanes' \in Lanes(Partitions)
  <2>1. lanes \in Lanes(Partitions)
    BY DEF TypeInv, Memory
  <2>2. \A p \in Partitions : RetryLane(TakeReady(lanes, p), p) \in Lanes(Partitions)
    BY <2>1, LaneTypes
  <2>3. \A p \in lanes.ready : p \in Partitions
    BY <2>1 DEF Lanes
  <2> QED  BY <2>1, <2>2, <2>3 DEF EndScan
<1>2. StoreStep
  BY DEF EndScan, StoreStep, ghostVars
<1>3. Tasks'
  BY DEF EndScan, TypeInv, Tasks, TaskOK
<1> QED  BY <1>1, <1>2, <1>3 DEF EndScan, StepOK, TypeInv, Memory, ghostVars

\* start, stop and crash of a coordinator are good: only recovery touches rows
LEMMA LifeStepOK ==
  ASSUME TypeInv, Starts \/ StartsUnrecovered \/ Stops \/ Crashes
  PROVE  StepOK
<1>t. /\ Memory /\ Tasks /\ worker \in Nat /\ claims \in [Slots -> Task]
      /\ \A c \in Slots : TaskOK(claims[c])
  BY DEF TypeInv, Memory, Tasks
<1>1. StoreStep
  BY DEF Starts, StartsUnrecovered, Stops, Crashes, StoreStep, ghostVars
<1>2. budget' \in Nat
  BY <1>t, DisturbType DEF Starts, StartsUnrecovered, Stops, Crashes, Memory
<1>3. NoLanes \in Lanes(Partitions)
  BY DEF NoLanes, Lanes
<1>4. /\ worker' = worker \/ worker' = worker + 1
      /\ up' \in {TRUE, FALSE} /\ scan' \in {TRUE, FALSE}
      /\ lanes' = NoLanes /\ wakes' = {} /\ expiries' = {} /\ claimed' = {}
  BY DEF Starts, StartsUnrecovered, Stops, Crashes, FreshCoordinator, GoesDown
<1>5. online' = online /\ applied' = applied
  BY DEF Starts, StartsUnrecovered, Stops, Crashes, ghostVars
<1>6. Memory'
  <2>1. worker' \in Nat
    BY <1>t, <1>4
  <2>2. up' \in BOOLEAN /\ scan' \in BOOLEAN
    BY <1>4
  <2> QED  BY <1>t, <1>2, <1>3, <1>4, <1>5, <2>1, <2>2 DEF Memory
<1>7. Tasks'
  <2>1. CASE Starts \/ StartsUnrecovered
    BY <2>1, <1>t DEF Starts, StartsUnrecovered, Tasks, TaskOK
  <2>2. CASE Stops
    <3>1. \A c \in Slots : claims'[c] = IF Live(c) THEN [claims[c] EXCEPT !.aborted = TRUE]
                                                  ELSE claims[c]
      BY <2>2 DEF Stops
    <3>2. \A c \in Slots : TaskOK([claims[c] EXCEPT !.aborted = TRUE])
      <4> TAKE c \in Slots
      <4>1. TaskOK(claims[c]) /\ claims[c] \in Task
        BY <1>t
      <4> QED  BY <4>1 DEF TaskOK, Task
    <3>3. \A c \in Slots : TaskOK(claims'[c])
      BY <1>t, <3>1, <3>2
    <3>4. claims' \in [Slots -> Task]
      BY <2>2, <3>1, <3>3 DEF Stops, TaskOK
    <3> QED  BY <3>3, <3>4 DEF Tasks, TaskOK
  <2>3. CASE Crashes
    <3>1. TaskOK(FreeTask)
      BY StoreAssumption DEF TaskOK, FreeTask, Task, NoRow, NoWorker, NoStep
    <3> QED  BY <2>3, <3>1 DEF Crashes, Tasks, TaskOK
  <2> QED  BY <2>1, <2>2, <2>3
<1> QED  BY <1>1, <1>6, <1>7 DEF StepOK

\* Every step of the system is a step of the store, and keeps memory and tasks typed.
LEMMA NextOK ==
  ASSUME TypeInv, [Next]_vars
  PROVE  StepOK
<1>1. CASE UNCHANGED vars
  <2>1. StoreStep
    BY <1>1 DEF vars, StoreStep, ghostVars
  <2> QED  BY <1>1, <2>1, MemoryKept DEF vars
<1>2. CASE Next
  BY <1>2, TaskStepOK, RowStepOK, LaneStepOK, EndScanOK, LifeStepOK DEF Next
<1> QED  BY <1>1, <1>2

--------------------------------------------------------------------------------
(* The theorems *)

\* the invariant holds of an empty store and an idle coordinator
LEMMA InitOK ==
  ASSUME Init
  PROVE  TypeInv /\ RowsInv
<1>0. /\ rows = [i \in RowIds |-> NewRow(CHOOSE s \in Sessions : TRUE,
                                      CHOOSE p \in Partitions : TRUE,
                                      "none", 0, NoRow, "absent")]
      /\ size = 0 /\ next = [s \in Sessions |-> 0] /\ cursor = [s \in Sessions |-> 0]
      /\ sends = [i \in RowIds |-> 0]
  BY DEF Init, StoreInit
<1>1. \A i \in RowIds : /\ rows[i] \in OutboxRow
                        /\ rows[i].state = "absent" /\ sends[i] = 0
  <2>1. NewRow(CHOOSE s \in Sessions : TRUE, CHOOSE p \in Partitions : TRUE,
               "none", 0, NoRow, "absent") \in OutboxRow
    BY StoreAssumption, NewRowType DEF Deliverable
  <2> QED  BY <2>1, <1>0 DEF NewRow
<1>2. StoreTypeOK
  <2>1. rows \in [RowIds -> OutboxRow]
    BY <1>0, <1>1
  <2>2. size \in 0..MaxRows
    BY <1>0, StoreAssumption
  <2>3. next \in [Sessions -> Nat] /\ cursor \in [Sessions -> Nat]
    BY <1>0
  <2> QED  BY <2>1, <2>2, <2>3 DEF StoreTypeOK
<1>3. Tasks
  <2>1. TaskOK(FreeTask)
    BY StoreAssumption DEF TaskOK, FreeTask, Task, NoRow, NoWorker, NoStep
  <2> QED  BY <2>1 DEF Init, Tasks, TaskOK
<1>4. Memory
  BY DeliveryAssumption DEF Init, Memory, NoLanes, Lanes, NoWorker
<1>5. sends \in [RowIds -> Nat]
  BY <1>0
<1>6. TypeInv
  BY <1>2, <1>3, <1>4, <1>5 DEF TypeInv
<1>7. Filled /\ Sequenced /\ CursorBounded
  <2>1. \A i \in RowIds : ~(i <= 0)
    BY StoreAssumption DEF RowIds
  <2>2. Filled
    <3>1. size = 0 /\ \A i \in RowIds : ~Present(i)
      BY <1>0, <1>1 DEF Present
    <3> QED  BY <3>1, <2>1 DEF Filled
  <2>3. Sequenced
    BY <1>1 DEF Sequenced, Present
  <2>4. CursorBounded
    <3>1. \A s \in Sessions : cursor[s] = 0 /\ next[s] = 0
      BY <1>0
    <3>2. ASSUME NEW s \in Sessions PROVE cursor[s] <= next[s]
      <4>1. cursor[s] = 0 /\ next[s] = 0
        BY <3>1
      <4> QED  BY <4>1
    <3> QED  BY <3>2 DEF CursorBounded
  <2> QED  BY <2>2, <2>3, <2>4
<1>8. OpenAtHead /\ CursorSplitsSession /\ LaneOrder /\ SendsCounted
  BY <1>1 DEF OpenAtHead, CursorSplitsSession, LaneOrder, SendsCounted, Present
<1>9. RowsInv
  BY <1>2, <1>5, <1>7, <1>8 DEF RowsInv
<1> QED  BY <1>6, <1>9

\* Memory, tasks and rows are typed, and the rows keep their order, along every step.
LEMMA InvPreserved ==
  ASSUME TypeInv, RowsInv, [Next]_vars
  PROVE  TypeInv' /\ RowsInv'
<1>1. StepOK
  BY NextOK
<1>2. RowsInv'
  BY <1>1, StoreStepInv DEF StepOK
<1>3. TypeInv'
  BY <1>1, <1>2 DEF StepOK, TypeInv, RowsInv
<1> QED  BY <1>2, <1>3

\* In every reachable state memory, tasks and rows are typed, and the rows satisfy
\* the named invariants of the rows: the inductive invariant of the delivery.
THEOREM Invariance == Spec => [](TypeInv /\ RowsInv)
<1>1. Init => TypeInv /\ RowsInv
  BY InitOK
<1>2. TypeInv /\ RowsInv /\ [Next]_vars => TypeInv' /\ RowsInv'
  BY InvPreserved
<1> QED  BY <1>1, <1>2, PTL DEF Spec

\* Rows, lanes, timers and tasks keep the types of the tables and maps they model, and
\* the cursor of a session separates what is closed for good from what is not.
THEOREM SessionsAreSplit == Spec => []SessionsSplit
<1>1. TypeInv => DeliveryTypeOK
  BY DEF TypeInv, Memory, Tasks, TaskOK, DeliveryTypeOK, Live
<1>2. RowsInv => CursorSplitsSession
  BY DEF RowsInv
<1>3. TypeInv /\ RowsInv => SessionsSplit
  BY <1>1, <1>2 DEF SessionsSplit
<1> QED  BY <1>3, Invariance, PTL

\* However many coordinators come and go, no row is handed to its transport twice.
THEOREM SendsAtMostOnce == Spec => []AtMostOneSend
<1>1. RowsInv => AtMostOneSend
  BY DEF RowsInv, SendsCounted, AtMostOneSend
<1> QED  BY <1>1, Invariance, PTL

\* Two messages of one partition are never with the transport together.
THEOREM TransportsExclude == Spec => []OneTransportPerPartition
<1>1. ASSUME RowsInv, NEW i \in RowIds, NEW j \in RowIds, i # j,
             rows[i].state = "sending", rows[j].state = "sending",
             rows[i].partition = rows[j].partition
      PROVE  FALSE
  <2>1. i < j \/ j < i
    BY <1>1, StoreAssumption DEF RowIds
  <2> QED  BY <1>1, <2>1 DEF RowsInv, LaneOrder
<1>2. RowsInv => OneTransportPerPartition
  BY <1>1 DEF OneTransportPerPartition
<1> QED  BY <1>2, Invariance, PTL

--------------------------------------------------------------------------------
(* The rows implement OrderedOutbox: from RowsInv alone, each StoreStep is, under the   *)
(* refinement mapping LogOfRows, a step of the ordered outbox or leaves its log alone.  *)

\* a store step that starts a transport finds no later row sent
LEMMA SendsInOrderStep ==
  ASSUME RowsInv, StoreStep
  PROVE  \A i \in RowIds : sends'[i] > sends[i] =>
           \A j \in RowIds :
             (/\ i < j /\ rows[j].state # "absent"
              /\ \/ rows[j].partition = rows[i].partition
                 \/ rows[j].session = rows[i].session) => sends[j] = 0
<1> SUFFICES ASSUME NEW i \in RowIds, sends'[i] > sends[i],
                    NEW j \in RowIds, i < j, Present(j),
                    \/ rows[j].partition = rows[i].partition
                    \/ rows[j].session = rows[i].session
             PROVE  sends[j] = 0
  BY DEF Present
<1>t. /\ sends \in [RowIds -> Nat] /\ rows \in [RowIds -> OutboxRow]
      /\ cursor \in [Sessions -> Nat]
  BY DEF RowsInv, StoreTypeOK
<1>1. rows[i].state = "sending" /\ ~rows[i].started
  <2>1. PICK k \in RowIds : Transport(k)
    BY <1>t DEF StoreStep
  <2>2. k = i
    BY <1>t, <2>1 DEF Transport
  <2> QED  BY <2>1, <2>2 DEF Transport, CanStartTransport
<1>2. SUFFICES ASSUME rows[j].state \notin {"absent", "pending"} PROVE FALSE
  <2>1. sends[j] # 1
    BY <1>2 DEF RowsInv, SendsCounted
  <2>2. sends[j] \in Nat /\ sends[j] <= 1
    BY <1>t DEF RowsInv, SendsCounted
  <2> QED  BY <2>1, <2>2
<1>3. CASE rows[j].partition = rows[i].partition
  BY <1>1, <1>2, <1>3 DEF RowsInv, LaneOrder
<1>4. CASE rows[j].session = rows[i].session
  <2>1. rows[i] \in OutboxRow /\ rows[j] \in OutboxRow
    BY <1>t
  <2>2. rows[i].seq \in Nat /\ rows[j].seq \in Nat /\ cursor[rows[i].session] \in Nat
    BY <1>t, <2>1 DEF OutboxRow
  <2>3. rows[i].seq < rows[j].seq /\ rows[i].seq = cursor[rows[i].session] + 1
    BY <1>1, <1>4 DEF RowsInv, Sequenced, OpenAtHead, IsHead
  <2>4. ~IsHead(j) /\ ~(rows[j].seq <= cursor[rows[j].session])
    BY <1>4, <2>2, <2>3 DEF IsHead
  <2>5. rows[j].state \in {"sending", "sent_remote"} \/ rows[j].state \in Terminal
    BY <1>2, <2>1 DEF OutboxRow
  <2> QED  BY <2>4, <2>5 DEF RowsInv, OpenAtHead, CursorSplitsSession, Present
<1> QED  BY <1>3, <1>4

\* No step starts the transport of a row while a later row of its session or of its
\* delivery partition has already been sent, whatever claims, retries and recoveries ran.
THEOREM OrderOfSends == Spec => SendsInOrder
<1> DEFINE Earlier ==
      \A i \in RowIds : sends'[i] > sends[i] =>
        \A j \in RowIds :
          (/\ i < j /\ rows[j].state # "absent"
           /\ \/ rows[j].partition = rows[i].partition
              \/ rows[j].session = rows[i].session) => sends[j] = 0
<1>1. TypeInv /\ RowsInv /\ [Next]_vars => [Earlier]_vars
  BY NextOK, SendsInOrderStep DEF StepOK
<1> QED  BY <1>1, Invariance, PTL DEF Spec, SendsInOrder

--------------------------------------------------------------------------------
(* The refinement *)

Entry(r) == [session |-> r.session, partition |-> r.partition, fate |-> Fate(r)]

\* the mapped log, entry by entry
LEMMA LogEntries ==
  /\ LogOfRows = [i \in RowIds |-> Entry(rows[i])]
  /\ LogOfRows' = [i \in RowIds |-> Entry(rows'[i])]
BY DEF LogOfRows, Entry, Fate

\* a row's fate is one the log knows
LEMMA FateIsFate ==
  ASSUME NEW r
  PROVE  Fate(r) \in Ordered!Fates
BY DEF Fate, Ordered!Fates

\* an empty store is an empty log
LEMMA InitOrdered ==
  ASSUME Init
  PROVE  Ordered!OrderedInit
<1>1. StoreTypeOK
  BY InitOK DEF TypeInv
<1>2. \A i \in RowIds : rows[i].state = "absent"
  BY DEF Init, StoreInit, NewRow
<1>3. \A i \in RowIds :
        Entry(rows[i]) \in [session : Sessions, partition : Partitions, fate : {"absent"}]
  <2> TAKE i \in RowIds
  <2>1. rows[i] \in OutboxRow
    BY <1>1 DEF StoreTypeOK
  <2>2. rows[i].session \in Sessions /\ rows[i].partition \in Partitions
    BY <2>1 DEF OutboxRow
  <2>3. Fate(rows[i]) = "absent"
    BY <1>2 DEF Fate
  <2> QED  BY <2>2, <2>3 DEF Entry
<1> QED  BY <1>3, LogEntries DEF Init, StoreInit, Ordered!OrderedInit, Ordered!Ids, RowIds

\* Changes of fate that only end messages are a Conclude step.
LEMMA Concludes ==
  ASSUME size' = size,
         \A i \in RowIds : /\ rows'[i].session = rows[i].session
                           /\ rows'[i].partition = rows[i].partition,
         \A i \in RowIds :
            \/ Fate(rows'[i]) = Fate(rows[i])
            \/ Fate(rows[i]) \in {"waiting", "out"} /\ Fate(rows'[i]) = "closed"
            \/ Fate(rows[i]) = "out" /\ Fate(rows'[i]) = "doubtful"
  PROVE  Ordered!Conclude
<1> DEFINE fate == [i \in RowIds |-> Fate(rows'[i])]
<1>1. fate \in [RowIds -> Ordered!Fates]
  BY FateIsFate
<1>2. LogOfRows' = [i \in RowIds |-> [LogOfRows[i] EXCEPT !.fate = fate[i]]]
  <2>1. \A i \in RowIds : Entry(rows'[i]) = [Entry(rows[i]) EXCEPT !.fate = Fate(rows'[i])]
    BY DEF Entry
  <2> QED  BY <2>1, LogEntries
<1>3. \A i \in RowIds :
        \/ fate[i] = LogOfRows[i].fate
        \/ LogOfRows[i].fate \in {"waiting", "out"} /\ fate[i] = "closed"
        \/ LogOfRows[i].fate = "out" /\ fate[i] = "doubtful"
  BY LogEntries DEF Entry
<1> HIDE DEF fate
<1> QED  BY <1>1, <1>2, <1>3 DEF Ordered!Conclude, Ordered!Ids, RowIds

\* inserting a row appends a waiting message
LEMMA InsertionAppends ==
  ASSUME RowsInv, Insertion
  PROVE  Ordered!Append
<1>1. PICK s \in Sessions, p \in Partitions, h \in Deliverable \cup {"held"},
           src \in RowIds \cup {NoRow} : InsertOutbox(s, p, h, src)
  BY DEF Insertion
<1> DEFINE r == NewRow(s, p, h, next[s] + 1, src, "pending")
<1>2. Entry(r) = [session |-> s, partition |-> p, fate |-> "waiting"]
  BY DEF Entry, Fate, NewRow
<1> HIDE DEF r
<1>3. size < MaxRows /\ size' = size + 1 /\ rows' = [rows EXCEPT ![size + 1] = r]
  BY <1>1 DEF InsertOutbox, r
<1>4. rows \in [RowIds -> OutboxRow]
  BY DEF RowsInv, StoreTypeOK
<1>5. LogOfRows' = [LogOfRows EXCEPT ![size + 1] = Entry(r)]
  BY <1>3, <1>4, LogEntries
<1> QED  BY <1>2, <1>3, <1>5 DEF Ordered!Append

\* recovery closes messages, leaves them in doubt, or changes none
LEMMA RecoveryConcludes ==
  ASSUME RowsInv, RecoverOutbox
  PROVE  Ordered!Conclude
<1>1. \A i \in RowIds : /\ rows[i] \in OutboxRow /\ rows'[i] = RecoveredRow(rows[i])
                        /\ rows[i].state = "sending" => rows[i].uncertain = NoStep
  BY DEF RowsInv, StoreTypeOK, OpenAtHead, Present, RecoverOutbox
<1>2. \A i \in RowIds : /\ rows'[i].session = rows[i].session
                        /\ rows'[i].partition = rows[i].partition
                        /\ rows'[i].state = RecoveredState(rows[i])
                        /\ rows'[i].started = rows[i].started
                        /\ rows'[i].uncertain = rows[i].uncertain
  <2> TAKE i \in RowIds
  <2>1. rows[i] \in OutboxRow /\ rows'[i] = RecoveredRow(rows[i])
    BY <1>1
  <2> QED  BY <2>1 DEF RecoveredRow, OutboxRow
<1>3. size' = size
  BY DEF RecoverOutbox
<1>4. \A i \in RowIds :
        \/ Fate(rows'[i]) = Fate(rows[i])
        \/ Fate(rows[i]) \in {"waiting", "out"} /\ Fate(rows'[i]) = "closed"
        \/ Fate(rows[i]) = "out" /\ Fate(rows'[i]) = "doubtful"
  <2> TAKE i \in RowIds
  <2>1. CASE LostInTransport(rows[i])
    <3>1. Fate(rows[i]) = "out"
      BY <2>1 DEF Fate, LostInTransport
    <3>2. Fate(rows'[i]) = "closed"
      BY <2>1, <1>1, <1>2 DEF Fate, LostInTransport, RecoveredState
    <3> QED  BY <3>1, <3>2
  <2>2. CASE LostInSettle(rows[i])
    <3>1. Fate(rows[i]) = "out"
      BY <2>2 DEF Fate, LostInSettle
    <3>2. Fate(rows'[i]) = "doubtful"
      BY <2>2, <1>2 DEF Fate, LostInSettle, RecoveredState
    <3> QED  BY <3>1, <3>2
  <2>3. CASE ~LostInTransport(rows[i]) /\ ~LostInSettle(rows[i])
    BY <2>3, <1>2 DEF Fate, LostInTransport, LostInSettle, RecoveredState
  <2> QED  BY <2>1, <2>2, <2>3
<1> QED  BY <1>2, <1>3, <1>4, Concludes

\* a change of one row is a step of its message, or no step of the log
LEMMA RowChangeOrdered ==
  ASSUME RowsInv, NEW i \in RowIds, RowChange(i)
  PROVE  Ordered!Conclude \/ Ordered!SettleDoubt(i)
<1>t. rows \in [RowIds -> OutboxRow] /\ rows[i] \in OutboxRow
  BY DEF RowsInv, StoreTypeOK
<1>1. /\ size' = size
      /\ \A j \in RowIds : /\ j # i => rows'[j] = rows[j]
                           /\ rows'[j].session = rows[j].session
                           /\ rows'[j].partition = rows[j].partition
  BY DEF RowChange, OnlyRow
<1>2. CASE ~DoubtEnds(i)
  <2>1. \/ Fate(rows'[i]) = Fate(rows[i])
        \/ Fate(rows[i]) \in {"waiting", "out"} /\ Fate(rows'[i]) = "closed"
        \/ Fate(rows[i]) = "out" /\ Fate(rows'[i]) = "doubtful"
    <3>1. CASE Keeps(i)
      BY <3>1 DEF Keeps, Fate
    <3>2. CASE GetsClaimed(i) \/ GetsReceipt(i) \/ Settles(i) \/ GoesBack(i)
      BY <3>2 DEF GetsClaimed, GetsReceipt, Settles, GoesBack, Fate
    <3>3. CASE Closes(i)
      BY <3>3 DEF Closes, Fate, Terminal
    <3>4. CASE FallsInDoubt(i)
      BY <3>4 DEF FallsInDoubt, Fate, RowsInv, OpenAtHead, Present
    <3> QED  BY <1>2, <3>1, <3>2, <3>3, <3>4 DEF RowChange
  <2> QED  BY <1>1, <2>1, Concludes
<1>3. CASE DoubtEnds(i)
  <2>1. Fate(rows[i]) = "doubtful" /\ Fate(rows'[i]) = "out"
    BY <1>3 DEF DoubtEnds, Fate
  <2>2. LogOfRows' = [LogOfRows EXCEPT ![i].fate = "out"]
    <3>1. \A j \in RowIds : Entry(rows'[j]) = IF j = i THEN [Entry(rows[j]) EXCEPT !.fate = "out"]
                                                       ELSE Entry(rows[j])
      BY <1>1, <2>1 DEF Entry
    <3> QED  BY <3>1, LogEntries
  <2>3. LogOfRows[i].fate = "doubtful"
    BY <2>1, LogEntries DEF Entry
  <2> QED  BY <1>1, <2>2, <2>3 DEF Ordered!SettleDoubt
<1> QED  BY <1>2, <1>3

\* starting a transport sends out a message that may go
LEMMA TransportGoesOut ==
  ASSUME RowsInv, NEW i \in RowIds, Transport(i)
  PROVE  Ordered!GoOut(i)
<1>t. /\ rows \in [RowIds -> OutboxRow] /\ cursor \in [Sessions -> Nat] /\ size \in Int
      /\ RowIds \subseteq Int
  BY StoreAssumption DEF RowsInv, StoreTypeOK, RowIds
<1>1. /\ rows[i].state = "sending" /\ ~rows[i].started
      /\ rows' = [rows EXCEPT ![i].started = TRUE] /\ size' = size
  BY DEF Transport, CanStartTransport, MarkOutboxTransportStarted
<1>2. LogOfRows' = [LogOfRows EXCEPT ![i].fate = "out"]
  <2>1. rows'[i] = [rows[i] EXCEPT !.started = TRUE]
        /\ \A j \in RowIds : j # i => rows'[j] = rows[j]
    BY <1>t, <1>1
  <2>2. rows'[i].session = rows[i].session /\ rows'[i].partition = rows[i].partition
        /\ rows'[i].state = "sending" /\ rows'[i].started
    <3>1. rows[i] \in OutboxRow
      BY <1>t
    <3> QED  BY <2>1, <3>1, <1>1 DEF OutboxRow
  <2>3. Fate(rows'[i]) = "out"
    BY <2>2 DEF Fate
  <2>4. \A j \in RowIds : Entry(rows'[j]) = IF j = i THEN [Entry(rows[j]) EXCEPT !.fate = "out"]
                                                     ELSE Entry(rows[j])
    BY <2>1, <2>2, <2>3 DEF Entry
  <2> QED  BY <2>4, LogEntries
<1>3. LogOfRows[i].fate = "waiting"
  BY <1>1, LogEntries DEF Entry, Fate
<1>4. Ordered!MayGoOut(i)
  <2> SUFFICES ASSUME NEW e \in 1..(i - 1)
               PROVE  /\ rows[e].session = rows[i].session => Fate(rows[e]) = "closed"
                      /\ rows[e].partition = rows[i].partition => Fate(rows[e]) # "waiting"
    <3>1. \A e \in 1..(i - 1) : e \in RowIds
      BY <1>t, StoreAssumption DEF RowIds
    <3> QED  BY <3>1, LogEntries DEF Ordered!MayGoOut, Entry
  <2>1. e \in RowIds /\ e < i
    BY <1>t, StoreAssumption DEF RowIds
  <2>2. Present(e) /\ Present(i)
    BY <1>1, <1>t, <2>1 DEF RowsInv, Filled, Present
  <2>3. ASSUME rows[e].session = rows[i].session PROVE Fate(rows[e]) = "closed"
    <3>1. rows[e] \in OutboxRow /\ rows[i] \in OutboxRow
      BY <1>t, <2>1
    <3>2. rows[e].seq \in Nat /\ rows[i].seq \in Nat /\ cursor[rows[i].session] \in Nat
      BY <1>t, <3>1 DEF OutboxRow
    <3>3. rows[e].seq < rows[i].seq
      BY <2>1, <2>2, <2>3 DEF RowsInv, Sequenced
    <3>4. rows[i].seq = cursor[rows[i].session] + 1
      BY <1>1 DEF RowsInv, OpenAtHead, IsHead
    <3>5. rows[e].seq <= cursor[rows[e].session]
      BY <2>3, <3>2, <3>3, <3>4
    <3>6. rows[e].state \in Terminal /\ rows[e].uncertain = NoStep
      BY <2>1, <2>2, <3>5 DEF RowsInv, CursorSplitsSession, Present
    <3> QED  BY <3>6 DEF Fate, Terminal
  <2>4. ASSUME rows[e].partition = rows[i].partition PROVE Fate(rows[e]) # "waiting"
    <3>1. rows[e].state \notin {"absent", "pending", "sending"}
      BY <2>1, <2>4, <1>1 DEF RowsInv, LaneOrder
    <3> QED  BY <3>1 DEF Fate
  <2> QED  BY <2>3, <2>4
<1> QED  BY <1>1, <1>2, <1>3, <1>4 DEF Ordered!GoOut

\* Every step of the store is a step of the ordered outbox, or none.
LEMMA StoreStepOrdered ==
  ASSUME RowsInv, StoreStep
  PROVE  Ordered!OrderedNext \/ UNCHANGED <<LogOfRows, size>>
<1>1. CASE UNCHANGED <<storeVars, sends>>
  BY <1>1, LogEntries DEF storeVars
<1>2. CASE Insertion
  BY <1>2, InsertionAppends DEF Ordered!OrderedNext
<1>3. CASE RecoverOutbox
  BY <1>3, RecoveryConcludes DEF Ordered!OrderedNext
<1>4. CASE \E i \in RowIds : RowOperation(i)
  <2>1. PICK i \in RowIds : RowOperation(i)
    BY <1>4
  <2>2. Ordered!Conclude \/ Ordered!SettleDoubt(i)
    BY <2>1, RowOperationChange, RowChangeOrdered DEF RowsInv
  <2> QED  BY <2>2 DEF Ordered!OrderedNext, Ordered!Ids, RowIds
<1>5. CASE \E i \in RowIds : Transport(i)
  BY <1>5, TransportGoesOut DEF Ordered!OrderedNext, Ordered!Ids, RowIds
<1> QED  BY <1>1, <1>2, <1>3, <1>4, <1>5 DEF StoreStep

\* The durable rows, whatever coordinators do to them, keep the promise of the
\* ordered outbox.
THEOREM RowsKeepOrder == Spec => KeepsOrder
<1>1. Init => Ordered!OrderedInit
  BY InitOrdered
<1>2. TypeInv /\ RowsInv /\ [Next]_vars => [Ordered!OrderedNext]_<<LogOfRows, size>>
  BY NextOK, StoreStepOrdered DEF StepOK
<1> QED  BY <1>1, <1>2, Invariance, PTL DEF Spec, KeepsOrder, Ordered!OrderedSpec

--------------------------------------------------------------------------------
(* Tasks, leases and timers: what every task keeps *)

\* a live task belongs to a coordinator that was, and its row exists; one the actor
\* gave up is aborted and has had its only try at a final write
TaskBooked(c) ==
  Live(c) =>
    /\ claims[c].worker # NoWorker /\ claims[c].worker <= worker
    /\ Present(claims[c].row)
    /\ IF claims[c].zombie THEN claims[c].aborted /\ claims[c].tried
       ELSE ~claims[c].tried /\ ~claims[c].finalized

Booked == (up => worker # NoWorker) /\ \A c \in Slots : TaskBooked(c)

\* a row that waits or is closed is leased to nobody
Unleased ==
  \A i \in RowIds :
    rows[i].state \in {"absent", "pending"} \cup Terminal => rows[i].worker = NoWorker

Base == TypeInv /\ RowsInv /\ Booked /\ Unleased

\* what the rest of a task's life does not change
SameTask(c) ==
  /\ Live(c)'
  /\ claims'[c].row = claims[c].row
  /\ claims'[c].worker = claims[c].worker

StaysTask(c) ==
  /\ SameTask(c)
  /\ claims'[c].zombie = claims[c].zombie
  /\ claims'[c].tried = claims[c].tried
  /\ claims'[c].finalized = claims[c].finalized
  /\ claims[c].aborted => claims'[c].aborted

OtherTasks(c) == \A d \in Slots : d # c => claims'[d] = claims[d]
OtherRows(i) == \A j \in RowIds : j # i => rows'[j] = rows[j]

\* what no write to a row in between touches
SameRow(i) ==
  /\ rows'[i].session = rows[i].session
  /\ rows'[i].partition = rows[i].partition
  /\ rows'[i].seq = rows[i].seq
  /\ rows'[i].hold = rows[i].hold

\* an attended task writes to its own row, under its lease
Held(i, w) == rows[i].state \in {"sending", "sent_remote"} /\ rows[i].worker = w

WritesOwn(i, w) ==
  /\ UNCHANGED <<size, next, cursor>>
  /\ OtherRows(i) /\ SameRow(i) /\ rows'[i].due = rows[i].due
  /\ Held(i, w)
  /\ rows'[i].worker = w
  /\ rows'[i].state = rows[i].state \/ rows'[i].state = "sent_remote"
  /\ rows'[i].lapsed => rows[i].lapsed

\* what the writes of a task say of the settle steps
StepsKept(c, i) ==
  /\ rows'[i].steps = rows[i].steps /\ rows'[i].uncertain = rows[i].uncertain
  /\ claims'[c].done = claims[c].done
  /\ UNCHANGED applied

StepDone(c, i, st) ==
  /\ rows'[i].steps = rows[i].steps \cup {st}
  /\ claims'[c].done = claims[c].done \cup {st}
  /\ rows'[i].uncertain = rows[i].uncertain \/ (rows[i].uncertain = st /\ rows'[i].uncertain = NoStep)
  /\ UNCHANGED applied

HookEntered(c, i, st) ==
  /\ st \in Steps \ claims[c].done
  /\ st \in rows[i].steps \/ rows[i].uncertain = NoStep
  /\ rows'[i].steps = rows[i].steps
  /\ claims'[c].done = claims[c].done
  /\ rows'[i].uncertain = IF st \in rows[i].steps THEN rows[i].uncertain ELSE st
  /\ applied' = [applied EXCEPT ![i][st] = @ + 1]

\* a task goes on
Continues(c) ==
  /\ Live(c) /\ OtherTasks(c) /\ StaysTask(c)
  /\ UNCHANGED <<schedVars, online>>
  /\ \/ UNCHANGED storeVars /\ StepsKept(c, claims[c].row)
     \/ /\ Attended(c) /\ WritesOwn(claims[c].row, claims[c].worker)
        /\ \/ StepsKept(c, claims[c].row)
           \/ \E st \in Steps : StepDone(c, claims[c].row, st) \/ HookEntered(c, claims[c].row, st)

\* Only a task the actor waits for passes the checks before a write, and its own final
\* write is still due.
LEMMA WritersAreAttended ==
  ASSUME Booked, NEW c \in Slots, Live(c)
  PROVE  /\ Usable(c) => Attended(c)
         /\ ~AlreadyFinal(c) <=> Attended(c)
BY DEF Booked, TaskBooked, Usable, Attended, AlreadyFinal, Mine

\* the steps that only move the task
LEMMA MovesContinue ==
  ASSUME Base, NEW c \in Slots, Live(c),
         \/ Begin(c) \/ Prepared(c) \/ RenewalAborts(c)
         \/ \E st \in Steps : SettleStep(c, st)
  PROVE  Continues(c)
<1>r. claims \in [Slots -> Task] /\ claims[c] \in Task
  BY DEF Base, TypeInv, Tasks
<1>1. UNCHANGED <<storeVars, schedVars, online, applied>>
  BY DEF Begin, Prepared, RenewalAborts, SettleStep, ghostVars
<1>2. \/ \E pc \in {"run", "paced"} : claims' = [claims EXCEPT ![c] = [claims[c] EXCEPT !.pc = pc]]
      \/ claims' = [claims EXCEPT ![c] = [claims[c] EXCEPT !.aborted = TRUE]]
      \/ \E st \in Steps :
           claims' = [claims EXCEPT ![c] = [claims[c] EXCEPT !.pc = "step", !.cur = st]]
  BY <1>r DEF Begin, Prepared, RenewalAborts, SettleStep
<1>3. OtherTasks(c)
  BY <1>r, <1>2 DEF OtherTasks
<1>4. StaysTask(c) /\ claims'[c].done = claims[c].done
  <2>1. CASE \E pc \in {"run", "paced"} :
               claims' = [claims EXCEPT ![c] = [claims[c] EXCEPT !.pc = pc]]
    BY <1>r, <2>1 DEF StaysTask, SameTask, Live, Task
  <2>2. CASE claims' = [claims EXCEPT ![c] = [claims[c] EXCEPT !.aborted = TRUE]]
    BY <1>r, <2>2 DEF StaysTask, SameTask, Live, Task
  <2>3. CASE \E st \in Steps :
               claims' = [claims EXCEPT ![c] = [claims[c] EXCEPT !.pc = "step", !.cur = st]]
    BY <1>r, <2>3 DEF StaysTask, SameTask, Live, Task
  <2> QED  BY <1>2, <2>1, <2>2, <2>3
<1> QED  BY <1>1, <1>3, <1>4 DEF Continues, StepsKept, storeVars

\* the steps that write to the row of the task
LEMMA WritesContinue ==
  ASSUME Base, NEW c \in Slots, Live(c),
         \/ SendRemote(c) \/ RemoteAnswers(c) \/ SettleStepAnswers(c) \/ SettleEffectAnswers(c)
         \/ RenewLease(c) \/ \E st \in Steps : SettleEffect(c, st)
  PROVE  Continues(c)
<1> DEFINE i == claims[c].row
           w == claims[c].worker
<1>r. /\ claims \in [Slots -> Task] /\ claims[c] \in Task
      /\ rows \in [RowIds -> OutboxRow] /\ i \in RowIds /\ rows[i] \in OutboxRow
      /\ claims[c].pc \in {"step", "effect"} => claims[c].cur \in Steps
      /\ w # NoWorker
  BY LiveTask DEF Base, TypeInv, Tasks, TaskOK, StoreTypeOK, Row, Booked, TaskBooked
<1>a. Usable(c) => Attended(c)
  BY WritersAreAttended DEF Base
<1>l. ASSUME Attended(c), OtherTasks(c), StaysTask(c), UNCHANGED <<schedVars, online>>,
             WritesOwn(i, w),
             \/ StepsKept(c, i)
             \/ \E st \in Steps : StepDone(c, i, st) \/ HookEntered(c, i, st)
      PROVE  Continues(c)
  BY <1>l DEF Continues
<1>1. CASE SendRemote(c)
  <2>1. /\ Attended(c) /\ rows[i].state = "sending" /\ rows[i].worker = w
        /\ rows' = [rows EXCEPT ![i] = [rows[i] EXCEPT !.started = TRUE]]
        /\ claims' = [claims EXCEPT ![c] = [claims[c] EXCEPT !.pc = "remote"]]
        /\ UNCHANGED <<size, next, cursor, schedVars, online, applied>>
    BY <1>1, <1>a, <1>r DEF SendRemote, CanStartTransport, MarkOutboxTransportStarted
  <2>2. WritesOwn(i, w) /\ rows'[i].steps = rows[i].steps /\ rows'[i].uncertain = rows[i].uncertain
    BY <2>1, <1>r DEF WritesOwn, OtherRows, SameRow, Held, OutboxRow
  <2>3. OtherTasks(c) /\ StaysTask(c) /\ claims'[c].done = claims[c].done
    BY <2>1, <1>r DEF OtherTasks, StaysTask, SameTask, Live, Task
  <2> QED  BY <2>1, <2>2, <2>3, <1>l DEF StepsKept
<1>2. CASE RemoteAnswers(c)
  <2>1. /\ Attended(c) /\ rows[i].state \in {"sending", "sent_remote"} /\ rows[i].worker = w
        /\ rows' = [rows EXCEPT ![i] = [rows[i] EXCEPT !.state = "sent_remote"]]
        /\ claims' = [claims EXCEPT ![c] = [claims[c] EXCEPT !.pc = "run", !.phase = "settle",
                                                              !.proven = TRUE]]
        /\ UNCHANGED <<size, next, cursor, schedVars, online, applied>>
    BY <1>2, <1>a, <1>r DEF RemoteAnswers, CanRecordReceipt, MarkOutboxRemoteSent, ghostVars
  <2>2. WritesOwn(i, w) /\ rows'[i].steps = rows[i].steps /\ rows'[i].uncertain = rows[i].uncertain
    BY <2>1, <1>r DEF WritesOwn, OtherRows, SameRow, Held, OutboxRow
  <2>3. OtherTasks(c) /\ StaysTask(c) /\ claims'[c].done = claims[c].done
    BY <2>1, <1>r DEF OtherTasks, StaysTask, SameTask, Live, Task
  <2> QED  BY <2>1, <2>2, <2>3, <1>l DEF StepsKept
<1>3. CASE SettleStepAnswers(c)
  <2> DEFINE st == claims[c].cur
  <2>0. st \in Steps
    BY <1>3, <1>r DEF SettleStepAnswers, At
  <2>1. /\ Attended(c) /\ rows[i].state = "sent_remote" /\ rows[i].worker = w
        /\ rows' = [rows EXCEPT ![i] = [rows[i] EXCEPT !.steps = rows[i].steps \cup {st}]]
        /\ claims' = [claims EXCEPT ![c] = [claims[c] EXCEPT !.pc = "run",
                                                      !.done = claims[c].done \cup {st}, !.cur = NoStep]]
        /\ UNCHANGED <<size, next, cursor, schedVars, online, applied>>
    BY <1>3, <1>a, <1>r DEF SettleStepAnswers, SentRemoteBy, CompleteOutboxSettleStep, ghostVars
  <2> HIDE DEF st
  <2>2. WritesOwn(i, w) /\ rows'[i].steps = rows[i].steps \cup {st}
        /\ rows'[i].uncertain = rows[i].uncertain
    BY <2>1, <1>r DEF WritesOwn, OtherRows, SameRow, Held, OutboxRow
  <2>3. OtherTasks(c) /\ StaysTask(c) /\ claims'[c].done = claims[c].done \cup {st}
    BY <2>1, <1>r DEF OtherTasks, StaysTask, SameTask, Live, Task
  <2> QED  BY <2>0, <2>1, <2>2, <2>3, <1>l DEF StepDone
<1>4. CASE SettleEffectAnswers(c)
  <2> DEFINE st == claims[c].cur
  <2>0. st \in Steps
    BY <1>4, <1>r DEF SettleEffectAnswers, At
  <2>1. /\ Attended(c) /\ rows[i].state = "sent_remote" /\ rows[i].worker = w
        /\ rows[i].uncertain = NoStep \/ rows[i].uncertain = st
        /\ rows' = [rows EXCEPT ![i] = [rows[i] EXCEPT !.steps = rows[i].steps \cup {st},
                                                      !.uncertain = NoStep]]
        /\ claims' = [claims EXCEPT ![c] = [claims[c] EXCEPT !.pc = "run",
                                                      !.done = claims[c].done \cup {st}, !.cur = NoStep]]
        /\ UNCHANGED <<size, next, cursor, schedVars, online, applied>>
    BY <1>4, <1>a, <1>r DEF SettleEffectAnswers, CanCompleteEffect, SentRemoteBy,
                            CompleteOutboxSettleEffect, ghostVars
  <2> HIDE DEF st
  <2>2. WritesOwn(i, w) /\ rows'[i].steps = rows[i].steps \cup {st}
        /\ rows'[i].uncertain = NoStep
    BY <2>1, <1>r DEF WritesOwn, OtherRows, SameRow, Held, OutboxRow
  <2>3. OtherTasks(c) /\ StaysTask(c) /\ claims'[c].done = claims[c].done \cup {st}
    BY <2>1, <1>r DEF OtherTasks, StaysTask, SameTask, Live, Task
  <2> QED  BY <2>0, <2>1, <2>2, <2>3, <1>l DEF StepDone
<1>5. CASE \E st \in Steps : SettleEffect(c, st)
  <2>0. PICK st \in Steps : SettleEffect(c, st)
    BY <1>5
  <2> DEFINE u == IF st \in rows[i].steps THEN rows[i].uncertain ELSE st
  <2>1. /\ Attended(c) /\ rows[i].state = "sent_remote" /\ rows[i].worker = w
        /\ st \in Steps \ claims[c].done
        /\ st \in rows[i].steps \/ rows[i].uncertain = NoStep
        /\ rows' = [rows EXCEPT ![i] = [rows[i] EXCEPT !.uncertain = u]]
        /\ claims' = [claims EXCEPT ![c] = [claims[c] EXCEPT !.pc = "effect", !.cur = st]]
        /\ applied' = [applied EXCEPT ![i][st] = applied[i][st] + 1]
        /\ UNCHANGED <<size, next, cursor, schedVars, online>>
    BY <2>0, <1>a, <1>r DEF SettleEffect, NextStep, CanBeginEffect, SentRemoteBy,
                            BeginOutboxSettleEffect
  <2>2. WritesOwn(i, w) /\ rows'[i].steps = rows[i].steps /\ rows'[i].uncertain = u
    <3> HIDE DEF u
    <3> QED  BY <2>1, <1>r DEF WritesOwn, OtherRows, SameRow, Held, OutboxRow
  <2>3. OtherTasks(c) /\ StaysTask(c) /\ claims'[c].done = claims[c].done
    BY <2>1, <1>r DEF OtherTasks, StaysTask, SameTask, Live, Task
  <2> QED  BY <2>1, <2>2, <2>3, <1>l DEF HookEntered
<1>6. CASE RenewLease(c)
  <2>1. /\ Attended(c) /\ rows[i].state \in {"sending", "sent_remote"} /\ rows[i].worker = w
        /\ rows' = [rows EXCEPT ![i] = [rows[i] EXCEPT !.lapsed = FALSE]]
        /\ claims' = claims
        /\ UNCHANGED <<size, next, cursor, schedVars, online, applied>>
    BY <1>6, <1>r DEF RenewLease, RenewOutboxLease, Leased, ghostVars
  <2>2. WritesOwn(i, w) /\ rows'[i].steps = rows[i].steps /\ rows'[i].uncertain = rows[i].uncertain
    BY <2>1, <1>r DEF WritesOwn, OtherRows, SameRow, Held, OutboxRow
  <2>3. OtherTasks(c) /\ StaysTask(c) /\ claims'[c].done = claims[c].done
    BY <2>1, <1>r DEF OtherTasks, StaysTask, SameTask, Live, Task
  <2> QED  BY <2>1, <2>2, <2>3, <1>l DEF StepsKept
<1> QED  BY <1>1, <1>2, <1>3, <1>4, <1>5, <1>6

--------------------------------------------------------------------------------
(* How a task ends, in full *)

\* the last write of a task gives the lease up
Finishes(i, w) ==
  /\ UNCHANGED <<size, next>>
  /\ OtherRows(i) /\ SameRow(i) /\ Held(i, w)
  /\ rows'[i].worker = NoWorker
  /\ rows'[i].steps = rows[i].steps /\ rows'[i].uncertain = rows[i].uncertain
  /\ \/ rows'[i].state \in Terminal
     \/ rows[i].state = "sending" /\ rows'[i].state = "pending"
     \/ rows[i].state = "sent_remote" /\ rows'[i].state = "sent_remote"
  /\ rows'[i].due = rows[i].due \/ rows'[i].due \/ i \in wakes'

\* a partition is paused for the task's only while its account is away, and a task that
\* leaves a paused partition leaves an armed probe
LanesAfter(c) ==
  /\ \A p \in lanes'.paused : p \in lanes.paused \/ (p = Lane(c) /\ ~online[p])
  /\ \A p \in lanes'.paused :
       p # Lane(c) /\ p \in lanes.probes \cup lanes.ready => p \in lanes'.probes \cup lanes'.ready
  /\ Mine(c) /\ Lane(c) \in lanes'.paused => Live(c)' \/ Lane(c) \in lanes'.probes
  /\ ~Mine(c) => lanes' = lanes

\* the final write is done, is not due, or is refused
Concluded(i, w) ==
  \/ UNCHANGED <<storeVars, expiries>> /\ rows[i].state \in Terminal
  \/ UNCHANGED expiries /\ Finishes(i, w)
  \/ /\ UNCHANGED storeVars /\ expiries' = expiries \cup {i}
     /\ "persist" \in Disturbances \/ (rows[i].state \notin Terminal /\ ~Held(i, w))

\* a task ends: it is gone, or it runs on as one the actor gave up
EndsTask(c) ==
  /\ Live(c) /\ OtherTasks(c)
  /\ UNCHANGED <<worker, up, online, applied>>
  /\ \/ ~Live(c)'
     \/ /\ Attended(c) /\ SameTask(c)
        /\ claims'[c].zombie /\ claims'[c].aborted /\ claims'[c].tried
  /\ LanesAfter(c)
  /\ IF Attended(c)
       THEN /\ scan' /\ wakes \subseteq wakes' /\ claimed' = claimed \ {claims[c].row}
            /\ Concluded(claims[c].row, claims[c].worker)
       ELSE UNCHANGED <<storeVars, scan, wakes, expiries, claimed>>

\* what the end of a task does to tasks, claims and lanes
LEMMA EndFacts ==
  ASSUME Base, NEW c \in Slots, Live(c), NEW l, NEW finalized \in BOOLEAN, NEW how,
         End(c, l, finalized, how), how = "timed out" => Attended(c),
         UNCHANGED <<worker, up, online>>,
         \/ l = lanes
         \/ Attended(c) /\ ~online[Lane(c)] /\ l = PauseLane(lanes, Lane(c))
         \/ Attended(c) /\ l = ResumeLane(lanes, Lane(c))
  PROVE  /\ OtherTasks(c)
         /\ \/ ~Live(c)'
            \/ /\ Attended(c) /\ SameTask(c)
               /\ claims'[c].zombie /\ claims'[c].aborted /\ claims'[c].tried
         /\ LanesAfter(c)
         /\ IF Attended(c) THEN scan' /\ claimed' = claimed \ {claims[c].row}
                           ELSE UNCHANGED <<scan, claimed>>
<1> DEFINE p == Lane(c)
<1>r. /\ claims \in [Slots -> Task] /\ claims[c] \in Task /\ p \in Partitions
      /\ lanes \in Lanes(Partitions) /\ scan \in BOOLEAN /\ claims[c].proven \in BOOLEAN
  BY LiveTask DEF Base, TypeInv, Tasks, Memory
<1>m. Attended(c) => Mine(c)
  BY DEF Attended
<1>l. /\ \A q \in l.paused : q \in lanes.paused \/ (q = p /\ ~online[q])
      /\ \A q \in l.paused : q # p /\ q \in lanes.probes \cup lanes.ready => q \in l.probes \cup l.ready
      /\ ~Mine(c) => l = lanes
      /\ l \in Lanes(Partitions)
  <2>1. CASE l = lanes
    BY <2>1, <1>r
  <2>2. CASE Attended(c) /\ ~online[p] /\ l = PauseLane(lanes, p)
    BY <2>2, <1>r, <1>m DEF PauseLane, Lanes
  <2>3. CASE Attended(c) /\ l = ResumeLane(lanes, p)
    BY <2>3, <1>r, <1>m DEF ResumeLane, Lanes
  <2> QED  BY <2>1, <2>2, <2>3
<1> HIDE DEF p
<1>1. CASE how = "returned" /\ Leave(c, l)
  <2>1. claims' = [claims EXCEPT ![c] = FreeTask]
    BY <1>1 DEF Leave
  <2>2. OtherTasks(c) /\ ~Live(c)'
    BY <2>1, <1>r DEF OtherTasks, Live, FreeTask
  <2>3. IF Attended(c) THEN scan' /\ claimed' = claimed \ {claims[c].row}
                       ELSE UNCHANGED <<scan, claimed>>
    <3>1. CASE Attended(c)
      BY <1>1, <3>1 DEF Leave
    <3>2. CASE ~Attended(c)
      <4>1. scan' = scan
        BY <1>1, <3>2, <1>r DEF Leave
      <4> QED  BY <1>1, <3>2, <4>1 DEF Leave
    <3> QED  BY <3>1, <3>2
  <2>4. LanesAfter(c)
    <3>1. CASE ~Mine(c)
      <4>1. lanes' = lanes
        BY <1>1, <3>1 DEF Leave
      <4> QED  BY <3>1, <4>1 DEF LanesAfter
    <3>2. CASE Mine(c)
      <4>1. lanes' = CompleteAttempt(l, p, claims[c].proven)
        BY <1>1, <3>2 DEF Leave, p
      <4>2. /\ lanes'.paused \subseteq l.paused
            /\ \A q \in lanes'.paused : q # p /\ q \in l.probes \cup l.ready =>
                                          q \in lanes'.probes \cup lanes'.ready
            /\ p \in lanes'.paused => p \in lanes'.probes
        <5>1. CASE claims[c].proven /\ p \in l.paused
          BY <4>1, <5>1, <1>l DEF CompleteAttempt, ResumeLane, Lanes
        <5>2. CASE claims[c].proven /\ p \notin l.paused
          BY <4>1, <5>2, <1>l DEF CompleteAttempt, Lanes
        <5>3. CASE ~claims[c].proven
          BY <4>1, <5>3, <1>l DEF CompleteAttempt, RetryLane, Lanes
        <5> QED  BY <5>1, <5>2, <5>3
      <4> QED  BY <3>2, <4>2, <1>l DEF LanesAfter, p
    <3> QED  BY <3>1, <3>2
  <2> QED  BY <2>2, <2>3, <2>4
<1>2. CASE how = "timed out" /\ Abandon(c, l, finalized)
  <2> DEFINE t == [claims[c] EXCEPT !.zombie = TRUE, !.aborted = TRUE,
                                    !.tried = TRUE, !.finalized = finalized]
  <2>1. claims' = [claims EXCEPT ![c] = t]
    BY <1>2, <1>r DEF Abandon
  <2>2. t.pc = claims[c].pc /\ t.row = claims[c].row /\ t.worker = claims[c].worker
        /\ t.zombie /\ t.aborted /\ t.tried
    BY <1>r DEF Task
  <2> HIDE DEF t
  <2>3. OtherTasks(c) /\ SameTask(c)
        /\ claims'[c].zombie /\ claims'[c].aborted /\ claims'[c].tried
    BY <2>1, <2>2, <1>r DEF OtherTasks, SameTask, Live
  <2>4. lanes' = l /\ scan' /\ claimed' = claimed \ {claims[c].row} /\ Attended(c)
    BY <1>2 DEF Abandon
  <2>5. LanesAfter(c)
    BY <2>3, <2>4, <1>l DEF LanesAfter, SameTask, p
  <2> QED  BY <2>3, <2>4, <2>5
<1> QED  BY <1>1, <1>2 DEF End

\* a final write the store accepts
LEMMA FinishFacts ==
  ASSUME Base, NEW i \in RowIds, NEW w, NEW outcome \in Outcomes, NEW due \in BOOLEAN,
         CanFinishOutbox(i, w, outcome), FinishOutbox(i, outcome, due),
         outcome = "retry" /\ ~due => i \in wakes'
  PROVE  Finishes(i, w)
<1>r. rows \in [RowIds -> OutboxRow] /\ rows[i] \in OutboxRow
  BY DEF Base, TypeInv, StoreTypeOK
<1>h. Held(i, w)
  BY DEF CanFinishOutbox, Held
<1>1. CASE outcome = "retry"
  <2>1. rows' = [rows EXCEPT ![i] = RetriedRow(rows[i], due)] /\ UNCHANGED <<size, next>>
    BY <1>1 DEF FinishOutbox
  <2>2. OtherRows(i) /\ rows'[i] = RetriedRow(rows[i], due)
    BY <2>1, <1>r DEF OtherRows
  <2>3. SameRow(i) /\ rows'[i].worker = NoWorker
        /\ rows'[i].steps = rows[i].steps /\ rows'[i].uncertain = rows[i].uncertain
        /\ rows'[i].state = (IF rows[i].state = "sent_remote" THEN "sent_remote" ELSE "pending")
        /\ rows'[i].due = due
    BY <2>2, <1>r DEF SameRow, RetriedRow, OutboxRow
  <2> QED  BY <1>h, <1>1, <2>1, <2>2, <2>3 DEF Finishes, Held
<1>2. CASE outcome # "retry"
  <2>1. rows' = [rows EXCEPT ![i] = ClosedRow(rows[i], outcome)] /\ UNCHANGED <<size, next>>
    BY <1>2 DEF FinishOutbox
  <2>2. OtherRows(i) /\ rows'[i] = ClosedRow(rows[i], outcome)
    BY <2>1, <1>r DEF OtherRows
  <2>3. SameRow(i) /\ rows'[i].worker = NoWorker
        /\ rows'[i].steps = rows[i].steps /\ rows'[i].uncertain = rows[i].uncertain
        /\ rows'[i].state = outcome /\ rows'[i].due = rows[i].due
    BY <2>2, <1>r DEF SameRow, ClosedRow, OutboxRow
  <2> QED  BY <1>h, <1>2, <2>1, <2>2, <2>3 DEF Finishes, Outcomes, Terminal
<1> QED  BY <1>1, <1>2

\* The store refuses the final write of a failing task only when the row is not the
\* task's any more.
LEMMA FinalWriteAccepted ==
  ASSUME Base, NEW c \in Slots, Live(c), NEW disconnected \in BOOLEAN,
         FailureOutcome(c, disconnected) # "none", Held(claims[c].row, claims[c].worker)
  PROVE  CanFinishOutbox(claims[c].row, claims[c].worker,
                         StoredOutcome(FailureOutcome(c, disconnected)))
<1> DEFINE i == claims[c].row
<1>1. i \in RowIds /\ Present(i) /\ Row(c) = rows[i] /\ rows[i].state \in {"sending", "sent_remote"}
      /\ rows[i].worker = claims[c].worker
  BY LiveTask DEF Base, Booked, TaskBooked, Row, Held
<1>2. IsHead(i)
  BY <1>1 DEF Base, RowsInv, OpenAtHead
<1>3. rows[i].uncertain # NoStep => StoredOutcome(FailureOutcome(c, disconnected)) = "delivery_unknown"
  BY <1>1 DEF FailureOutcome, StoredOutcome, Terminal
<1> QED  BY <1>1, <1>2, <1>3 DEF CanFinishOutbox

\* a failing task ends
LEMMA FailTaskEnds ==
  ASSUME Base, NEW c \in Slots, Live(c), NEW kind, NEW disconnected \in BOOLEAN, NEW how,
         how = "timed out" => Attended(c), disconnected => ~online[Lane(c)],
         FailTask(c, kind, disconnected, how)
  PROVE  EndsTask(c)
<1> DEFINE i == claims[c].row
           w == claims[c].worker
           outcome == FailureOutcome(c, disconnected)
<1>1. PICK persisted \in BOOLEAN :
        /\ Disturb(kind, persisted)
        /\ FinishFailure(c, disconnected, persisted, how)
  BY DEF FailTask
<1>2. UNCHANGED <<worker, up, online, applied>>
  BY DEF FailTask, ghostVars
<1>3. persisted \/ "persist" \in Disturbances
  BY <1>1 DEF Disturb
<1>t. i \in RowIds /\ Row(c) = rows[i] /\ wakes \subseteq wakes
  BY LiveTask DEF Base, Row
<1>a. ~AlreadyFinal(c) <=> Attended(c)
  BY WritersAreAttended DEF Base
<1>f. /\ outcome \in {"none", "retry later", "retry now", "dead", "delivery_unknown"}
      /\ outcome # "none" => StoredOutcome(outcome) \in Outcomes
  BY FailureOutcomeFacts
<1>g. outcome = "none" <=> rows[i].state \in Terminal
  BY <1>t DEF FailureOutcome
<1>n. outcome = "retry now" => disconnected
  BY DEF FailureOutcome
<1>h. outcome # "none" /\ Held(i, w) => CanFinishOutbox(i, w, StoredOutcome(outcome))
  BY FinalWriteAccepted
<1> HIDE DEF outcome
<1>4. CASE /\ AlreadyFinal(c) \/ outcome = "none"
           /\ End(c, lanes, TRUE, how)
           /\ UNCHANGED <<storeVars, wakes, expiries>>
  <2>1. Attended(c) => Concluded(i, w)
    BY <1>4, <1>a, <1>g DEF Concluded
  <2>2. wakes \subseteq wakes'
    BY <1>4
  <2> QED  BY <1>2, <1>4, <2>1, <2>2, EndFacts DEF EndsTask
<1>5. CASE /\ ~AlreadyFinal(c) /\ outcome # "none"
           /\ CanFinishOutbox(i, w, StoredOutcome(outcome))
           /\ FinishOutbox(i, StoredOutcome(outcome), outcome = "retry now")
           /\ wakes' = IF outcome = "retry later" THEN wakes \cup {i} ELSE wakes
           /\ UNCHANGED expiries
           /\ End(c, IF outcome = "retry now" THEN PauseLane(lanes, Lane(c)) ELSE lanes,
                  TRUE, how)
  <2> DEFINE l == IF outcome = "retry now" THEN PauseLane(lanes, Lane(c)) ELSE lanes
             due == outcome = "retry now"
  <2>1. due \in BOOLEAN /\ (StoredOutcome(outcome) = "retry" /\ ~due => i \in wakes')
    BY <1>5, <1>f DEF StoredOutcome
  <2>2. Finishes(i, w)
    <3> HIDE DEF due
    <3>1. FinishOutbox(i, StoredOutcome(outcome), due)
      BY <1>5 DEF due
    <3> QED  BY <1>5, <1>f, <1>t, <2>1, <3>1, FinishFacts
  <2>3. Attended(c) /\ wakes \subseteq wakes'
    BY <1>5, <1>a
  <2>4. l = lanes \/ (~online[Lane(c)] /\ l = PauseLane(lanes, Lane(c)))
    BY <1>n
  <2>5. End(c, l, TRUE, how)
    BY <1>5
  <2> HIDE DEF l
  <2>6. Concluded(i, w)
    BY <1>5, <2>2 DEF Concluded
  <2> QED  BY <1>2, <2>3, <2>4, <2>5, <2>6, EndFacts DEF EndsTask
<1>6. CASE /\ outcome # "none" \/ ~persisted
           /\ ~(persisted /\ CanFinishOutbox(i, w, StoredOutcome(outcome)))
           /\ ~AlreadyFinal(c)
           /\ expiries' = expiries \cup {i}
           /\ End(c, lanes, FALSE, how)
           /\ UNCHANGED <<storeVars, wakes>>
  <2>1. Concluded(i, w)
    <3>1. CASE ~persisted
      BY <1>3, <1>6, <3>1 DEF Concluded
    <3>2. CASE persisted
      BY <1>6, <1>g, <1>h, <3>2 DEF Concluded
    <3> QED  BY <3>1, <3>2
  <2>2. Attended(c) /\ wakes \subseteq wakes'
    BY <1>6, <1>a
  <2> QED  BY <1>2, <1>6, <2>1, <2>2, EndFacts DEF EndsTask
<1> QED  BY <1>1, <1>4, <1>5, <1>6 DEF FinishFailure, outcome

\* a task that did everything ends
LEMMA FinishSentEnds ==
  ASSUME Base, NEW c \in Slots, Live(c), FinishSent(c)
  PROVE  EndsTask(c)
<1> DEFINE i == claims[c].row
           w == claims[c].worker
           l == IF claims[c].proven \/ claims[c].fresh THEN ResumeLane(lanes, Lane(c)) ELSE lanes
<1>1. i \in RowIds /\ Row(c) = rows[i]
  BY LiveTask DEF Base, Row
<1>2. Attended(c)
  BY WritersAreAttended DEF Base, FinishSent
<1>3. /\ Leave(c, l) /\ UNCHANGED <<worker, up, wakes, expiries, online, applied>>
      /\ CanFinishSent(c)
      /\ IF Row(c).state \in Terminal THEN UNCHANGED storeVars ELSE FinishOutbox(i, "sent", TRUE)
  BY DEF FinishSent, ghostVars
<1>4. l = lanes \/ l = ResumeLane(lanes, Lane(c))
  OBVIOUS
<1> HIDE DEF l
<1>5. Concluded(i, w)
  <2>1. CASE Row(c).state \in Terminal
    BY <1>1, <1>3, <2>1 DEF Concluded
  <2>2. CASE Row(c).state \notin Terminal
    <3>1. CanFinishOutbox(i, w, "sent") /\ FinishOutbox(i, "sent", TRUE)
      BY <1>3, <2>2 DEF CanFinishSent
    <3>2. Finishes(i, w)
      BY <1>1, <3>1, FinishFacts DEF Outcomes
    <3> QED  BY <1>3, <3>2 DEF Concluded
  <2> QED  BY <2>1, <2>2
<1>6. End(c, l, TRUE, "returned")
  BY <1>3 DEF End
<1>7. wakes \subseteq wakes'
  BY <1>3
<1> QED  BY <1>2, <1>3, <1>4, <1>5, <1>6, <1>7, EndFacts DEF EndsTask

\* Every step of a task lets it go on or ends it.
LEMMA TaskStepForm ==
  ASSUME Base, NEW c \in Slots, TaskStep(c)
  PROVE  Continues(c) \/ EndsTask(c)
<1>1. Live(c)
  BY DEF TaskStep, Live, Begin, Disconnected, PrepareFails, Prepared, SendRemote, RemoteAnswers,
         SettleStep, SettleEffect, SettleStepAnswers, SettleEffectAnswers, OperationFails,
         FinishSent, Fenced, Refused, TimesOut, RenewLease, RenewalAborts, At, Running, Attended
<1>2. CASE Disconnected(c)
  BY <1>1, <1>2, FailTaskEnds DEF Disconnected
<1>3. CASE PrepareFails(c)
  BY <1>1, <1>3, FailTaskEnds DEF PrepareFails
<1>4. CASE OperationFails(c)
  <2> DEFINE kind == IF online[Lane(c)] THEN "remote" ELSE "none"
  <2>1. CASE FailTask(c, kind, FALSE, "returned")
    <3> HIDE DEF kind
    <3> QED  BY <1>1, <2>1, FailTaskEnds
  <2>2. CASE FailTask(c, "settle", FALSE, "returned")
    BY <1>1, <2>2, FailTaskEnds
  <2> QED  BY <1>4, <2>1, <2>2 DEF OperationFails
<1>5. CASE Fenced(c) \/ Refused(c)
  BY <1>1, <1>5, FailTaskEnds DEF Fenced, Refused
<1>6. CASE TimesOut(c)
  BY <1>1, <1>6, FailTaskEnds DEF TimesOut, Running
<1>7. CASE FinishSent(c)
  BY <1>1, <1>7, FinishSentEnds
<1>8. CASE \/ Begin(c) \/ Prepared(c) \/ RenewalAborts(c)
           \/ \E st \in Steps : SettleStep(c, st)
  BY <1>1, <1>8, MovesContinue
<1>9. CASE \/ SendRemote(c) \/ RemoteAnswers(c) \/ SettleStepAnswers(c) \/ SettleEffectAnswers(c)
           \/ RenewLease(c) \/ \E st \in Steps : SettleEffect(c, st)
  BY <1>1, <1>9, WritesContinue
<1> QED  BY <1>2, <1>3, <1>4, <1>5, <1>6, <1>7, <1>8, <1>9 DEF TaskStep

--------------------------------------------------------------------------------
(* The other steps: claims, the environment, the coordinator's life *)

\* a row becomes the row of a new task
TakesUp(i, c) ==
  /\ up /\ scan /\ ~Live(c) /\ Eligible(i)
  /\ UNCHANGED <<size, next, cursor, worker, up, scan, wakes, expiries, online, applied>>
  /\ OtherRows(i) /\ SameRow(i)
  /\ rows'[i].due = rows[i].due /\ ~rows'[i].lapsed
  /\ rows'[i].state = IF rows[i].state = "pending" THEN "sending" ELSE rows[i].state
  /\ rows'[i].worker = worker
  /\ rows'[i].steps = rows[i].steps /\ rows'[i].uncertain = rows[i].uncertain
  /\ OtherTasks(c) /\ Live(c)'
  /\ claims'[c].row = i /\ claims'[c].worker = worker /\ claims'[c].done = rows[i].steps
  /\ ~claims'[c].zombie /\ ~claims'[c].tried /\ ~claims'[c].finalized
  /\ lanes'.paused = lanes.paused
  /\ lanes.probes \cup lanes.ready \subseteq lanes'.probes \cup lanes'.ready \cup {rows[i].partition}

\* a row is released, becomes due, or its lease lapses
Touches(i) ==
  /\ OtherRows(i) /\ UNCHANGED <<size, next, cursor, applied>>
  /\ rows'[i].session = rows[i].session
  /\ rows'[i].partition = rows[i].partition
  /\ rows'[i].seq = rows[i].seq
  /\ rows'[i].state = rows[i].state
  /\ rows'[i].worker = rows[i].worker
  /\ rows'[i].steps = rows[i].steps
  /\ rows'[i].uncertain = rows[i].uncertain
  /\ rows'[i].due = rows[i].due \/ rows'[i].due
  /\ \/ rows'[i].lapsed = rows[i].lapsed
     \/ /\ Leased(i) /\ rows'[i].lapsed
        /\ rows'[i].hold = rows[i].hold /\ rows'[i].due = rows[i].due
        /\ "stall" \in Disturbances \/ \A c \in Slots : ~(Attended(c) /\ claims[c].row = i)
  /\ (up => scan') \/ rows'[i].hold = rows[i].hold

Appends(k) ==
  /\ OtherRows(k) /\ UNCHANGED <<cursor, applied>>
  /\ rows[k].state = "absent"
  /\ rows'[k].state = "pending" /\ rows'[k].worker = NoWorker /\ rows'[k].due
  /\ up => scan'

Resolves(i) ==
  /\ OtherRows(i) /\ UNCHANGED <<size, next, cursor>>
  /\ SameRow(i) /\ rows'[i].worker = rows[i].worker /\ rows'[i].due
  /\ rows[i].state = "delivery_unknown" /\ rows'[i].state = "sent_remote"
  /\ rows[i].uncertain \in Steps /\ rows'[i].uncertain = NoStep
  /\ \/ rows'[i].steps = rows[i].steps \cup {rows[i].uncertain} /\ UNCHANGED applied
     \/ /\ rows'[i].steps = rows[i].steps
        /\ applied' = IF applied[i][rows[i].uncertain] = 0 THEN applied
                      ELSE [applied EXCEPT ![i][rows[i].uncertain] = @ - 1]
  /\ up => scan'

\* no probe is lost; a partition stays paused only while its account is away
LanesWatched ==
  /\ lanes'.paused \subseteq lanes.paused
  /\ \A p \in lanes'.paused :
       /\ p \in lanes.probes \cup lanes.ready => p \in lanes'.probes \cup lanes'.ready
       /\ online'[p] => online[p] \/ ~up

\* what may become claimable is scanned, or its timer is armed
WakesWatched ==
  /\ \A i \in wakes \ wakes' : rows[i].due
  /\ \/ up => scan'
     \/ UNCHANGED <<scan, wakes>> /\ \A p \in Partitions : online'[p] => online[p]
     \/ UNCHANGED <<storeVars, wakes, online>> /\ lanes'.paused = lanes.paused
        /\ \A j \in RowIds : ~Claimable(j)

ExpiriesWatched ==
  \/ UNCHANGED expiries
  \/ \E i \in RowIds : /\ expiries' = expiries \ {i} /\ (Leased(i) => rows[i].lapsed)
                       /\ UNCHANGED storeVars

Stirs ==
  /\ UNCHANGED <<claims, up, worker, claimed>>
  /\ LanesWatched /\ WakesWatched /\ ExpiriesWatched
  /\ \/ UNCHANGED <<storeVars, applied>>
     \/ \E i \in RowIds : Touches(i) \/ Appends(i) \/ Resolves(i)

\* a coordinator comes or goes
Turns ==
  /\ lanes' = NoLanes /\ wakes' = {} /\ expiries' = {} /\ claimed' = {}
  /\ UNCHANGED <<online, applied>>
  /\ \/ /\ up' /\ ~up /\ worker' = worker + 1 /\ UNCHANGED claims
        /\ \/ RecoverOutbox /\ scan'
           \/ UNCHANGED storeVars /\ "recovery" \in Disturbances
     \/ /\ ~up' /\ up /\ UNCHANGED <<worker, storeVars>>
        /\ "stop" \in Disturbances \/ "crash" \in Disturbances
        /\ \A c \in Slots : Live(c)' => Live(c) /\ StaysTask(c)

\* a claim takes up a row
LEMMA ClaimForm ==
  ASSUME Base, NEW i \in RowIds, NEW c \in Slots,
         Claim(i, c) \/ \E p \in Partitions : ClaimProbe(p, i, c)
  PROVE  TakesUp(i, c)
<1>r. /\ rows \in [RowIds -> OutboxRow] /\ rows[i] \in OutboxRow
      /\ claims \in [Slots -> Task] /\ worker \in Nat /\ lanes \in Lanes(Partitions)
  BY DEF Base, TypeInv, StoreTypeOK, Tasks, Memory
<1>1. /\ up /\ scan /\ Eligible(i) /\ TakeClaim(i, c)
      /\ UNCHANGED <<worker, up, scan, wakes, expiries, online, applied>>
  BY DEF Claim, ClaimProbe, Claimable, Probeable, ghostVars
<1>2. /\ ~Live(c) /\ rows' = [rows EXCEPT ![i] = ClaimedRow(rows[i], worker)]
      /\ UNCHANGED <<size, next, cursor>> /\ claims' = [claims EXCEPT ![c] = NewTask(i)]
  BY <1>1 DEF TakeClaim, ClaimOutbox
<1>3. rows'[i] = ClaimedRow(rows[i], worker) /\ OtherRows(i)
  BY <1>2, <1>r DEF OtherRows
<1>4. /\ SameRow(i) /\ rows'[i].due = rows[i].due /\ ~rows'[i].lapsed
      /\ rows'[i].state = (IF rows[i].state = "pending" THEN "sending" ELSE rows[i].state)
      /\ rows'[i].worker = worker
      /\ rows'[i].steps = rows[i].steps /\ rows'[i].uncertain = rows[i].uncertain
  <2>1. CASE rows[i].state = "pending"
    <3> DEFINE n == IF rows[i].attempts < MaxAttempts THEN rows[i].attempts + 1
                                                      ELSE rows[i].attempts
    <3>1. rows'[i] = [rows[i] EXCEPT !.state = "sending", !.worker = worker, !.lapsed = FALSE,
                                     !.started = FALSE, !.attempts = n]
      BY <1>3, <2>1 DEF ClaimedRow
    <3> HIDE DEF n
    <3> QED  BY <2>1, <3>1, <1>r DEF SameRow, OutboxRow
  <2>2. CASE rows[i].state # "pending"
    BY <2>2, <1>3, <1>r DEF ClaimedRow, SameRow, OutboxRow
  <2> QED  BY <2>1, <2>2
<1>5. /\ OtherTasks(c) /\ Live(c)'
      /\ claims'[c].row = i /\ claims'[c].worker = worker /\ claims'[c].done = rows[i].steps
      /\ ~claims'[c].zombie /\ ~claims'[c].tried /\ ~claims'[c].finalized
  BY <1>2, <1>r DEF OtherTasks, Live, NewTask
<1>6. /\ lanes'.paused = lanes.paused
      /\ lanes.probes \cup lanes.ready \subseteq lanes'.probes \cup lanes'.ready \cup {rows[i].partition}
  <2>1. CASE Claim(i, c)
    BY <2>1 DEF Claim
  <2>2. CASE \E p \in Partitions : ClaimProbe(p, i, c)
    <3>1. PICK p \in Partitions : ClaimProbe(p, i, c)
      BY <2>2
    <3>2. lanes' = TakeReady(lanes, p) /\ rows[i].partition = p
      BY <3>1 DEF ClaimProbe, Probeable
    <3> QED  BY <3>2, <1>r DEF TakeReady, Lanes
  <2> QED  BY <2>1, <2>2
<1> QED  BY <1>1, <1>2, <1>3, <1>4, <1>5, <1>6 DEF TakesUp

\* the other steps about a row
LEMMA RowStirs ==
  ASSUME Base, NEW i \in RowIds,
         \/ \E outcome \in {"released", "fallback_released"} : ReleaseOutbox(i, outcome)
         \/ BecomesDue(i) \/ LeaseLapses(i) \/ RetryWakes(i) \/ ExpiryWakes(i)
         \/ OperatorReplays(i) \/ \E kept \in BOOLEAN : OperatorResolves(i, kept)
  PROVE  Stirs
<1>r. /\ rows \in [RowIds -> OutboxRow] /\ rows[i] \in OutboxRow /\ wakes \subseteq RowIds
      /\ scan \in BOOLEAN /\ up \in BOOLEAN
  BY DEF Base, TypeInv, StoreTypeOK, Memory
<1>u. ASSUME UNCHANGED <<lanes, online>> PROVE LanesWatched
  BY <1>u DEF LanesWatched
<1>1. CASE \E outcome \in {"released", "fallback_released"} : ReleaseOutbox(i, outcome)
  <2>1. PICK outcome \in {"released", "fallback_released"} : ReleaseOutbox(i, outcome)
    BY <1>1
  <2>2. /\ rows' = [rows EXCEPT ![i] = [rows[i] EXCEPT !.hold = outcome]] /\ scan'
        /\ UNCHANGED <<size, next, cursor, applied, claims, up, worker, claimed, lanes, online,
                       wakes, expiries>>
    BY <2>1 DEF ReleaseOutbox, ReleaseHeldOutbox, ghostVars
  <2>3. Touches(i)
    BY <2>2, <1>r DEF Touches, OtherRows, OutboxRow
  <2> QED  BY <2>2, <2>3, <1>u DEF Stirs, WakesWatched, ExpiriesWatched
<1>2. CASE BecomesDue(i)
  <2>1. /\ rows' = [rows EXCEPT ![i] = [rows[i] EXCEPT !.due = TRUE]]
        /\ UNCHANGED <<size, next, cursor, applied, claims, up, worker, claimed, lanes, online,
                       wakes, expiries, scan>>
    BY <1>2 DEF BecomesDue, schedVars, ghostVars
  <2>2. Touches(i)
    BY <2>1, <1>r DEF Touches, OtherRows, OutboxRow
  <2> QED  BY <2>1, <2>2, <1>u DEF Stirs, WakesWatched, ExpiriesWatched
<1>3. CASE LeaseLapses(i)
  <2>1. /\ rows' = [rows EXCEPT ![i] = [rows[i] EXCEPT !.lapsed = TRUE]] /\ Leased(i)
        /\ UNCHANGED <<size, next, cursor, applied, claims, up, worker, claimed, lanes, online,
                       wakes, expiries, scan>>
    BY <1>3 DEF LeaseLapses, schedVars, ghostVars
  <2>2. "stall" \in Disturbances \/ \A c \in Slots : ~(Attended(c) /\ claims[c].row = i)
    BY <1>3 DEF LeaseLapses, Disturb
  <2>3. Touches(i)
    BY <2>1, <2>2, <1>r DEF Touches, OtherRows, OutboxRow
  <2> QED  BY <2>1, <2>3, <1>u DEF Stirs, WakesWatched, ExpiriesWatched
<1>4. CASE RetryWakes(i)
  <2>1. /\ rows[i].due /\ wakes' = wakes \ {i} /\ scan'
        /\ UNCHANGED <<storeVars, applied, claims, up, worker, claimed, lanes, online, expiries>>
    BY <1>4 DEF RetryWakes, ghostVars
  <2> QED  BY <2>1, <1>u DEF Stirs, WakesWatched, ExpiriesWatched
<1>5. CASE ExpiryWakes(i)
  <2>1. /\ Leased(i) => rows[i].lapsed
        /\ expiries' = expiries \ {i} /\ scan'
        /\ UNCHANGED <<storeVars, applied, claims, up, worker, claimed, lanes, online, wakes>>
    BY <1>5 DEF ExpiryWakes, ghostVars
  <2>2. ExpiriesWatched
    BY <2>1 DEF ExpiriesWatched
  <2> QED  BY <2>1, <2>2, <1>u DEF Stirs, WakesWatched
<1>6. CASE OperatorReplays(i)
  <2> DEFINE k == size + 1
             r == NewRow(rows[i].session, rows[i].partition, rows[i].hold,
                         next[rows[i].session] + 1, i, "pending")
  <2>1. /\ size < MaxRows /\ size' = k /\ rows' = [rows EXCEPT ![k] = r]
        /\ scan' = (scan \/ up)
        /\ UNCHANGED <<cursor, applied, claims, up, worker, claimed, lanes, online, wakes, expiries>>
    BY <1>6 DEF OperatorReplays, ReplayUnknownOutbox, InsertOutbox, ghostVars
  <2>2. r.state = "pending" /\ r.worker = NoWorker /\ r.due
    BY DEF NewRow
  <2> HIDE DEF r
  <2>3. k \in RowIds /\ rows[k].state = "absent"
    <3>1. size \in Nat /\ k <= MaxRows /\ MaxRows \in Nat
      BY <2>1, StoreAssumption DEF Base, TypeInv, StoreTypeOK
    <3>2. k \in RowIds /\ ~(k <= size)
      BY <3>1 DEF RowIds
    <3> QED  BY <3>2 DEF Base, RowsInv, Filled, Present
  <2>4. Appends(k)
    BY <2>1, <2>2, <2>3, <1>r DEF Appends, OtherRows
  <2> QED  BY <2>1, <2>3, <2>4, <1>u DEF Stirs, WakesWatched, ExpiriesWatched
<1>7. CASE \E kept \in BOOLEAN : OperatorResolves(i, kept)
  <2>1. PICK kept \in BOOLEAN : OperatorResolves(i, kept)
    BY <1>7
  <2> DEFINE st == rows[i].uncertain
             steps == IF kept THEN rows[i].steps \cup {st} ELSE rows[i].steps
  <2>2. /\ rows[i].state = "delivery_unknown" /\ st # NoStep
        /\ rows' = [rows EXCEPT ![i] = [rows[i] EXCEPT !.state = "sent_remote", !.steps = steps,
                                                      !.uncertain = NoStep, !.due = TRUE]]
        /\ scan' = (scan \/ up)
        /\ UNCHANGED <<size, next, cursor, claims, up, worker, claimed, lanes, online, wakes,
                       expiries>>
    <3>1. ResolveUnknownSettle(i, kept) /\ scan' = (scan \/ up)
          /\ UNCHANGED <<claims, up, worker, claimed, lanes, online, wakes, expiries>>
      BY <2>1 DEF OperatorResolves
    <3>2. /\ rows[i].state = "delivery_unknown" /\ st # NoStep
          /\ rows' = [rows EXCEPT ![i].state = "sent_remote",
                                  ![i].steps = IF kept THEN @ \cup {rows[i].uncertain} ELSE @,
                                  ![i].uncertain = NoStep, ![i].due = TRUE]
          /\ UNCHANGED <<size, next, cursor>>
      BY <3>1 DEF ResolveUnknownSettle
    <3>3. rows' = [rows EXCEPT ![i] = [rows[i] EXCEPT !.state = "sent_remote", !.steps = steps,
                                                      !.uncertain = NoStep, !.due = TRUE]]
      <4>1. CASE kept
        BY <3>2, <4>1, <1>r DEF OutboxRow
      <4>2. CASE ~kept
        BY <3>2, <4>2, <1>r DEF OutboxRow
      <4> QED  BY <4>1, <4>2
    <3> QED  BY <3>1, <3>2, <3>3
  <2>3. st \in Steps
    BY <2>2, <1>r DEF OutboxRow
  <2>4. applied' = IF kept \/ applied[i][st] = 0 THEN applied
                   ELSE [applied EXCEPT ![i][st] = applied[i][st] - 1]
    BY <2>1 DEF OperatorResolves
  <2>5. \/ steps = rows[i].steps \cup {st} /\ UNCHANGED applied
        \/ /\ steps = rows[i].steps
           /\ applied' = IF applied[i][st] = 0 THEN applied
                         ELSE [applied EXCEPT ![i][st] = applied[i][st] - 1]
    BY <2>4
  <2>6. /\ rows'[i].state = "sent_remote" /\ rows'[i].steps = steps /\ rows'[i].uncertain = NoStep
        /\ rows'[i].due /\ rows'[i].worker = rows[i].worker /\ SameRow(i) /\ OtherRows(i)
    <3> HIDE DEF steps
    <3> QED  BY <2>2, <1>r DEF OutboxRow, SameRow, OtherRows
  <2>7. Resolves(i)
    BY <2>2, <2>3, <2>5, <2>6 DEF Resolves
  <2> QED  BY <2>2, <2>7, <1>u DEF Stirs, WakesWatched, ExpiriesWatched
<1> QED  BY <1>1, <1>2, <1>3, <1>4, <1>5, <1>6, <1>7

\* the steps about a partition, and the end of a scan
LEMMA LaneStirs ==
  ASSUME Base, \/ \E p \in Partitions : LaneStep(p)
               \/ EndScan
  PROVE  Stirs
<1>r. /\ rows \in [RowIds -> OutboxRow] /\ lanes \in Lanes(Partitions)
      /\ scan \in BOOLEAN /\ up \in BOOLEAN /\ online \in [Partitions -> BOOLEAN]
  BY DEF Base, TypeInv, StoreTypeOK, Memory
<1>1. CASE \E p \in Partitions, s \in Sessions : AppendOutbox(s, p) \/ AppendHeldOutbox(s, p)
  <2>1. PICK p \in Partitions, s \in Sessions : AppendOutbox(s, p) \/ AppendHeldOutbox(s, p)
    BY <1>1
  <2>2. PICK h \in {"none", "held"} : InsertOutbox(s, p, h, NoRow)
    BY <2>1 DEF AppendOutbox, AppendHeldOutbox
  <2> DEFINE k == size + 1
             r == NewRow(s, p, h, next[s] + 1, NoRow, "pending")
  <2>3. /\ size < MaxRows /\ size' = k /\ rows' = [rows EXCEPT ![k] = r] /\ scan'
        /\ UNCHANGED <<cursor, applied, claims, up, worker, claimed, lanes, online, wakes, expiries>>
    BY <2>1, <2>2 DEF AppendOutbox, AppendHeldOutbox, InsertOutbox, ghostVars
  <2>4. r.state = "pending" /\ r.worker = NoWorker /\ r.due
    BY DEF NewRow
  <2> HIDE DEF r
  <2>5. k \in RowIds /\ rows[k].state = "absent"
    <3>1. size \in Nat /\ k <= MaxRows /\ MaxRows \in Nat
      BY <2>3, StoreAssumption DEF Base, TypeInv, StoreTypeOK
    <3>2. k \in RowIds /\ ~(k <= size)
      BY <3>1 DEF RowIds
    <3> QED  BY <3>2 DEF Base, RowsInv, Filled, Present
  <2>6. Appends(k)
    BY <2>3, <2>4, <2>5, <1>r DEF Appends, OtherRows
  <2>7. LanesWatched /\ WakesWatched
    BY <2>3 DEF LanesWatched, WakesWatched
  <2> QED  BY <2>3, <2>5, <2>6, <2>7 DEF Stirs, ExpiriesWatched
<1>2. CASE \E p \in Partitions : ProbeTimer(p)
  <2>1. PICK p \in Partitions : ProbeTimer(p)
    BY <1>2
  <2>2. /\ lanes' = ProbeFires(lanes, p) /\ scan' = (scan \/ p \in lanes.paused)
        /\ UNCHANGED <<storeVars, worker, up, wakes, expiries, claimed, claims, online, applied>>
    BY <2>1 DEF ProbeTimer, ghostVars
  <2>3. LanesWatched
    BY <2>2, <1>r DEF LanesWatched, ProbeFires, Lanes
  <2>4. WakesWatched
    BY <2>2, <1>r DEF WakesWatched
  <2> QED  BY <2>2, <2>3, <2>4 DEF Stirs, ExpiriesWatched
<1>3. CASE \E p \in Partitions : GoesOffline(p)
  <2>1. PICK p \in Partitions : GoesOffline(p)
    BY <1>3
  <2>2. /\ online' = [online EXCEPT ![p] = FALSE]
        /\ UNCHANGED <<storeVars, worker, up, scan, lanes, wakes, expiries, claimed, claims, applied>>
    BY <2>1 DEF GoesOffline, schedVars, ghostVars
  <2>3. \A q \in Partitions : online'[q] => online[q]
    BY <2>2, <1>r
  <2>4. LanesWatched /\ WakesWatched
    BY <2>2, <2>3, <1>r DEF LanesWatched, WakesWatched, Lanes
  <2> QED  BY <2>2, <2>4 DEF Stirs, ExpiriesWatched
<1>4. CASE \E p \in Partitions : Connects(p) \/ InboundResumes(p)
  <2>1. PICK p \in Partitions : Connects(p) \/ InboundResumes(p)
    BY <1>4
  <2>2. /\ online' = online \/ online' = [online EXCEPT ![p] = TRUE]
        /\ lanes' = (IF up THEN ResumeLane(lanes, p) ELSE lanes) /\ scan' = (scan \/ up)
        /\ UNCHANGED <<storeVars, worker, up, wakes, expiries, claimed, claims, applied>>
    BY <2>1 DEF Connects, InboundResumes, ResumePartition, ghostVars
  <2>3. LanesWatched
    <3>1. CASE up
      <4>1. lanes' = ResumeLane(lanes, p)
        BY <2>2, <3>1
      <4>2. \A q \in Partitions : q # p /\ online'[q] => online[q]
        BY <2>2, <1>r
      <4> QED  BY <3>1, <4>1, <4>2, <1>r DEF LanesWatched, ResumeLane, Lanes
    <3>2. CASE ~up
      BY <2>2, <3>2 DEF LanesWatched
    <3> QED  BY <3>1, <3>2
  <2>4. WakesWatched
    BY <2>2, <1>r DEF WakesWatched
  <2> QED  BY <2>2, <2>3, <2>4 DEF Stirs, ExpiriesWatched
<1>5. CASE EndScan
  <2>1. /\ \A j \in RowIds : ~Claimable(j)
        /\ UNCHANGED <<storeVars, worker, up, wakes, expiries, claimed, claims, online, applied>>
    BY <1>5 DEF EndScan, ghostVars
  <2>2. lanes' = lanes \/ \E p \in lanes.ready : lanes' = RetryLane(TakeReady(lanes, p), p)
    BY <1>5 DEF EndScan
  <2>3. /\ lanes'.paused = lanes.paused
        /\ \A q \in lanes'.paused : q \in lanes.probes \cup lanes.ready =>
                                      q \in lanes'.probes \cup lanes'.ready
    <3>1. CASE lanes' = lanes
      BY <3>1
    <3>2. CASE \E p \in lanes.ready : lanes' = RetryLane(TakeReady(lanes, p), p)
      BY <3>2, <1>r DEF RetryLane, TakeReady, Lanes
    <3> QED  BY <2>2, <3>1, <3>2
  <2>4. LanesWatched /\ WakesWatched
    BY <2>1, <2>3 DEF LanesWatched, WakesWatched
  <2> QED  BY <2>1, <2>4 DEF Stirs, ExpiriesWatched
<1> QED  BY <1>1, <1>2, <1>3, <1>4, <1>5 DEF LaneStep

\* start, stop and crash
LEMMA LifeTurns ==
  ASSUME Base, Starts \/ StartsUnrecovered \/ Stops \/ Crashes
  PROVE  Turns
<1>r. claims \in [Slots -> Task]
  BY DEF Base, TypeInv, Tasks
<1>1. CASE Starts \/ StartsUnrecovered
  BY <1>1 DEF Starts, StartsUnrecovered, FreshCoordinator, Turns, Disturb, ghostVars
<1>2. CASE Stops
  <2>1. /\ claims' = [c \in Slots |-> IF Live(c) THEN [claims[c] EXCEPT !.aborted = TRUE]
                                                ELSE claims[c]]
        /\ up /\ GoesDown /\ UNCHANGED <<storeVars, online, applied>> /\ "stop" \in Disturbances
    BY <1>2 DEF Stops, Disturb, ghostVars
  <2>2. \A c \in Slots : Live(c)' => Live(c) /\ StaysTask(c)
    <3> SUFFICES ASSUME NEW c \in Slots, Live(c)' PROVE Live(c) /\ StaysTask(c)
      OBVIOUS
    <3>1. Live(c)
      BY <2>1 DEF Live
    <3>2. claims'[c] = [claims[c] EXCEPT !.aborted = TRUE] /\ claims[c] \in Task
      BY <2>1, <3>1, <1>r
    <3> QED  BY <3>1, <3>2 DEF StaysTask, SameTask, Live, Task
  <2> QED  BY <2>1, <2>2 DEF Turns, GoesDown
<1>3. CASE Crashes
  <2>1. /\ claims' = [c \in Slots |-> FreeTask] /\ up /\ GoesDown
        /\ UNCHANGED <<storeVars, online, applied>> /\ "crash" \in Disturbances
    BY <1>3 DEF Crashes, Disturb, ghostVars
  <2>2. \A c \in Slots : ~Live(c)'
    BY <2>1 DEF Live, FreeTask
  <2> QED  BY <2>1, <2>2 DEF Turns, GoesDown
<1> QED  BY <1>1, <1>2, <1>3

\* Every step of the system has one of five forms.
LEMMA StepForm ==
  ASSUME Base, [Next]_vars
  PROVE  \/ \E c \in Slots : Continues(c) \/ EndsTask(c)
         \/ \E i \in RowIds, c \in Slots : TakesUp(i, c)
         \/ Stirs
         \/ Turns
<1>1. CASE UNCHANGED vars
  <2>1. UNCHANGED <<storeVars, schedVars, claims, online, ghostVars>>
    BY <1>1 DEF vars
  <2>2. LanesWatched /\ WakesWatched /\ ExpiriesWatched
    BY <2>1 DEF schedVars, LanesWatched, WakesWatched, ExpiriesWatched
  <2> QED  BY <2>1, <2>2 DEF Stirs, schedVars, ghostVars
<1>2. CASE \E c \in Slots : TaskStep(c)
  BY <1>2, TaskStepForm
<1>3. CASE \E i \in RowIds : RowStep(i)
  <2>1. PICK i \in RowIds : RowStep(i)
    BY <1>3
  <2>2. CASE \E c \in Slots : Claim(i, c) \/ \E p \in Partitions : ClaimProbe(p, i, c)
    BY <2>2, ClaimForm
  <2>3. CASE \/ \E outcome \in {"released", "fallback_released"} : ReleaseOutbox(i, outcome)
             \/ BecomesDue(i) \/ LeaseLapses(i) \/ RetryWakes(i) \/ ExpiryWakes(i)
             \/ OperatorReplays(i) \/ \E kept \in BOOLEAN : OperatorResolves(i, kept)
    BY <2>3, RowStirs
  <2> QED  BY <2>1, <2>2, <2>3 DEF RowStep
<1>4. CASE (\E p \in Partitions : LaneStep(p)) \/ EndScan
  BY <1>4, LaneStirs
<1>5. CASE Starts \/ StartsUnrecovered \/ Stops \/ Crashes
  BY <1>5, LifeTurns
<1> QED  BY <1>1, <1>2, <1>3, <1>4, <1>5 DEF Next

\* no row disappears or changes its partition
LEMMA RowsStay ==
  ASSUME Base, [Next]_vars, NEW i \in RowIds, Present(i)
  PROVE  Present(i)' /\ rows'[i].partition = rows[i].partition
<1>r. rows \in [RowIds -> OutboxRow] /\ StoreTypeOK /\ RowsInv /\ rows[i] \in OutboxRow
  BY DEF Base, TypeInv, StoreTypeOK
<1>1. StoreStep
  BY NextOK DEF Base, StepOK
<1>2. CASE UNCHANGED <<storeVars, sends>>
  BY <1>2 DEF storeVars, Present
<1>3. CASE Insertion
  <2>1. PICK s \in Sessions, p \in Partitions, h \in Deliverable \cup {"held"},
             src \in RowIds \cup {NoRow} : InsertOutbox(s, p, h, src)
    BY <1>3 DEF Insertion
  <2>2. i # size + 1
    BY <1>r DEF RowsInv, Filled, StoreTypeOK
  <2> QED  BY <1>r, <2>1, <2>2 DEF InsertOutbox, Present
<1>4. CASE RecoverOutbox
  BY <1>4, <1>r DEF RecoverOutbox, RecoveredRow, RecoveredState, Present, OutboxRow
<1>5. CASE \E j \in RowIds : RowOperation(j)
  <2>1. PICK j \in RowIds : RowChange(j)
    BY <1>5, <1>r, RowOperationChange
  <2>2. CASE j = i
    BY <2>1, <2>2 DEF RowChange, OnlyRow, Keeps, GetsClaimed, GetsReceipt, Settles, GoesBack,
                     Closes, FallsInDoubt, DoubtEnds, Present, Terminal
  <2> QED  BY <2>1, <2>2 DEF RowChange, OnlyRow, Present
<1>6. CASE \E j \in RowIds : Transport(j)
  BY <1>6, <1>r DEF Transport, MarkOutboxTransportStarted, Present, OutboxRow
<1> QED  BY <1>1, <1>2, <1>3, <1>4, <1>5, <1>6 DEF StoreStep

\* what every task keeps is kept
LEMMA BookedKept ==
  ASSUME Base, [Next]_vars
  PROVE  Booked'
<1>t. /\ worker \in Nat /\ NoWorker = 0
      /\ \A c \in Slots : Live(c) => claims[c].row \in RowIds /\ claims[c].worker \in Nat
  BY LiveTask DEF Base, TypeInv, Memory, NoWorker
<1>b. Booked
  BY DEF Base
<1>p. \A i \in RowIds : Present(i) => Present(i)'
  BY RowsStay
<1>s. ASSUME NEW c \in Slots, Live(c), StaysTask(c), worker <= worker'
      PROVE  TaskBooked(c)'
  <2>1. claims'[c].worker <= worker'
    <3>1. claims[c].worker <= worker /\ claims[c].worker \in Nat
      BY <1>s, <1>b, <1>t DEF Booked, TaskBooked
    <3>2. worker' \in Nat
      BY NextOK DEF Base, StepOK, Memory
    <3> QED  BY <1>s, <1>t, <3>1, <3>2 DEF StaysTask, SameTask
  <2> QED  BY <1>s, <2>1, <1>b, <1>t, <1>p DEF Booked, TaskBooked, StaysTask, SameTask
<1>u. ASSUME NEW c \in Slots, claims'[c] = claims[c], worker' = worker PROVE TaskBooked(c)'
  BY <1>u, <1>b, <1>t, <1>p DEF Booked, TaskBooked, Live
<1>1. ASSUME NEW c \in Slots, Continues(c) PROVE Booked'
  <2>1. worker <= worker' /\ up' = up /\ worker' = worker
    BY <1>1, <1>t DEF Continues, schedVars
  <2>2. \A d \in Slots : TaskBooked(d)'
    BY <1>1, <1>s, <1>u, <2>1 DEF Continues, OtherTasks
  <2> QED  BY <2>1, <2>2, <1>b DEF Booked
<1>2. ASSUME NEW c \in Slots, EndsTask(c) PROVE Booked'
  <2>1. TaskBooked(c)'
    <3>1. CASE ~Live(c)'
      BY <3>1 DEF TaskBooked
    <3>2. CASE SameTask(c) /\ claims'[c].zombie /\ claims'[c].aborted /\ claims'[c].tried
      BY <1>2, <3>2, <1>b, <1>t, <1>p DEF EndsTask, Booked, TaskBooked, SameTask
    <3> QED  BY <1>2, <3>1, <3>2 DEF EndsTask
  <2>2. \A d \in Slots : TaskBooked(d)'
    BY <1>2, <1>u, <2>1 DEF EndsTask, OtherTasks
  <2> QED  BY <1>2, <2>2, <1>b DEF Booked, EndsTask
<1>3. ASSUME NEW i \in RowIds, NEW c \in Slots, TakesUp(i, c) PROVE Booked'
  <2>1. Present(i)'
    BY <1>3, <1>p DEF TakesUp, Eligible, Present
  <2>2. TaskBooked(c)'
    BY <1>3, <2>1, <1>b, <1>t DEF TakesUp, Booked, TaskBooked
  <2>3. \A d \in Slots : TaskBooked(d)'
    BY <1>3, <1>u, <2>2 DEF TakesUp, OtherTasks
  <2> QED  BY <1>3, <2>3, <1>b DEF Booked, TakesUp
<1>4. CASE Stirs
  BY <1>4, <1>u, <1>b DEF Stirs, Booked
<1>5. CASE Turns
  <2>1. CASE up' /\ worker' = worker + 1 /\ UNCHANGED claims
    <3>1. worker' # NoWorker /\ worker <= worker'
      BY <2>1, <1>t
    <3>2. \A c \in Slots : Live(c) => StaysTask(c)
      BY <2>1 DEF StaysTask, SameTask, Live
    <3>3. \A c \in Slots : TaskBooked(c)'
      <4> TAKE c \in Slots
      <4>1. Live(c)' => Live(c)
        BY <2>1 DEF Live
      <4> QED  BY <3>1, <3>2, <4>1, <1>s DEF TaskBooked
    <3> QED  BY <3>1, <3>3 DEF Booked
  <2>2. CASE ~up' /\ worker' = worker /\ \A c \in Slots : Live(c)' => Live(c) /\ StaysTask(c)
    <3>1. worker <= worker'
      BY <2>2, <1>t
    <3>2. \A c \in Slots : TaskBooked(c)'
      BY <2>2, <3>1, <1>s DEF TaskBooked
    <3> QED  BY <2>2, <3>2 DEF Booked
  <2> QED  BY <1>5, <2>1, <2>2 DEF Turns
<1> QED  BY <1>1, <1>2, <1>3, <1>4, <1>5, StepForm

\* a row that waits or is closed stays leased to nobody
LEMMA UnleasedKept ==
  ASSUME Base, [Next]_vars
  PROVE  Unleased'
<1>u. Unleased /\ rows \in [RowIds -> OutboxRow]
  BY DEF Base, TypeInv, StoreTypeOK
<1>s. UNCHANGED storeVars => Unleased'
  BY <1>u DEF storeVars, Unleased
<1>r. ASSUME NEW i \in RowIds, OtherRows(i),
             rows'[i].state \in {"absent", "pending"} \cup Terminal => rows'[i].worker = NoWorker
      PROVE  Unleased'
  BY <1>r, <1>u DEF OtherRows, Unleased
<1>1. ASSUME NEW c \in Slots, Continues(c) \/ EndsTask(c) PROVE Unleased'
  <2>1. Live(c) /\ claims[c].row \in RowIds
    BY <1>1, LiveTask DEF Base, Continues, EndsTask
  <2>2. CASE WritesOwn(claims[c].row, claims[c].worker)
    BY <2>1, <2>2, <1>r DEF WritesOwn, Held, Terminal
  <2>3. CASE Finishes(claims[c].row, claims[c].worker)
    BY <2>1, <2>3, <1>r DEF Finishes
  <2> QED  BY <1>1, <1>s, <2>2, <2>3 DEF Continues, EndsTask, Concluded
<1>3. ASSUME NEW i \in RowIds, NEW c \in Slots, TakesUp(i, c) PROVE Unleased'
  BY <1>3, <1>r DEF TakesUp, Eligible, Terminal
<1>4. CASE Stirs
  <2>1. ASSUME NEW i \in RowIds, Touches(i) PROVE Unleased'
    BY <2>1, <1>r, <1>u DEF Touches, Unleased
  <2>2. ASSUME NEW i \in RowIds, Appends(i) PROVE Unleased'
    BY <2>2, <1>r DEF Appends
  <2>3. ASSUME NEW i \in RowIds, Resolves(i) PROVE Unleased'
    BY <2>3, <1>r DEF Resolves, Terminal
  <2> QED  BY <1>4, <1>s, <2>1, <2>2, <2>3 DEF Stirs
<1>5. CASE Turns
  <2>1. CASE RecoverOutbox
    BY <2>1, <1>u DEF RecoverOutbox, RecoveredRow, Unleased, OutboxRow
  <2> QED  BY <1>5, <1>s, <2>1 DEF Turns
<1> QED  BY <1>1, <1>3, <1>4, <1>5, StepForm

\* the common part of the invariants is inductive
LEMMA BaseKept ==
  ASSUME Base, [Next]_vars
  PROVE  Base'
BY InvPreserved, BookedKept, UnleasedKept DEF Base

\* initially there is no task and no lease
LEMMA BaseInit ==
  ASSUME Init
  PROVE  Base
<1>1. \A c \in Slots : ~Live(c)
  BY DEF Init, Live, FreeTask
<1>2. \A i \in RowIds : rows[i].worker = NoWorker
  BY DEF Init, StoreInit, NewRow
<1> QED  BY <1>1, <1>2, InitOK DEF Base, Booked, TaskBooked, Unleased, Init

\* The inductive invariant of rows, memory, tasks and leases.
LEMMA BaseInvariance == Spec => []Base
<1>1. Base /\ [Next]_vars => Base'
  BY BaseKept
<1> QED  BY <1>1, BaseInit, PTL DEF Spec

--------------------------------------------------------------------------------
(* Paused partitions *)

\* a coordinator's pauses end with it, and a partition is paused only while its
\* account is away
PausesHold ==
  /\ ~up => lanes.paused = {}
  /\ \A p \in lanes.paused : ~online[p]
  /\ PausedIsProbed

\* an attempt of the running coordinator is out for the partition
Holds(c, p) == Live(c) /\ Mine(c) /\ Lane(c) = p

\* an attempt that is not over still holds its partition
LEMMA HoldersStay ==
  ASSUME Base, [Next]_vars, NEW c \in Slots, NEW p, Holds(c, p), UNCHANGED <<worker, up>>,
         SameTask(c) \/ claims'[c] = claims[c]
  PROVE  Holds(c, p)'
<1>1. claims[c].row \in RowIds /\ Present(claims[c].row)
  BY LiveTask DEF Base, Booked, TaskBooked, Holds
<1>2. rows'[claims[c].row].partition = rows[claims[c].row].partition
  BY <1>1, RowsStay
<1> QED  BY <1>2 DEF Holds, SameTask, Live, Mine, Lane, Row

\* whatever happens, a paused partition stays on its way to a probe
LEMMA PausesKept ==
  ASSUME Base, PausesHold, [Next]_vars
  PROVE  PausesHold'
<1>t. lanes \in Lanes(Partitions) /\ lanes.paused \subseteq Partitions /\ up \in BOOLEAN
  BY DEF Base, TypeInv, Memory, Lanes
<1>a. PausedIsProbed <=>
        (up => \A p \in lanes.paused : p \in lanes.probes \cup lanes.ready
                                       \/ \E c \in Slots : Holds(c, p))
  BY DEF PausedIsProbed, Holds
<1>b. PausedIsProbed' <=>
        (up' => \A p \in lanes'.paused : p \in lanes'.probes \cup lanes'.ready
                                         \/ \E c \in Slots : Holds(c, p)')
  BY DEF PausedIsProbed, Holds
<1>1. ASSUME NEW c \in Slots, Continues(c) PROVE PausesHold'
  <2>1. UNCHANGED <<lanes, online, worker, up>>
    BY <1>1 DEF Continues, schedVars
  <2>2. \A d \in Slots : SameTask(d) \/ claims'[d] = claims[d]
    BY <1>1 DEF Continues, OtherTasks, StaysTask
  <2>3. \A d \in Slots, p \in lanes.paused : Holds(d, p) => Holds(d, p)'
    BY <2>1, <2>2, HoldersStay
  <2> QED  BY <2>1, <2>3, <1>a, <1>b DEF PausesHold
<1>2. ASSUME NEW c \in Slots, EndsTask(c) PROVE PausesHold'
  <2>1. /\ UNCHANGED <<worker, up, online>> /\ LanesAfter(c) /\ Live(c)
        /\ Attended(c) => up
    BY <1>2 DEF EndsTask, Attended, Mine
  <2>2. \A d \in Slots : d # c => claims'[d] = claims[d]
    BY <1>2 DEF EndsTask, OtherTasks
  <2>3. ~up' => lanes'.paused = {}
    BY <2>1 DEF PausesHold, LanesAfter, Mine
  <2>4. \A p \in lanes'.paused : ~online'[p]
    BY <2>1 DEF PausesHold, LanesAfter
  <2>5. ASSUME up', NEW p \in lanes'.paused
        PROVE  p \in lanes'.probes \cup lanes'.ready \/ \E d \in Slots : Holds(d, p)'
    <3>1. CASE p = Lane(c) /\ Mine(c)
      <4>1. CASE Live(c)'
        <5>1. Holds(c, p)
          BY <2>1, <3>1 DEF Holds
        <5>2. SameTask(c)
          BY <1>2, <4>1 DEF EndsTask
        <5> QED  BY <2>1, <5>1, <5>2, HoldersStay
      <4> QED  BY <2>1, <2>5, <3>1, <4>1 DEF LanesAfter
    <3>2. CASE ~Mine(c)
      <4>1. lanes' = lanes
        BY <2>1, <3>2 DEF LanesAfter
      <4>2. CASE \E d \in Slots : Holds(d, p)
        <5>1. PICK d \in Slots : Holds(d, p)
          BY <4>2
        <5>2. d # c
          BY <3>2, <5>1 DEF Holds
        <5> QED  BY <2>1, <2>2, <5>1, <5>2, HoldersStay
      <4> QED  BY <2>1, <2>5, <4>1, <4>2, <1>a DEF PausesHold
    <3>3. CASE p # Lane(c)
      <4>1. p \in lanes.paused
        BY <2>1, <2>5, <3>3 DEF LanesAfter
      <4>2. CASE \E d \in Slots : Holds(d, p)
        <5>1. PICK d \in Slots : Holds(d, p)
          BY <4>2
        <5>2. d # c
          BY <3>3, <5>1 DEF Holds
        <5> QED  BY <2>1, <2>2, <5>1, <5>2, HoldersStay
      <4>3. CASE p \in lanes.probes \cup lanes.ready
        BY <2>1, <2>5, <3>3, <4>3 DEF LanesAfter
      <4> QED  BY <2>1, <2>5, <4>1, <4>2, <4>3, <1>a DEF PausesHold
    <3> QED  BY <3>1, <3>2, <3>3
  <2> QED  BY <2>3, <2>4, <2>5, <1>b DEF PausesHold
<1>3. ASSUME NEW i \in RowIds, NEW c \in Slots, TakesUp(i, c) PROVE PausesHold'
  <2>1. /\ UNCHANGED <<worker, up, online>> /\ lanes'.paused = lanes.paused /\ ~Live(c) /\ up
        /\ lanes.probes \cup lanes.ready \subseteq
             lanes'.probes \cup lanes'.ready \cup {rows[i].partition}
    BY <1>3 DEF TakesUp
  <2>2. \A d \in Slots : d # c => claims'[d] = claims[d]
    BY <1>3 DEF TakesUp, OtherTasks
  <2>3. ASSUME NEW p, p = rows[i].partition PROVE Holds(c, p)'
    BY <1>3, <2>3 DEF TakesUp, SameRow, Holds, Live, Mine, Lane, Row
  <2>4. ASSUME NEW p \in lanes.paused, NEW d \in Slots, Holds(d, p) PROVE Holds(d, p)'
    <3>1. d # c
      BY <2>1, <2>4 DEF Holds
    <3> QED  BY <2>1, <2>2, <2>4, <3>1, HoldersStay
  <2>5. \A p \in lanes'.paused : p \in lanes'.probes \cup lanes'.ready
                                 \/ \E d \in Slots : Holds(d, p)'
    <3> TAKE p \in lanes'.paused
    <3>1. CASE p = rows[i].partition
      BY <2>3, <3>1
    <3>2. CASE p # rows[i].partition
      BY <2>1, <2>4, <3>2, <1>a DEF PausesHold
    <3> QED  BY <3>1, <3>2
  <2> QED  BY <2>1, <2>5, <1>b DEF PausesHold
<1>4. CASE Stirs
  <2>1. UNCHANGED <<claims, up, worker>> /\ LanesWatched
    BY <1>4 DEF Stirs
  <2>2. \A d \in Slots, p \in lanes.paused : Holds(d, p) => Holds(d, p)'
    BY <2>1, HoldersStay
  <2>3. \A p \in lanes'.paused : ~online'[p]
    BY <2>1, <1>t DEF PausesHold, LanesWatched
  <2>4. ~up' => lanes'.paused = {}
    BY <2>1 DEF PausesHold, LanesWatched
  <2>5. \A p \in lanes'.paused : p \in lanes.paused /\
          (p \in lanes.probes \cup lanes.ready => p \in lanes'.probes \cup lanes'.ready)
    BY <2>1 DEF LanesWatched
  <2> QED  BY <2>1, <2>2, <2>3, <2>4, <2>5, <1>a, <1>b DEF PausesHold
<1>5. CASE Turns
  BY <1>5, <1>b DEF Turns, NoLanes, PausesHold
<1> QED  BY <1>1, <1>2, <1>3, <1>4, <1>5, StepForm

\* Whatever timers, scans, probes, late attempts, stops and crashes do, a paused
\* partition is never left without a probe to come.
THEOREM PausedPartitionsAreProbed == Spec => []PausedIsProbed
<1>1. Init => PausesHold
  BY DEF Init, PausesHold, PausedIsProbed, NoLanes
<1>2. Base /\ PausesHold /\ [Next]_vars => PausesHold'
  BY PausesKept
<1>3. Spec => []PausesHold
  BY <1>1, <1>2, BaseInvariance, PTL DEF Spec
<1>4. PausesHold => PausedIsProbed
  BY DEF PausesHold
<1> QED  BY <1>3, <1>4, PTL

--------------------------------------------------------------------------------
(* Wake-ups *)

\* the one coordinator there is neither stops nor fails to recover
OneLife == {"stop", "crash", "recovery"} \cap Disturbances = {}

\* a row that is not due has its timer
Timed == \A i \in RowIds : ~rows[i].due => up /\ i \in wakes

\* the row may be claimed, and its account is there
Waits(i) ==
  /\ Eligible(i) /\ ~Leased(i) /\ online[rows[i].partition]
  /\ rows[i].state = "pending" => rows[i].partition \notin ActiveLanes

Woken == up => \A i \in RowIds : Waits(i) => scan \/ i \in wakes

\* since no partition of an account that is there is paused, waiting is being claimable
LEMMA WaitingIsClaimable ==
  ASSUME PausesHold, NEW i \in RowIds
  PROVE  Waits(i) <=> Claimable(i) /\ ~Leased(i) /\ online[rows[i].partition]
BY DEF Waits, Claimable, PausesHold

\* a row waits as long as the rows and claims it depends on stay as they are
LEMMA WaitsWereWaits ==
  ASSUME UNCHANGED <<cursor, claimed>>,
         \A j \in RowIds : rows'[j].partition = rows[j].partition,
         \A j \in RowIds : rows'[j].state \in Terminal => rows[j].state \in Terminal,
         NEW i \in RowIds,
         rows'[i].session = rows[i].session, rows'[i].seq = rows[i].seq,
         rows'[i].state = rows[i].state, rows'[i].worker = rows[i].worker,
         rows'[i].hold = rows[i].hold, rows'[i].due => rows[i].due,
         rows'[i].lapsed = rows[i].lapsed \/ Leased(i),
         claimed \subseteq RowIds, online'[rows[i].partition] => online[rows[i].partition],
         Waits(i)'
  PROVE  Waits(i)
<1>1. ActiveLanes' = ActiveLanes
  BY DEF ActiveLanes
<1>2. ~Leased(i)
  BY DEF Waits, Leased
<1>3. IsHead(i)' => IsHead(i)
  BY DEF IsHead
<1>4. PartitionFree(i)' => PartitionFree(i)
  BY DEF PartitionFree
<1>5. Eligible(i)' => Eligible(i)
  BY <1>2, <1>3, <1>4 DEF Eligible, Leased
<1> QED  BY <1>1, <1>2, <1>5 DEF Waits

\* timers are armed and waiting rows are scanned for, as long as one coordinator lives
LEMMA WakesKept ==
  ASSUME Base, PausesHold, OneLife, Timed, Woken, [Next]_vars
  PROVE  Timed' /\ Woken'
<1>r. /\ rows \in [RowIds -> OutboxRow] /\ claimed \subseteq RowIds /\ wakes \subseteq RowIds
      /\ \A i \in RowIds : rows[i].partition \in Partitions
      /\ online \in [Partitions -> BOOLEAN] /\ up \in BOOLEAN
  BY DEF Base, TypeInv, StoreTypeOK, Memory, OutboxRow
<1>d. ASSUME up' = up, wakes \subseteq wakes',
             \A i \in RowIds : rows'[i].due = rows[i].due \/ rows'[i].due
      PROVE  Timed'
  BY <1>d DEF Timed
<1>s. ASSUME UNCHANGED <<storeVars, claimed, online, up, scan, wakes>> PROVE Woken'
  <2>1. \A i \in RowIds : Waits(i)' <=> Waits(i)
    BY <1>s DEF storeVars, Waits, Eligible, IsHead, PartitionFree, Leased, ActiveLanes
  <2> QED  BY <1>s, <2>1 DEF Woken
<1>1. ASSUME NEW c \in Slots, Continues(c) PROVE Timed' /\ Woken'
  <2> DEFINE i == claims[c].row
             w == claims[c].worker
  <2>1. /\ UNCHANGED <<up, scan, wakes, claimed, online>> /\ i \in RowIds /\ w # NoWorker
    BY <1>1, LiveTask DEF Continues, schedVars, Base, Booked, TaskBooked
  <2>2. CASE UNCHANGED storeVars
    <3>1. \A j \in RowIds : rows'[j].due = rows[j].due
      BY <2>2 DEF storeVars
    <3> QED  BY <2>1, <2>2, <3>1, <1>d, <1>s
  <2>3. CASE WritesOwn(i, w)
    <3>1. /\ \A j \in RowIds : rows'[j].due = rows[j].due
          /\ \A j \in RowIds : rows'[j].partition = rows[j].partition
          /\ \A j \in RowIds : rows'[j].state \in Terminal => rows[j].state \in Terminal
          /\ UNCHANGED cursor
          /\ \A j \in RowIds : j # i => rows'[j] = rows[j]
      BY <2>1, <2>3 DEF WritesOwn, OtherRows, SameRow, Held, Terminal
    <3>2. ASSUME NEW j \in RowIds, j = i PROVE ~Waits(j)'
      <4>1. rows'[j].state \in {"sending", "sent_remote"} /\ rows'[j].worker # NoWorker
        BY <2>1, <2>3, <3>2 DEF WritesOwn, Held
      <4> QED  BY <4>1 DEF Waits, Leased
    <3>3. \A j \in RowIds : Waits(j)' => Waits(j)
      <4> SUFFICES ASSUME NEW j \in RowIds, j # i, Waits(j)' PROVE Waits(j)
        BY <3>2
      <4> QED  BY <2>1, <3>1, <1>r, WaitsWereWaits
    <3> QED  BY <2>1, <3>1, <3>3, <1>d DEF Woken
  <2> QED  BY <1>1, <2>2, <2>3 DEF Continues
<1>2. ASSUME NEW c \in Slots, EndsTask(c) PROVE Timed' /\ Woken'
  <2>1. UNCHANGED <<up, online>> /\ claims[c].row \in RowIds
    BY <1>2, LiveTask DEF EndsTask, Base
  <2>2. CASE Attended(c)
    <3>1. scan' /\ wakes \subseteq wakes' /\ up /\ Concluded(claims[c].row, claims[c].worker)
      BY <1>2, <2>2 DEF EndsTask, Attended, Mine
    <3>2. CASE UNCHANGED storeVars
      <4>1. \A j \in RowIds : rows'[j].due = rows[j].due
        BY <3>2 DEF storeVars
      <4> QED  BY <2>1, <3>1, <4>1, <1>d DEF Woken
    <3>3. CASE Finishes(claims[c].row, claims[c].worker)
      <4>1. Timed'
        BY <2>1, <3>1, <3>3 DEF Timed, Finishes, OtherRows
      <4> QED  BY <3>1, <4>1 DEF Woken
    <3> QED  BY <3>1, <3>2, <3>3 DEF Concluded
  <2>3. CASE ~Attended(c)
    <3>1. UNCHANGED <<storeVars, scan, wakes, claimed>>
      BY <1>2, <2>3 DEF EndsTask
    <3>2. \A j \in RowIds : rows'[j].due = rows[j].due
      BY <3>1 DEF storeVars
    <3> QED  BY <2>1, <3>1, <3>2, <1>d, <1>s
  <2> QED  BY <2>2, <2>3
<1>3. ASSUME NEW i \in RowIds, NEW c \in Slots, TakesUp(i, c) PROVE Timed' /\ Woken'
  <2>1. scan' /\ UNCHANGED <<up, wakes>> /\ \A j \in RowIds : rows'[j].due = rows[j].due
    BY <1>3 DEF TakesUp, OtherRows
  <2> QED  BY <2>1, <1>d DEF Woken
<1>4. CASE Stirs
  <2>1. UNCHANGED <<up, claimed>> /\ WakesWatched
    BY <1>4 DEF Stirs
  <2>2. \A j \in RowIds : rows'[j].due = rows[j].due \/ rows'[j].due
    <3>1. CASE UNCHANGED storeVars
      BY <3>1 DEF storeVars
    <3>2. ASSUME NEW i \in RowIds, Touches(i) \/ Appends(i) \/ Resolves(i)
          PROVE  \A j \in RowIds : rows'[j].due = rows[j].due \/ rows'[j].due
      BY <3>2 DEF Touches, Appends, Resolves, OtherRows
    <3> QED  BY <1>4, <3>1, <3>2 DEF Stirs
  <2>3. Timed'
    BY <2>1, <2>2 DEF Timed, WakesWatched
  <2>4. CASE up => scan'
    BY <2>1, <2>3, <2>4 DEF Woken
  <2>5. CASE UNCHANGED <<storeVars, wakes, online>> /\ lanes'.paused = lanes.paused
             /\ \A j \in RowIds : ~Claimable(j)
    <3>1. \A j \in RowIds : Waits(j)' => Waits(j)
      BY <2>1, <2>5 DEF storeVars, Waits, Eligible, IsHead, PartitionFree, Leased, ActiveLanes
    <3>2. \A j \in RowIds : ~Waits(j)
      BY <2>5, WaitingIsClaimable
    <3> QED  BY <2>3, <3>1, <3>2 DEF Woken
  <2>6. CASE UNCHANGED <<scan, wakes>> /\ (\A p \in Partitions : online'[p] => online[p])
             /\ ~(up => scan')
    <3>1. CASE UNCHANGED storeVars
      <4>1. \A j \in RowIds : Waits(j)' => Waits(j)
        <5> SUFFICES ASSUME NEW j \in RowIds, Waits(j)' PROVE Waits(j)
          OBVIOUS
        <5> QED  BY <2>1, <2>6, <3>1, <1>r, WaitsWereWaits DEF storeVars
      <4> QED  BY <2>1, <2>3, <2>6, <4>1 DEF Woken
    <3>2. ASSUME NEW i \in RowIds, Touches(i) PROVE Woken'
      <4>1. /\ UNCHANGED cursor /\ \A j \in RowIds : j # i => rows'[j] = rows[j]
            /\ rows'[i].partition = rows[i].partition /\ rows'[i].state = rows[i].state
            /\ rows'[i].session = rows[i].session /\ rows'[i].seq = rows[i].seq
            /\ rows'[i].worker = rows[i].worker /\ rows'[i].hold = rows[i].hold
            /\ rows'[i].due = rows[i].due \/ rows'[i].due
            /\ rows'[i].lapsed = rows[i].lapsed \/ Leased(i)
        BY <2>6, <3>2 DEF Touches, OtherRows
      <4>2. ASSUME NEW j \in RowIds, Waits(j)' PROVE scan' \/ j \in wakes'
        <5>1. CASE rows'[j].due => rows[j].due
          <6>1. Waits(j)
            BY <2>1, <2>6, <4>1, <4>2, <5>1, <1>r, WaitsWereWaits
          <6> QED  BY <2>1, <2>6, <6>1 DEF Woken
        <5>2. CASE ~rows[j].due
          BY <2>6, <5>2 DEF Timed
        <5> QED  BY <5>1, <5>2
      <4> QED  BY <4>2 DEF Woken
    <3>3. ASSUME NEW i \in RowIds, Appends(i) \/ Resolves(i) PROVE FALSE
      BY <2>6, <3>3 DEF Appends, Resolves
    <3> QED  BY <1>4, <2>3, <3>1, <3>2, <3>3 DEF Stirs
  <2> QED  BY <2>1, <2>3, <2>4, <2>5, <2>6 DEF WakesWatched
<1>5. CASE Turns
  <2>1. RecoverOutbox /\ scan' /\ ~up
    BY <1>5 DEF Turns, OneLife
  <2>2. \A i \in RowIds : rows[i].due
    BY <2>1 DEF Timed
  <2>3. \A i \in RowIds : rows'[i].due
    <3> TAKE i \in RowIds
    <3>1. rows'[i] = RecoveredRow(rows[i]) /\ rows[i] \in OutboxRow /\ rows[i].due
      BY <2>1, <2>2, <1>r DEF RecoverOutbox
    <3>2. rows'[i].due = RecoveredDue(rows[i])
      BY <3>1 DEF RecoveredRow, OutboxRow
    <3> QED  BY <3>1, <3>2 DEF RecoveredDue
  <2> QED  BY <2>1, <2>3 DEF Timed, Woken
<1> QED  BY <1>1, <1>2, <1>3, <1>4, <1>5, StepForm

\* While one coordinator lives, nothing sleeps for good: a paused partition is probed and
\* a row that may be claimed is scanned for or has a timer.
THEOREM DeliveryIsWatched ==
  ASSUME OneLife
  PROVE  Spec => []DeliveryWatched
<1>1. Init => PausesHold /\ Timed /\ Woken
  <2> SUFFICES ASSUME Init PROVE PausesHold /\ Timed /\ Woken
    OBVIOUS
  <2>1. ~up /\ lanes = NoLanes
    BY DEF Init
  <2>2. \A i \in RowIds : rows[i].due
    BY DEF Init, StoreInit, NewRow
  <2> QED  BY <2>1, <2>2 DEF PausesHold, PausedIsProbed, NoLanes, Timed, Woken
<1>2. Base /\ PausesHold /\ Timed /\ Woken /\ [Next]_vars => PausesHold' /\ Timed' /\ Woken'
  BY PausesKept, WakesKept
<1>3. PausesHold /\ Woken => DeliveryWatched
  BY WaitingIsClaimable DEF DeliveryWatched, NoLostWakeup, Woken, PausesHold
<1> QED  BY <1>1, <1>2, <1>3, BaseInvariance, PTL DEF Spec

--------------------------------------------------------------------------------
(* Leases *)

\* a row on its way to the transport is leased to its one attended task
Owns(c) ==
  Attended(c) =>
    /\ rows[claims[c].row].state # "pending"
    /\ rows[claims[c].row].state = "sending" =>
         /\ rows[claims[c].row].worker = claims[c].worker
         /\ \A d \in Slots : Attended(d) /\ claims[d].row = claims[c].row => d = c

Owned == \A c \in Slots : Owns(c)

\* a refused final write leaves only rows whose transport is over
ExpiriesPast == \A i \in expiries : rows[i].state \notin {"absent", "pending", "sending"}

\* a task the step does not touch is attended as before
LEMMA AttendedStays ==
  ASSUME NEW c \in Slots, UNCHANGED <<worker, up>>,
         claims'[c] = claims[c] \/ (StaysTask(c) /\ Live(c))
  PROVE  Attended(c)' <=> Attended(c)
BY DEF Attended, StaysTask, SameTask, Live, Mine

\* a task that ends is not attended any more
LEMMA EndedUnattended ==
  ASSUME NEW c \in Slots, EndsTask(c)
  PROVE  ~Attended(c)'
BY DEF EndsTask, Attended

\* a coordinator that comes or goes attends to no task
LEMMA NobodyAttended ==
  ASSUME Base, Turns, NEW c \in Slots
  PROVE  ~Attended(c)'
<1>1. CASE worker' = worker + 1 /\ UNCHANGED claims
  <2>1. Live(c) => claims[c].worker <= worker /\ claims[c].worker \in Nat /\ worker \in Nat
    BY LiveTask DEF Base, Booked, TaskBooked, TypeInv, Memory
  <2>2. Live(c) => claims[c].worker # worker + 1
    BY <2>1
  <2> QED  BY <1>1, <2>2 DEF Attended, Live, Mine
<1>2. CASE ~up'
  BY <1>2 DEF Attended, Mine
<1> QED  BY <1>1, <1>2 DEF Turns

\* the task of a row that may be sent stays its only owner
LEMMA OwnedKept ==
  ASSUME Base, Owned, [Next]_vars
  PROVE  Owned'
<1>t. /\ \A c \in Slots : Attended(c) =>
            Live(c) /\ claims[c].row \in RowIds /\ Present(claims[c].row)
  BY LiveTask DEF Base, Booked, TaskBooked, Attended
<1>o. \A c \in Slots : Owns(c)
  BY DEF Owned
<1>k. ASSUME NEW d \in Slots, Attended(d), claims'[d].row = claims[d].row,
             claims'[d].worker = claims[d].worker,
             rows'[claims[d].row].state # "pending",
             rows'[claims[d].row].state = "sending" =>
               /\ rows[claims[d].row].state = "sending"
               /\ rows'[claims[d].row].worker = rows[claims[d].row].worker,
             \A e \in Slots : Attended(e)' /\ claims'[e].row = claims[d].row =>
                                Attended(e) /\ claims[e].row = claims[d].row
      PROVE  Owns(d)'
  BY <1>k, <1>o DEF Owns
<1>1. ASSUME NEW c \in Slots, Continues(c) PROVE Owned'
  <2>1. UNCHANGED <<worker, up>> /\ \A d \in Slots : claims'[d] = claims[d] \/ (StaysTask(d) /\ Live(d))
    BY <1>1 DEF Continues, schedVars, OtherTasks
  <2>2. \A d \in Slots : /\ Attended(d)' <=> Attended(d)
                         /\ claims'[d].row = claims[d].row /\ claims'[d].worker = claims[d].worker
    BY <2>1, AttendedStays DEF StaysTask, SameTask
  <2>3. ASSUME NEW d \in Slots, Attended(d)
        PROVE  /\ rows'[claims[d].row].state # "pending"
               /\ rows'[claims[d].row].state = "sending" =>
                    /\ rows[claims[d].row].state = "sending"
                    /\ rows'[claims[d].row].worker = rows[claims[d].row].worker
    <3>1. CASE UNCHANGED storeVars
      BY <3>1, <2>3, <1>o DEF storeVars, Owns
    <3>2. CASE WritesOwn(claims[c].row, claims[c].worker)
      BY <3>2, <2>3, <1>o, <1>t DEF WritesOwn, OtherRows, Held, Owns
    <3> QED  BY <1>1, <3>1, <3>2 DEF Continues
  <2>4. \A d \in Slots : Owns(d)'
    <3> TAKE d \in Slots
    <3>1. CASE Attended(d)
      BY <3>1, <2>2, <2>3, <1>k
    <3>2. CASE ~Attended(d)
      BY <3>2, <2>2 DEF Owns
    <3> QED  BY <3>1, <3>2
  <2> QED  BY <2>4 DEF Owned
<1>2. ASSUME NEW c \in Slots, EndsTask(c) PROVE Owned'
  <2>1. UNCHANGED <<worker, up>> /\ ~Attended(c)' /\ \A d \in Slots : d # c => claims'[d] = claims[d]
    BY <1>2, EndedUnattended DEF EndsTask, OtherTasks
  <2>2. \A d \in Slots : d # c => (Attended(d)' <=> Attended(d))
    BY <2>1, AttendedStays
  <2>3. ASSUME NEW d \in Slots, d # c, Attended(d)
        PROVE  /\ rows'[claims[d].row].state # "pending"
               /\ rows'[claims[d].row].state = "sending" =>
                    /\ rows[claims[d].row].state = "sending"
                    /\ rows'[claims[d].row].worker = rows[claims[d].row].worker
    <3>1. CASE UNCHANGED storeVars
      BY <3>1, <2>3, <1>o DEF storeVars, Owns
    <3>2. CASE Attended(c) /\ Finishes(claims[c].row, claims[c].worker)
      <4>1. CASE claims[d].row # claims[c].row
        BY <3>2, <4>1, <2>3, <1>o, <1>t DEF Finishes, OtherRows, Owns
      <4>2. CASE claims[d].row = claims[c].row
        <5>1. rows[claims[c].row].state # "sending"
          BY <3>2, <4>2, <2>3, <1>o DEF Owns
        <5> QED  BY <3>2, <4>2, <5>1 DEF Finishes, Terminal
      <4> QED  BY <4>1, <4>2
    <3> QED  BY <1>2, <3>1, <3>2 DEF EndsTask, Concluded
  <2>4. \A d \in Slots : Owns(d)'
    <3> TAKE d \in Slots
    <3>1. CASE Attended(d) /\ d # c
      BY <3>1, <2>1, <2>2, <2>3, <1>k
    <3>2. CASE ~Attended(d) \/ d = c
      BY <3>2, <2>1, <2>2 DEF Owns
    <3> QED  BY <3>1, <3>2
  <2> QED  BY <2>4 DEF Owned
<1>3. ASSUME NEW i \in RowIds, NEW c \in Slots, TakesUp(i, c) PROVE Owned'
  <2>1. /\ UNCHANGED <<worker, up>> /\ \A d \in Slots : d # c => claims'[d] = claims[d]
        /\ ~Attended(c) /\ claims'[c].row = i /\ claims'[c].worker = worker
        /\ rows'[i].worker = worker
        /\ rows'[i].state = IF rows[i].state = "pending" THEN "sending" ELSE rows[i].state
        /\ rows[i].state \in {"pending", "sent_remote"}
        /\ \A j \in RowIds : j # i => rows'[j] = rows[j]
    BY <1>3 DEF TakesUp, OtherTasks, OtherRows, Attended, Eligible
  <2>2. \A d \in Slots : d # c => (Attended(d)' <=> Attended(d))
    BY <2>1, AttendedStays
  <2>3. ASSUME NEW d \in Slots, d # c, Attended(d), claims[d].row = i
        PROVE  rows[i].state = "sent_remote"
    BY <2>1, <2>3, <1>o DEF Owns
  <2>4. ASSUME NEW d \in Slots, d # c, Attended(d) PROVE Owns(d)'
    <3>1. CASE claims[d].row = i
      BY <2>1, <2>3, <2>4, <3>1 DEF Owns
    <3>2. CASE claims[d].row # i
      BY <2>1, <2>2, <2>4, <3>2, <1>o, <1>t DEF Owns
    <3> QED  BY <3>1, <3>2
  <2>5. Owns(c)'
    <3>1. rows'[i].state = "sending" => rows[i].state = "pending"
      BY <2>1
    <3>2. rows'[i].state = "sending" =>
            \A d \in Slots : Attended(d)' /\ claims'[d].row = i => d = c
      BY <2>1, <2>2, <2>3, <3>1
    <3> QED  BY <2>1, <3>2 DEF Owns
  <2> QED  BY <2>2, <2>4, <2>5 DEF Owned, Owns
<1>4. CASE Stirs
  <2>1. UNCHANGED <<claims, worker, up>>
    BY <1>4 DEF Stirs
  <2>2. \A d \in Slots : Attended(d)' <=> Attended(d)
    BY <2>1, AttendedStays
  <2>3. ASSUME NEW d \in Slots, Attended(d)
        PROVE  /\ rows'[claims[d].row].state # "pending"
               /\ rows'[claims[d].row].state = "sending" =>
                    /\ rows[claims[d].row].state = "sending"
                    /\ rows'[claims[d].row].worker = rows[claims[d].row].worker
    <3>1. CASE UNCHANGED storeVars
      BY <3>1, <2>3, <1>o DEF storeVars, Owns
    <3>2. ASSUME NEW i \in RowIds, Touches(i) \/ Resolves(i)
          PROVE  /\ rows'[claims[d].row].state # "pending"
                 /\ rows'[claims[d].row].state = "sending" =>
                      /\ rows[claims[d].row].state = "sending"
                      /\ rows'[claims[d].row].worker = rows[claims[d].row].worker
      BY <3>2, <2>3, <1>o, <1>t DEF Touches, Resolves, OtherRows, Owns
    <3>3. ASSUME NEW i \in RowIds, Appends(i)
          PROVE  rows'[claims[d].row] = rows[claims[d].row]
      BY <3>3, <2>3, <1>t DEF Appends, OtherRows, Present
    <3> QED  BY <1>4, <2>3, <3>1, <3>2, <3>3, <1>o DEF Stirs, Owns
  <2>4. \A d \in Slots : Owns(d)'
    <3> TAKE d \in Slots
    <3>1. CASE Attended(d)
      BY <3>1, <2>1, <2>2, <2>3, <1>k
    <3>2. CASE ~Attended(d)
      BY <3>2, <2>2 DEF Owns
    <3> QED  BY <3>1, <3>2
  <2> QED  BY <2>4 DEF Owned
<1>5. CASE Turns
  BY <1>5, NobodyAttended DEF Owned, Owns
<1> QED  BY <1>1, <1>2, <1>3, <1>4, <1>5, StepForm

\* an armed expiry stands for a row whose transport is over
LEMMA ExpiriesKept ==
  ASSUME Base, Owned, ExpiriesPast, "persist" \notin Disturbances, [Next]_vars
  PROVE  ExpiriesPast'
<1>t. expiries \subseteq RowIds /\ \A c \in Slots : Live(c) => claims[c].row \in RowIds
  BY LiveTask DEF Base, TypeInv, Memory
<1>s. UNCHANGED storeVars => \A i \in RowIds : rows'[i] = rows[i]
  BY DEF storeVars
<1>1. ASSUME NEW c \in Slots, Continues(c) PROVE ExpiriesPast'
  <2>1. expiries' = expiries
    BY <1>1 DEF Continues, schedVars
  <2> QED  BY <1>1, <1>t, <1>s, <2>1 DEF Continues, WritesOwn, OtherRows, ExpiriesPast
<1>2. ASSUME NEW c \in Slots, EndsTask(c) PROVE ExpiriesPast'
  <2> DEFINE i == claims[c].row
             w == claims[c].worker
  <2>1. Live(c) /\ i \in RowIds
    BY <1>2, <1>t DEF EndsTask
  <2>2. CASE UNCHANGED <<storeVars, expiries>>
    BY <2>2, <1>t, <1>s DEF ExpiriesPast
  <2>3. CASE UNCHANGED expiries /\ Finishes(i, w)
    BY <2>1, <2>3, <1>t DEF Finishes, OtherRows, ExpiriesPast, Terminal
  <2>4. CASE /\ Attended(c) /\ UNCHANGED storeVars /\ expiries' = expiries \cup {i}
             /\ rows[i].state \notin Terminal /\ ~Held(i, w)
    <3>1. rows[i].state \notin {"absent", "pending", "sending"}
      BY <2>1, <2>4 DEF Owned, Owns, Held, Base, Booked, TaskBooked, Present
    <3> QED  BY <2>1, <2>4, <3>1, <1>t, <1>s DEF ExpiriesPast
  <2> QED  BY <1>2, <2>2, <2>3, <2>4 DEF EndsTask, Concluded
<1>3. ASSUME NEW i \in RowIds, NEW c \in Slots, TakesUp(i, c) PROVE ExpiriesPast'
  BY <1>3, <1>t DEF TakesUp, OtherRows, ExpiriesPast
<1>4. CASE Stirs
  <2>1. expiries' \subseteq expiries
    BY <1>4 DEF Stirs, ExpiriesWatched
  <2>2. CASE UNCHANGED storeVars
    BY <2>1, <2>2, <1>t, <1>s DEF ExpiriesPast
  <2>3. ASSUME NEW i \in RowIds, Touches(i) \/ Appends(i) \/ Resolves(i) PROVE ExpiriesPast'
    BY <2>1, <2>3, <1>t DEF Touches, Appends, Resolves, OtherRows, ExpiriesPast
  <2> QED  BY <1>4, <2>2, <2>3 DEF Stirs
<1>5. CASE Turns
  BY <1>5 DEF Turns, ExpiriesPast
<1> QED  BY <1>1, <1>2, <1>3, <1>4, <1>5, StepForm

\* something will take up the leased row
Recoverable(i) ==
  \/ \E c \in Slots : Attended(c) /\ claims[c].row = i
  \/ i \in expiries
  \/ rows[i].state = "sent_remote" /\ rows[i].lapsed

\* no step strands a lease
LEMMA LeasesKept ==
  ASSUME Base, Owned, ExpiriesPast, LeaseIsRecoverable, [Next]_vars,
         "recovery" \notin Disturbances
  PROVE  LeaseIsRecoverable'
<1>t. expiries \subseteq RowIds /\ rows \in [RowIds -> OutboxRow]
      /\ \A c \in Slots : Live(c) => claims[c].row \in RowIds /\ claims[c].worker # NoWorker
  BY LiveTask DEF Base, TypeInv, Memory, StoreTypeOK, Booked, TaskBooked
<1>a. up => \A i \in RowIds : Leased(i) => Recoverable(i)
  BY DEF LeaseIsRecoverable, Recoverable
<1>b. (up' => \A i \in RowIds : Leased(i)' => Recoverable(i)') => LeaseIsRecoverable'
  BY DEF LeaseIsRecoverable, Recoverable
<1>k. ASSUME up', up, NEW i \in RowIds, Leased(i)', rows'[i] = rows[i],
             \A d \in Slots : Attended(d) /\ claims[d].row = i =>
                                Attended(d)' /\ claims'[d].row = i,
             i \in expiries => i \in expiries'
      PROVE  Recoverable(i)'
  <2>1. Leased(i)
    BY <1>k DEF Leased
  <2> QED  BY <1>k, <2>1, <1>a DEF Recoverable
<1>1. ASSUME NEW c \in Slots, Continues(c) PROVE LeaseIsRecoverable'
  <2>1. /\ UNCHANGED <<worker, up, expiries>> /\ Live(c)
        /\ \A d \in Slots : claims'[d] = claims[d] \/ (StaysTask(d) /\ Live(d))
    BY <1>1 DEF Continues, schedVars, OtherTasks
  <2>2. \A d \in Slots : (Attended(d)' <=> Attended(d)) /\ claims'[d].row = claims[d].row
    BY <2>1, AttendedStays DEF StaysTask, SameTask
  <2>3. ASSUME up', NEW i \in RowIds, Leased(i)' PROVE Recoverable(i)'
    <3>1. CASE rows'[i] = rows[i]
      BY <2>1, <2>2, <2>3, <3>1, <1>k
    <3>2. CASE Attended(c) /\ i = claims[c].row
      BY <2>2, <3>2 DEF Recoverable
    <3> QED  BY <1>1, <3>1, <3>2 DEF Continues, storeVars, WritesOwn, OtherRows
  <2> QED  BY <2>3, <1>b
<1>2. ASSUME NEW c \in Slots, EndsTask(c) PROVE LeaseIsRecoverable'
  <2>1. UNCHANGED <<worker, up>> /\ Live(c) /\ \A d \in Slots : d # c => claims'[d] = claims[d]
    BY <1>2 DEF EndsTask, OtherTasks
  <2>2. \A d \in Slots : d # c => (Attended(d)' <=> Attended(d)) /\ claims'[d].row = claims[d].row
    BY <2>1, AttendedStays
  <2>3. ASSUME up', NEW i \in RowIds, Leased(i)' PROVE Recoverable(i)'
    <3>1. CASE ~Attended(c)
      <4>1. rows'[i] = rows[i] /\ expiries' = expiries
        BY <1>2, <3>1 DEF EndsTask, storeVars
      <4> QED  BY <2>1, <2>2, <2>3, <3>1, <4>1, <1>k
    <3>2. CASE Attended(c) /\ i # claims[c].row
      <4>1. rows'[i] = rows[i] /\ (i \in expiries => i \in expiries')
        BY <1>2, <3>2 DEF EndsTask, Concluded, Finishes, OtherRows, storeVars
      <4> QED  BY <2>1, <2>2, <2>3, <3>2, <4>1, <1>k
    <3>3. CASE Attended(c) /\ i = claims[c].row
      <4>1. i \in expiries'
        BY <1>2, <2>3, <3>3 DEF EndsTask, Concluded, Finishes, Leased, storeVars, Terminal
      <4> QED  BY <4>1 DEF Recoverable
    <3> QED  BY <3>1, <3>2, <3>3
  <2> QED  BY <2>3, <1>b
<1>3. ASSUME NEW i \in RowIds, NEW c \in Slots, TakesUp(i, c) PROVE LeaseIsRecoverable'
  <2>1. /\ UNCHANGED <<worker, up, expiries>> /\ \A d \in Slots : d # c => claims'[d] = claims[d]
        /\ ~Live(c) /\ up /\ \A j \in RowIds : j # i => rows'[j] = rows[j]
    BY <1>3 DEF TakesUp, OtherTasks, OtherRows
  <2>2. \A d \in Slots : d # c => (Attended(d)' <=> Attended(d)) /\ claims'[d].row = claims[d].row
    BY <2>1, AttendedStays
  <2>3. ASSUME up', NEW j \in RowIds, Leased(j)' PROVE Recoverable(j)'
    <3>1. CASE j # i
      <4>1. \A d \in Slots : Attended(d) => d # c
        BY <2>1 DEF Attended
      <4> QED  BY <2>1, <2>2, <2>3, <3>1, <4>1, <1>k
    <3>2. CASE j = i
      <4>1. Attended(c)' /\ claims'[c].row = i
        BY <1>3 DEF TakesUp, Attended, Mine
      <4> QED  BY <3>2, <4>1 DEF Recoverable
    <3> QED  BY <3>1, <3>2
  <2> QED  BY <2>3, <1>b
<1>4. CASE Stirs
  <2>1. UNCHANGED <<claims, worker, up>> /\ ExpiriesWatched
    BY <1>4 DEF Stirs
  <2>2. \A d \in Slots : (Attended(d)' <=> Attended(d)) /\ claims'[d].row = claims[d].row
    BY <2>1, AttendedStays
  <2>3. ASSUME up', NEW j \in RowIds, Leased(j)' PROVE Recoverable(j)'
    <3>1. CASE rows'[j] = rows[j]
      <4>1. CASE j \in expiries => j \in expiries'
        BY <2>1, <2>2, <2>3, <3>1, <4>1, <1>k
      <4>2. CASE j \in expiries /\ j \notin expiries'
        <5>1. Leased(j) /\ rows[j].lapsed
          BY <2>1, <2>3, <3>1, <4>2 DEF ExpiriesWatched, Leased
        <5>2. rows[j].state = "sent_remote"
          BY <4>2, <5>1 DEF ExpiriesPast, Leased
        <5> QED  BY <3>1, <5>1, <5>2 DEF Recoverable
      <4> QED  BY <4>1, <4>2
    <3>2. ASSUME NEW i \in RowIds, Touches(i), j = i, UNCHANGED expiries PROVE Recoverable(j)'
      <4>1. Leased(j)
        BY <2>3, <3>2 DEF Touches, Leased
      <4>2. Recoverable(j)
        BY <2>1, <2>3, <4>1, <1>a
      <4>3. rows'[j].state = rows[j].state /\ (rows[j].lapsed => rows'[j].lapsed)
        BY <3>2 DEF Touches
      <4> QED  BY <2>2, <3>2, <4>2, <4>3 DEF Recoverable
    <3>3. ASSUME NEW i \in RowIds, Appends(i) \/ Resolves(i), j = i PROVE FALSE
      BY <2>3, <3>3 DEF Appends, Resolves, Leased, Base, Unleased, Terminal
    <3>4. CASE UNCHANGED storeVars
      BY <3>1, <3>4 DEF storeVars
    <3>5. CASE ~UNCHANGED storeVars
      <4>1. UNCHANGED expiries
        BY <2>1, <3>5 DEF ExpiriesWatched
      <4>2. PICK i \in RowIds : Touches(i) \/ Appends(i) \/ Resolves(i)
        BY <1>4, <3>5 DEF Stirs
      <4>3. CASE j # i
        BY <4>2, <4>3, <3>1 DEF Touches, Appends, Resolves, OtherRows
      <4> QED  BY <4>1, <4>2, <4>3, <3>2, <3>3
    <3> QED  BY <3>4, <3>5
  <2> QED  BY <2>3, <1>b
<1>5. CASE Turns
  <2>1. CASE RecoverOutbox
    <3>1. \A i \in RowIds : rows'[i].worker = NoWorker
      BY <2>1, <1>t DEF RecoverOutbox, RecoveredRow, OutboxRow
    <3> QED  BY <3>1, <1>b DEF Leased
  <2>2. CASE ~up'
    BY <2>2, <1>b
  <2> QED  BY <1>5, <2>1, <2>2 DEF Turns
<1> QED  BY <1>1, <1>2, <1>3, <1>4, <1>5, StepForm

\* While the store takes the final writes and recovery succeeds, every lease that has no
\* task is one that something takes up, whatever stalls, timeouts and crashes happen.
THEOREM LeasesAreRecoverable ==
  ASSUME {"persist", "recovery"} \cap Disturbances = {}
  PROVE  Spec => []LeaseIsRecoverable
<1>1. Init => Owned /\ ExpiriesPast /\ LeaseIsRecoverable
  <2> SUFFICES ASSUME Init PROVE Owned /\ ExpiriesPast /\ LeaseIsRecoverable
    OBVIOUS
  <2>1. ~up /\ expiries = {}
    BY DEF Init
  <2> QED  BY <2>1 DEF Owned, Owns, Attended, Mine, ExpiriesPast, LeaseIsRecoverable
<1>2. Base /\ Owned /\ ExpiriesPast /\ LeaseIsRecoverable /\ [Next]_vars =>
        Owned' /\ ExpiriesPast' /\ LeaseIsRecoverable'
  BY OwnedKept, ExpiriesKept, LeasesKept
<1> QED  BY <1>1, <1>2, BaseInvariance, PTL DEF Spec

--------------------------------------------------------------------------------
(* Hooks *)

\* an attended task holds its row alone, under a lease that has not lapsed, and knows
\* every completed step
HoldsLease(c) ==
  Attended(c) =>
    /\ Held(claims[c].row, claims[c].worker)
    /\ ~rows[claims[c].row].lapsed
    /\ rows[claims[c].row].steps \subseteq claims[c].done
    /\ \A d \in Slots : Attended(d) /\ claims[d].row = claims[c].row => d = c

LeasesHeld == \A c \in Slots : HoldsLease(c)

\* a hook that ran is recorded on its row, as complete or as in doubt
Counted(i, st) ==
  /\ applied[i][st] \in {0, 1}
  /\ applied[i][st] = 1 => Present(i) /\ (st \in rows[i].steps \/ rows[i].uncertain = st)

HooksCounted == \A i \in RowIds, st \in Steps : Counted(i, st)

\* nobody else takes up, or lapses, the row of an attended task
LEMMA LeasesHeldKept ==
  ASSUME Base, LeasesHeld, "stall" \notin Disturbances, [Next]_vars
  PROVE  LeasesHeld'
<1>t. \A c \in Slots : Attended(c) =>
        /\ Live(c) /\ claims[c].row \in RowIds /\ Present(claims[c].row)
        /\ claims[c].worker # NoWorker
  BY LiveTask DEF Base, Booked, TaskBooked, Attended
<1>h. \A c \in Slots : HoldsLease(c)
  BY DEF LeasesHeld
<1>k. ASSUME NEW d \in Slots, Attended(d), claims'[d] = claims[d],
             rows'[claims[d].row] = rows[claims[d].row],
             \A e \in Slots : Attended(e)' /\ claims'[e].row = claims[d].row =>
                                Attended(e) /\ claims[e].row = claims[d].row
      PROVE  HoldsLease(d)'
  BY <1>k, <1>h DEF HoldsLease, Held
<1>1. ASSUME NEW c \in Slots, Continues(c) PROVE LeasesHeld'
  <2>1. /\ UNCHANGED <<worker, up>> /\ Live(c)
        /\ \A d \in Slots : claims'[d] = claims[d] \/ (StaysTask(d) /\ Live(d))
        /\ \A d \in Slots : d # c => claims'[d] = claims[d]
    BY <1>1 DEF Continues, schedVars, OtherTasks
  <2>2. \A d \in Slots : /\ Attended(d)' <=> Attended(d)
                         /\ claims'[d].row = claims[d].row /\ claims'[d].worker = claims[d].worker
    BY <2>1, AttendedStays DEF StaysTask, SameTask
  <2>3. ASSUME NEW d \in Slots, Attended(d), d # c PROVE HoldsLease(d)'
    <3>1. rows'[claims[d].row] = rows[claims[d].row]
      <4>1. CASE UNCHANGED storeVars
        BY <4>1 DEF storeVars
      <4>2. CASE Attended(c) /\ WritesOwn(claims[c].row, claims[c].worker)
        BY <2>3, <4>2, <1>h, <1>t DEF WritesOwn, OtherRows, HoldsLease
      <4> QED  BY <1>1, <4>1, <4>2 DEF Continues
    <3> QED  BY <2>1, <2>2, <2>3, <3>1, <1>k
  <2>4. ASSUME Attended(c) PROVE HoldsLease(c)'
    <3> DEFINE i == claims[c].row
    <3>1. /\ Held(i, claims[c].worker) /\ ~rows[i].lapsed /\ rows[i].steps \subseteq claims[c].done
          /\ \A d \in Slots : Attended(d) /\ claims[d].row = i => d = c
      BY <2>4, <1>h DEF HoldsLease
    <3>2. rows'[i].steps \subseteq claims'[c].done
      BY <1>1, <3>1 DEF Continues, StepsKept, StepDone, HookEntered
    <3>3. /\ rows'[i].state \in {"sending", "sent_remote"} /\ rows'[i].worker = claims[c].worker
          /\ ~rows'[i].lapsed
      <4>1. CASE UNCHANGED storeVars
        BY <3>1, <4>1 DEF storeVars, Held
      <4>2. CASE WritesOwn(i, claims[c].worker)
        BY <3>1, <4>2 DEF WritesOwn, Held
      <4> QED  BY <1>1, <4>1, <4>2 DEF Continues
    <3> QED  BY <2>2, <3>1, <3>2, <3>3 DEF HoldsLease, Held
  <2>5. \A d \in Slots : HoldsLease(d)'
    <3> TAKE d \in Slots
    <3>1. CASE ~Attended(d)
      BY <3>1, <2>2 DEF HoldsLease
    <3> QED  BY <3>1, <2>3, <2>4
  <2> QED  BY <2>5 DEF LeasesHeld
<1>2. ASSUME NEW c \in Slots, EndsTask(c) PROVE LeasesHeld'
  <2>1. UNCHANGED <<worker, up>> /\ ~Attended(c)' /\ \A d \in Slots : d # c => claims'[d] = claims[d]
    BY <1>2, EndedUnattended DEF EndsTask, OtherTasks
  <2>2. \A d \in Slots : d # c => (Attended(d)' <=> Attended(d))
    BY <2>1, AttendedStays
  <2>3. ASSUME NEW d \in Slots, d # c, Attended(d) PROVE rows'[claims[d].row] = rows[claims[d].row]
    <3>1. CASE UNCHANGED storeVars
      BY <3>1 DEF storeVars
    <3>2. CASE Attended(c) /\ Finishes(claims[c].row, claims[c].worker)
      BY <2>3, <3>2, <1>h, <1>t DEF Finishes, OtherRows, HoldsLease
    <3> QED  BY <1>2, <3>1, <3>2 DEF EndsTask, Concluded
  <2>4. \A d \in Slots : HoldsLease(d)'
    <3> TAKE d \in Slots
    <3>1. CASE Attended(d) /\ d # c
      BY <3>1, <2>1, <2>2, <2>3, <1>k
    <3>2. CASE ~Attended(d) \/ d = c
      BY <3>2, <2>1, <2>2 DEF HoldsLease
    <3> QED  BY <3>1, <3>2
  <2> QED  BY <2>4 DEF LeasesHeld
<1>3. ASSUME NEW i \in RowIds, NEW c \in Slots, TakesUp(i, c) PROVE LeasesHeld'
  <2>1. /\ UNCHANGED <<worker, up>> /\ \A d \in Slots : d # c => claims'[d] = claims[d]
        /\ ~Attended(c) /\ Eligible(i) /\ \A j \in RowIds : j # i => rows'[j] = rows[j]
    BY <1>3 DEF TakesUp, OtherTasks, OtherRows, Attended
  <2>2. \A d \in Slots : d # c => (Attended(d)' <=> Attended(d))
    BY <2>1, AttendedStays
  <2>3. \A d \in Slots : Attended(d) => claims[d].row # i
    BY <2>1, <1>h, <1>t DEF HoldsLease, Held, Eligible
  <2>4. ASSUME NEW d \in Slots, d # c PROVE HoldsLease(d)'
    <3>1. CASE Attended(d)
      <4>1. rows'[claims[d].row] = rows[claims[d].row] /\ claims[d].row # i
        BY <2>1, <2>3, <3>1, <1>t
      <4>2. claims'[c].row = i
        BY <1>3 DEF TakesUp
      <4> QED  BY <2>1, <2>2, <2>4, <3>1, <4>1, <4>2, <1>k
    <3>2. CASE ~Attended(d)
      BY <2>2, <2>4, <3>2 DEF HoldsLease
    <3> QED  BY <3>1, <3>2
  <2>5. HoldsLease(c)'
    <3>1. /\ claims'[c].row = i /\ claims'[c].worker = worker /\ claims'[c].done = rows[i].steps
          /\ rows'[i].steps = rows[i].steps /\ ~rows'[i].lapsed /\ rows'[i].worker = worker
          /\ rows'[i].state \in {"sending", "sent_remote"}
      BY <1>3 DEF TakesUp, Eligible
    <3>2. \A d \in Slots : Attended(d)' /\ claims'[d].row = i => d = c
      BY <2>1, <2>2, <2>3
    <3> QED  BY <3>1, <3>2 DEF HoldsLease, Held
  <2> QED  BY <2>4, <2>5 DEF LeasesHeld
<1>4. CASE Stirs
  <2>1. UNCHANGED <<claims, worker, up>>
    BY <1>4 DEF Stirs
  <2>2. \A d \in Slots : Attended(d)' <=> Attended(d)
    BY <2>1, AttendedStays
  <2>3. ASSUME NEW d \in Slots, Attended(d)
        PROVE  /\ Held(claims[d].row, claims[d].worker)' /\ ~rows'[claims[d].row].lapsed
               /\ rows'[claims[d].row].steps = rows[claims[d].row].steps
    <3>1. Held(claims[d].row, claims[d].worker) /\ ~rows[claims[d].row].lapsed
          /\ claims[d].row \in RowIds
      BY <2>3, <1>h, <1>t DEF HoldsLease
    <3>2. CASE UNCHANGED storeVars
      BY <2>1, <3>1, <3>2 DEF storeVars, Held
    <3>3. ASSUME NEW i \in RowIds, Touches(i)
          PROVE  /\ Held(claims[d].row, claims[d].worker)' /\ ~rows'[claims[d].row].lapsed
                 /\ rows'[claims[d].row].steps = rows[claims[d].row].steps
      BY <2>1, <2>3, <3>1, <3>3 DEF Touches, OtherRows, Held
    <3>4. ASSUME NEW i \in RowIds, Appends(i) \/ Resolves(i)
          PROVE  rows'[claims[d].row] = rows[claims[d].row]
      BY <3>1, <3>4 DEF Appends, Resolves, OtherRows, Held
    <3>5. CASE \E i \in RowIds : Appends(i) \/ Resolves(i)
      BY <2>1, <3>1, <3>4, <3>5 DEF Held
    <3> QED  BY <1>4, <3>2, <3>3, <3>5 DEF Stirs
  <2>4. \A d \in Slots : HoldsLease(d)'
    <3> TAKE d \in Slots
    <3>1. CASE Attended(d)
      <4>1. rows[claims[d].row].steps \subseteq claims[d].done
            /\ \A e \in Slots : Attended(e) /\ claims[e].row = claims[d].row => e = d
        BY <3>1, <1>h DEF HoldsLease
      <4> QED  BY <2>1, <2>2, <2>3, <3>1, <4>1 DEF HoldsLease
    <3>2. CASE ~Attended(d)
      BY <3>2, <2>2 DEF HoldsLease
    <3> QED  BY <3>1, <3>2
  <2> QED  BY <2>4 DEF LeasesHeld
<1>5. CASE Turns
  BY <1>5, NobodyAttended DEF LeasesHeld, HoldsLease
<1> QED  BY <1>1, <1>2, <1>3, <1>4, <1>5, StepForm

\* no step runs a hook whose last run is recorded
LEMMA HooksCountedKept ==
  ASSUME Base, LeasesHeld, HooksCounted, [Next]_vars
  PROVE  HooksCounted'
<1>t. /\ rows \in [RowIds -> OutboxRow] /\ applied \in [RowIds -> [Steps -> Nat]]
      /\ NoStep \notin Steps /\ NoStep = 0
      /\ \A c \in Slots : Live(c) => claims[c].row \in RowIds
  BY LiveTask, StoreAssumption DEF Base, TypeInv, StoreTypeOK, Memory, NoStep
<1>c. \A i \in RowIds, st \in Steps : Counted(i, st)
  BY DEF HooksCounted
<1>p. \A i \in RowIds : Present(i) => Present(i)'
  BY RowsStay
<1>k. ASSUME NEW i \in RowIds, NEW st \in Steps, applied'[i][st] = applied[i][st],
             Present(i) /\ st \in rows[i].steps => st \in rows'[i].steps,
             Present(i) /\ rows[i].uncertain = st =>
               rows'[i].uncertain = st \/ st \in rows'[i].steps
      PROVE  Counted(i, st)'
  BY <1>k, <1>c, <1>p DEF Counted
<1>s. ASSUME UNCHANGED <<storeVars, applied>> PROVE HooksCounted'
  BY <1>s, <1>k DEF storeVars, HooksCounted
<1>r. ASSUME NEW i \in RowIds, OtherRows(i), UNCHANGED applied,
             Present(i) => rows[i].steps \subseteq rows'[i].steps,
             Present(i) => rows'[i].uncertain = rows[i].uncertain \/ rows[i].uncertain \in rows'[i].steps
      PROVE  HooksCounted'
  <2>1. ASSUME NEW j \in RowIds, NEW st \in Steps PROVE Counted(j, st)'
    <3>1. CASE j = i
      BY <1>r, <2>1, <3>1, <1>k
    <3>2. CASE j # i
      BY <1>r, <2>1, <3>2, <1>k DEF OtherRows
    <3> QED  BY <3>1, <3>2
  <2> QED  BY <2>1 DEF HooksCounted
<1>1. ASSUME NEW c \in Slots, Continues(c) PROVE HooksCounted'
  <2>1. Live(c) /\ claims[c].row \in RowIds
    BY <1>1, <1>t DEF Continues
  <2>2. PICK i \in RowIds : i = claims[c].row
    BY <2>1
  <2>3. CASE UNCHANGED storeVars /\ StepsKept(c, i)
    BY <2>3, <1>s DEF StepsKept
  <2>4. CASE Attended(c) /\ WritesOwn(i, claims[c].worker) /\ StepsKept(c, i)
    BY <2>4, <1>r DEF StepsKept, WritesOwn
  <2>5. ASSUME Attended(c), WritesOwn(i, claims[c].worker), NEW st \in Steps, StepDone(c, i, st)
        PROVE  HooksCounted'
    BY <2>5, <1>r DEF StepDone, WritesOwn
  <2>6. ASSUME Attended(c), WritesOwn(i, claims[c].worker), NEW st \in Steps, HookEntered(c, i, st)
        PROVE  HooksCounted'
    <3>1. rows[i].steps \subseteq claims[c].done
      BY <2>2, <2>6 DEF LeasesHeld, HoldsLease
    <3>2. st \notin rows[i].steps /\ rows[i].uncertain = NoStep
      BY <2>6, <3>1 DEF HookEntered
    <3>3. applied[i][st] = 0
      BY <3>2, <1>c, <1>t DEF Counted
    <3>4. /\ applied' = [applied EXCEPT ![i][st] = applied[i][st] + 1]
          /\ rows'[i].steps = rows[i].steps /\ rows'[i].uncertain = st
      BY <2>6, <3>2 DEF HookEntered
    <3>5. applied'[i][st] = 1
      BY <3>3, <3>4, <1>t
    <3>6. Present(i)'
      BY <2>6 DEF WritesOwn, Held, Present
    <3>7. Counted(i, st)'
      BY <3>4, <3>5, <3>6 DEF Counted
    <3>8. ASSUME NEW j \in RowIds, NEW u \in Steps, j # i \/ u # st PROVE Counted(j, u)'
      <4>1. applied'[j][u] = applied[j][u]
        BY <3>4, <3>8, <1>t
      <4>2. CASE j # i
        BY <2>6, <3>8, <4>1, <4>2, <1>k DEF WritesOwn, OtherRows
      <4>3. CASE j = i
        BY <3>2, <3>4, <3>8, <4>1, <4>3, <1>k, <1>t
      <4> QED  BY <4>2, <4>3
    <3> QED  BY <3>7, <3>8 DEF HooksCounted
  <2> QED  BY <1>1, <2>2, <2>3, <2>4, <2>5, <2>6 DEF Continues
<1>2. ASSUME NEW c \in Slots, EndsTask(c) PROVE HooksCounted'
  <2>1. Live(c) /\ claims[c].row \in RowIds /\ UNCHANGED applied
    BY <1>2, <1>t DEF EndsTask
  <2>2. CASE UNCHANGED storeVars
    BY <2>1, <2>2, <1>s
  <2>3. CASE Finishes(claims[c].row, claims[c].worker)
    BY <2>1, <2>3, <1>r DEF Finishes
  <2> QED  BY <1>2, <2>2, <2>3 DEF EndsTask, Concluded
<1>3. ASSUME NEW i \in RowIds, NEW c \in Slots, TakesUp(i, c) PROVE HooksCounted'
  BY <1>3, <1>r DEF TakesUp
<1>4. CASE Stirs
  <2>1. ASSUME NEW i \in RowIds, Touches(i) \/ Appends(i) PROVE HooksCounted'
    BY <2>1, <1>r DEF Touches, Appends, Present
  <2>2. ASSUME NEW i \in RowIds, Resolves(i) PROVE HooksCounted'
    <3>0. PICK st \in Steps : st = rows[i].uncertain
      BY <2>2 DEF Resolves
    <3>1. CASE rows'[i].steps = rows[i].steps \cup {st} /\ UNCHANGED applied
      BY <2>2, <3>0, <3>1, <1>r DEF Resolves
    <3>2. CASE /\ rows'[i].steps = rows[i].steps
               /\ applied' = IF applied[i][st] = 0 THEN applied
                             ELSE [applied EXCEPT ![i][st] = applied[i][st] - 1]
      <4>1. applied[i][st] \in {0, 1}
        BY <1>c DEF Counted
      <4>2. applied'[i][st] = 0
        BY <3>2, <4>1, <1>t
      <4>3. Counted(i, st)'
        BY <4>2 DEF Counted
      <4>4. ASSUME NEW j \in RowIds, NEW u \in Steps, j # i \/ u # st PROVE Counted(j, u)'
        <5>1. applied'[j][u] = applied[j][u]
          BY <3>2, <4>1, <4>4, <1>t
        <5>2. CASE j # i
          BY <2>2, <4>4, <5>1, <5>2, <1>k DEF Resolves, OtherRows
        <5>3. CASE j = i
          BY <3>0, <3>2, <4>4, <5>1, <5>3, <1>k
        <5> QED  BY <5>2, <5>3
      <4> QED  BY <4>3, <4>4 DEF HooksCounted
    <3> QED  BY <2>2, <3>0, <3>1, <3>2 DEF Resolves
  <2> QED  BY <1>4, <1>s, <2>1, <2>2 DEF Stirs
<1>5. CASE Turns
  <2>1. CASE RecoverOutbox
    <3>1. UNCHANGED applied
      BY <1>5 DEF Turns
    <3>2. \A i \in RowIds : /\ rows'[i].steps = rows[i].steps
                            /\ rows'[i].uncertain = rows[i].uncertain
      <4> TAKE i \in RowIds
      <4>1. rows'[i] = RecoveredRow(rows[i]) /\ rows[i] \in OutboxRow
        BY <2>1, <1>t DEF RecoverOutbox
      <4> QED  BY <4>1 DEF RecoveredRow, OutboxRow
    <3> QED  BY <3>1, <3>2, <1>k DEF HooksCounted
  <2>2. CASE UNCHANGED storeVars
    BY <2>2, <1>5, <1>s DEF Turns
  <2> QED  BY <1>5, <2>1, <2>2 DEF Turns
<1> QED  BY <1>1, <1>2, <1>3, <1>4, <1>5, StepForm

\* As long as no stall lets the lease of a working task lapse, a hook (settleEffectStep)
\* runs at most once, over timeouts, refused writes, stops, crashes and failed
\* recoveries, unless the operator confirmed that its last run was not applied.
THEOREM HooksRunOnce ==
  ASSUME "stall" \notin Disturbances
  PROVE  Spec => []EffectOnce
<1>1. Init => LeasesHeld /\ HooksCounted
  <2> SUFFICES ASSUME Init PROVE LeasesHeld /\ HooksCounted
    OBVIOUS
  <2>1. ~up /\ applied = [i \in RowIds |-> [st \in Steps |-> 0]]
    BY DEF Init
  <2>2. \A i \in RowIds, st \in Steps : applied[i][st] = 0
    BY <2>1
  <2> QED  BY <2>1, <2>2 DEF LeasesHeld, HoldsLease, Attended, Mine, HooksCounted, Counted
<1>2. Base /\ LeasesHeld /\ HooksCounted /\ [Next]_vars => LeasesHeld' /\ HooksCounted'
  BY LeasesHeldKept, HooksCountedKept
<1>3. LeasesHeld /\ HooksCounted => EffectOnce
  <2>1. \A i \in RowIds, st \in Effects : HooksCounted => applied[i][st] <= 1
    BY StoreAssumption DEF HooksCounted, Counted
  <2> QED  BY <2>1 DEF EffectOnce
<1> QED  BY <1>1, <1>2, <1>3, BaseInvariance, PTL DEF Spec

================================================================================
