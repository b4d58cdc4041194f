------------------------------- MODULE TurnStore -------------------------------
(***************************************************************************)
(* The durable turn queue of the Session store: events, turns and the      *)
(* outbox rows a turn appends while it runs                                *)
(* (services/sessions/sessionEventStore.ts, sessionTurnStore.ts).  Every   *)
(* operation is one BEGIN IMMEDIATE transaction: a Can... guard (what the  *)
(* transaction checks and throws about) and an update.                     *)
(*                                                                         *)
(* Turn <<e, a>> is attempt a of event e (UNIQUE (event_id, attempt)).     *)
(* said[e][k] is the outbox row under the key turn-outbox:<e>:<k>; how it  *)
(* is delivered is OutboxStore's business.  Time is a small integer, since *)
(* deadlines are compared for equality.                                    *)
(***************************************************************************)
EXTENDS Integers

CONSTANTS
  Sessions,
  MaxEvents,     \* bound on the number of events ever enqueued
  MaxAttempts,   \* bound on the attempts of an event
  MaxTime,       \* bound on available_at
  Keys, NoKey,   \* dedupe keys, and the key of an event without one
  Bodies,        \* event payloads
  Ordinals,      \* outboxOrdinal of a turn's rows
  Texts          \* fingerprints of the rows' content

ASSUME TurnAssumption ==
  /\ Sessions # {}
  /\ MaxEvents \in Nat /\ MaxAttempts \in Nat \ {0} /\ MaxTime \in Nat
  /\ NoKey \in Keys
  /\ Bodies # {}
  /\ Ordinals \subseteq Nat \ {0}

EventIds == 1..MaxEvents
Attempts == 1..MaxAttempts
NoWorker == 0
NoText == "no_text"

Ended == {"replied", "no_reply", "failed", "timed_out", "deferred", "interrupted"}

Event ==
  [session  : Sessions,
   seq      : Nat,
   key      : Keys,
   body     : Bodies,
   state    : {"absent", "pending", "running", "completed"},
   at       : 0..MaxTime,
   attempts : 0..MaxAttempts]

Turn == [status : {"none", "running"} \cup Ended, worker : Nat]

Said ==
  [hold    : {"absent", "none", "held", "released", "fallback_released"},
   text    : Texts \cup {NoText},
   attempt : 0..MaxAttempts]

VARIABLES
  events,   \* EventIds -> Event
  filled,   \* events enqueued so far
  turns,    \* EventIds -> Attempts -> Turn
  said,     \* EventIds -> Ordinals -> Said
  next,     \* sessions.next_event_sequence
  done      \* sessions.completed_event_sequence

turnVars == <<events, filled, turns, said, next, done>>

TurnTypeOK ==
  /\ events \in [EventIds -> Event]
  /\ filled \in 0..MaxEvents
  /\ turns \in [EventIds -> [Attempts -> Turn]]
  /\ said \in [EventIds -> [Ordinals -> Said]]
  /\ next \in [Sessions -> Nat]
  /\ done \in [Sessions -> Nat]

PendingEvent(s, seq, key, body, at) ==
  [session |-> s, seq |-> seq, key |-> key, body |-> body, state |-> "pending",
   at |-> at, attempts |-> 0]

NoEvent ==
  [PendingEvent(CHOOSE s \in Sessions : TRUE, 0, NoKey, CHOOSE b \in Bodies : TRUE, 0)
     EXCEPT !.state = "absent"]

TurnStoreInit ==
  /\ events = [e \in EventIds |-> NoEvent]
  /\ filled = 0
  /\ turns = [e \in EventIds |-> [a \in Attempts |-> [status |-> "none", worker |-> NoWorker]]]
  /\ said = [e \in EventIds |->
               [k \in Ordinals |-> [hold |-> "absent", text |-> NoText, attempt |-> 0]]]
  /\ next = [s \in Sessions |-> 0]
  /\ done = [s \in Sessions |-> 0]

--------------------------------------------------------------------------------
(* Enqueueing and moving deadlines *)

Active(e) == events[e].state \in {"pending", "running"}

Holders(s, key) ==
  {e \in EventIds : events[e].state # "absent" /\ events[e].session = s /\ events[e].key = key}

IsDuplicate(s, key) == key # NoKey /\ Holders(s, key) # {}

\* an existing dedupe key returns its event and writes nothing
EnqueueEvent(s, key, body, at) ==
  IF IsDuplicate(s, key) THEN UNCHANGED turnVars
  ELSE /\ filled < MaxEvents
       /\ filled' = filled + 1
       /\ events' = [events EXCEPT ![filled + 1] = PendingEvent(s, next[s] + 1, key, body, at)]
       /\ next' = [next EXCEPT ![s] = @ + 1]
       /\ UNCHANGED <<turns, said, done>>

ReschedulePendingEvent(e, at) ==
  /\ events[e].state = "pending"
  /\ events' = [events EXCEPT ![e].at = at]
  /\ UNCHANGED <<filled, turns, said, next, done>>

\* the compare-and-set of deadline and payload
UpdateActiveEvent(e, at, body) ==
  /\ Active(e)
  /\ events' = [events EXCEPT ![e].at = at, ![e].body = body]
  /\ UNCHANGED <<filled, turns, said, next, done>>

--------------------------------------------------------------------------------
(* Claiming *)

\* completed_event_sequence + 1
IsHead(e) == events[e].seq = done[events[e].session] + 1

Busy(s) ==
  \E e \in EventIds, a \in Attempts :
    events[e].session = s /\ turns[e][a].status = "running"

\* the WHERE clause shared by claimNextTurn and nextClaimableEventAvailableAt
Waiting(e) == events[e].state = "pending" /\ IsHead(e) /\ ~Busy(events[e].session)

ClaimableAt(e, now) ==
  Waiting(e) /\ events[e].at <= now /\ events[e].attempts < MaxAttempts

\* one scan claims every event of C, at most one of each session
ClaimTurns(C, w) ==
  /\ events' = [e \in EventIds |->
                  IF e \in C THEN [events[e] EXCEPT !.state = "running", !.attempts = @ + 1]
                             ELSE events[e]]
  /\ turns' = [e \in EventIds |-> [a \in Attempts |->
                 IF e \in C /\ a = events[e].attempts + 1
                   THEN [status |-> "running", worker |-> w] ELSE turns[e][a]]]
  /\ UNCHANGED <<filled, said, next, done>>

RunsFor(e, a, w) ==
  turns[e][a].status = "running" /\ turns[e][a].worker = w /\ IsHead(e)

--------------------------------------------------------------------------------
(* Rows of a running turn *)

\* mutant: a retried turn replaces what an earlier attempt said
CanReplaceText(e, a, w, k, text, held) == RunsFor(e, a, w)

\* an existing key is accepted for the same content only
CanAppend(e, a, w, k, text, held) ==
  /\ RunsFor(e, a, w)
  /\ said[e][k].hold # "absent" => said[e][k].text = text
  /\ held => said[e][k].hold # "none"

AppendTurnOutbox(e, a, k, text, held) ==
  /\ said' = [said EXCEPT ![e][k] =
                IF @.hold # "absent" /\ @.text = text THEN @
                ELSE [hold |-> IF held THEN "held" ELSE "none", text |-> text, attempt |-> a]]
  /\ UNCHANGED <<events, filled, turns, next, done>>

\* releaseHeldOutbox, neutralizeAndReleaseHeldOutbox: the same outcome again is a duplicate
CanRelease(e, k, outcome) == said[e][k].hold \in {"held", outcome}

ReleaseHeld(e, k, outcome) ==
  /\ said' = [said EXCEPT ![e][k].hold = outcome]
  /\ UNCHANGED <<events, filled, turns, next, done>>

RowsOf(e, a) == {k \in Ordinals : said[e][k].attempt = a}

\* neutralizeHeldOutboxForTurnInTransaction
Neutralized(r) == IF r.hold = "held" THEN [r EXCEPT !.hold = "fallback_released"] ELSE r

NeutralizedRows(e, a) ==
  [said EXCEPT ![e] = [k \in Ordinals |->
                         IF said[e][k].attempt = a THEN Neutralized(said[e][k]) ELSE said[e][k]]]

--------------------------------------------------------------------------------
(* Ending a turn *)

EndedTurn(outcome) == [status |-> outcome, worker |-> NoWorker]

Advanced(e) == [done EXCEPT ![events[e].session] = events[e].seq]

\* heldAwareTurnCompletion
TurnOutcome(e, a, outcome) ==
  IF \E k \in RowsOf(e, a) : said[e][k].hold = "released" THEN "replied" ELSE outcome

\* the write half of finishTurn and deferTurn; a second call with the same outcome
\* is a duplicate, any other call on an ended turn throws
FinishTurn(e, a, outcome) ==
  /\ turns' = [turns EXCEPT ![e][a] = EndedTurn(TurnOutcome(e, a, outcome))]
  /\ said' = NeutralizedRows(e, a)
  /\ events' = [events EXCEPT ![e].state = "completed"]
  /\ done' = Advanced(e)
  /\ UNCHANGED <<filled, next>>

\* mutant: the event is pending again and its turn still running
ReturnEventOnly(e, a) ==
  /\ events' = [events EXCEPT ![e].state = "pending"]
  /\ UNCHANGED <<filled, turns, said, next, done>>

\* mutant: the event of an interrupted turn is over
InterruptAndComplete(e, a) ==
  /\ turns' = [turns EXCEPT ![e][a] = EndedTurn("interrupted")]
  /\ events' = [events EXCEPT ![e].state = "completed"]
  /\ done' = Advanced(e)
  /\ UNCHANGED <<filled, said, next>>

InterruptTurn(e, a) ==
  /\ turns' = [turns EXCEPT ![e][a] = EndedTurn("interrupted")]
  /\ said' = NeutralizedRows(e, a)
  /\ events' = [events EXCEPT ![e].state = "pending"]
  /\ UNCHANGED <<filled, next, done>>

\* mutant: the deadline read at the claim is not compared
DeadlineIgnored(e, expected, now) == FALSE

DeadlineMoved(e, expected, now) == events[e].at # expected \/ events[e].at > now

\* the target exists with another payload
HandoffCollides(s, key, body) == \E t \in Holders(s, key) : events[t].body # body

HandOff(e, a, s, key, body, now) ==
  LET source == [events EXCEPT ![e].state = "completed"]
  IN /\ turns' = [turns EXCEPT ![e][a] = EndedTurn("no_reply")]
     /\ said' = NeutralizedRows(e, a)
     /\ done' = Advanced(e)
     /\ IF IsDuplicate(s, key)
          THEN events' = source /\ UNCHANGED <<filled, next>>
          ELSE /\ filled < MaxEvents
               /\ filled' = filled + 1
               /\ events' = [source EXCEPT ![filled + 1] =
                               PendingEvent(s, next[s] + 1, key, body, now)]
               /\ next' = [next EXCEPT ![s] = @ + 1]

HandoffTurn(e, a, s, key, body, expected, now) ==
  /\ DeadlineMoved(e, expected, now) => InterruptTurn(e, a)
  /\ ~DeadlineMoved(e, expected, now) =>
       ~HandoffCollides(s, key, body) /\ HandOff(e, a, s, key, body, now)

--------------------------------------------------------------------------------
(* recoverTurnLeases(all): a turn that had appended a held row is closed,  *)
(* any other is interrupted and its event claimed again.                   *)

Later(x, y) == IF x < y THEN y ELSE x

\* mutant: a confirmation in doubt is retried like any other turn
NoHeldRow(e, a) == FALSE

HasHeldLifecycle(e, a) == \E k \in RowsOf(e, a) : said[e][k].hold \notin {"absent", "none"}

Recovers(e) == \E a \in Attempts : turns[e][a].status = "running"
RunningAttempt(e) == CHOOSE a \in Attempts : turns[e][a].status = "running"
Closes(e) == Recovers(e) /\ HasHeldLifecycle(e, RunningAttempt(e))

RecoverTurnLeases(now) ==
  /\ turns' = [e \in EventIds |-> [a \in Attempts |->
                 IF turns[e][a].status # "running" THEN turns[e][a]
                 ELSE EndedTurn(IF HasHeldLifecycle(e, a) THEN TurnOutcome(e, a, "failed")
                                                          ELSE "interrupted")]]
  /\ said' = [e \in EventIds |-> [k \in Ordinals |->
                IF Closes(e) THEN Neutralized(said[e][k]) ELSE said[e][k]]]
  /\ events' = [e \in EventIds |->
                  IF Closes(e) THEN [events[e] EXCEPT !.state = "completed"]
                  ELSE IF Recovers(e) /\ events[e].state = "running"
                    THEN [events[e] EXCEPT !.state = "pending", !.at = Later(@, now)]
                    ELSE events[e]]
  /\ done' = [s \in Sessions |->
                IF \E e \in EventIds : Closes(e) /\ events[e].session = s
                  THEN done[s] + 1 ELSE done[s]]
  /\ UNCHANGED <<filled, next>>

================================================================================
