---------------------------- MODULE TurnQueueProofs ----------------------------
(***************************************************************************)
(* TurnQueue's safety for every number of sessions, events, attempts and   *)
(* coordinators: the tables agree, what a turn has said stands, a change   *)
(* is made once and told truly, and no waiting turn is forgotten.          *)
(***************************************************************************)
EXTENDS TurnQueue, TLAPS, FiniteSetTheorems, WellFoundedInduction

-------------------------------------------------------------------------------
(* What the turn store keeps by itself, whoever calls it: the two tables of    *)
(* events and turns agree, a session's events complete in their order, and     *)
(* what a turn has said stays said.                                            *)

Present(e) == events[e].state # "absent"

\* Events are filled up to filled, and those of a session carry increasing sequence
\* numbers up to its counter.
Sequenced ==
  /\ \A e \in EventIds : Present(e) <=> e <= filled
  /\ \A e \in EventIds : Present(e) => events[e].seq > 0 /\ events[e].seq <= next[events[e].session]
  /\ \A e, f \in EventIds :
       (Present(e) /\ Present(f) /\ events[e].session = events[f].session /\ e # f)
         => events[e].seq # events[f].seq

\* The cursor stands below the counter, between the completed events and the others.
CursorSplits ==
  /\ \A s \in Sessions : done[s] <= next[s]
  /\ \A e \in EventIds :
       Present(e) => ((events[e].state = "completed") <=> (events[e].seq <= done[events[e].session]))

\* A turn runs exactly when its event does, as the latest attempt of its session's head.
TablesAgree ==
  \A e \in EventIds :
    /\ events[e].state = "running" =>
         IsHead(e) /\ events[e].attempts > 0 /\ turns[e][events[e].attempts].status = "running"
    /\ \A a \in Attempts :
         turns[e][a].status = "running" => events[e].state = "running" /\ events[e].attempts = a

\* The row is held, or was.
Lifecycle(e, k) == said[e][k].hold \notin {"absent", "none"}

\* A row that was ever held belongs to the attempt under way, or its event is over.
HeldIsCurrent ==
  \A e \in EventIds, k \in Ordinals : Lifecycle(e, k) =>
    \/ events[e].state = "completed"
    \/ events[e].state = "running" /\ said[e][k].attempt = events[e].attempts

StoreInv == TurnTypeOK /\ Sequenced /\ CursorSplits /\ TablesAgree /\ HeldIsCurrent

\* The empty store satisfies the invariant.
LEMMA StoreInitial == TurnStoreInit => StoreInv
<1> SUFFICES ASSUME TurnStoreInit PROVE StoreInv
  OBVIOUS
<1>1. /\ \A e \in EventIds : /\ events[e] = NoEvent
                             /\ \A a \in Attempts : turns[e][a].status = "none"
                             /\ \A k \in Ordinals : said[e][k].hold = "absent"
      /\ NoEvent.state = "absent"
  BY DEF TurnStoreInit, NoEvent, PendingEvent
<1>2. NoEvent \in Event
  <2> DEFINE r == CHOOSE s \in Sessions : TRUE
             c == CHOOSE b \in Bodies : TRUE
  <2>1. r \in Sessions
    BY TurnAssumption
  <2>2. c \in Bodies
    BY TurnAssumption
  <2>3. 0 \in 0..MaxTime /\ 0 \in 0..MaxAttempts /\ NoKey \in Keys
    BY TurnAssumption
  <2> HIDE DEF r, c
  <2>4. [[session |-> r, seq |-> 0, key |-> NoKey, body |-> c, state |-> "pending",
          at |-> 0, attempts |-> 0] EXCEPT !.state = "absent"] \in Event
    BY <2>1, <2>2, <2>3 DEF Event
  <2> QED  BY <2>4 DEF NoEvent, PendingEvent, r, c
<1>3. TurnTypeOK
  <2>1. events \in [EventIds -> Event] /\ filled \in 0..MaxEvents
    BY <1>2, TurnAssumption DEF TurnStoreInit
  <2>2. turns \in [EventIds -> [Attempts -> Turn]]
    BY DEF TurnStoreInit, Turn, NoWorker
  <2>3. said \in [EventIds -> [Ordinals -> Said]]
    BY TurnAssumption DEF TurnStoreInit, Said
  <2>4. next \in [Sessions -> Nat] /\ done \in [Sessions -> Nat]
    BY DEF TurnStoreInit
  <2> QED  BY <2>1, <2>2, <2>3, <2>4 DEF TurnTypeOK
<1>4. Sequenced
  BY <1>1 DEF Sequenced, Present, TurnStoreInit, EventIds
<1>5. CursorSplits
  BY <1>1 DEF CursorSplits, Present, TurnStoreInit
<1>6. TablesAgree /\ HeldIsCurrent
  BY <1>1 DEF TablesAgree, HeldIsCurrent, Lifecycle
<1> QED  BY <1>3, <1>4, <1>5, <1>6 DEF StoreInv

\* The head of a session is one event, and the running ones are heads.
LEMMA OneHead ==
  ASSUME StoreInv, NEW e \in EventIds, NEW f \in EventIds, Present(e), Present(f),
         events[e].session = events[f].session, IsHead(e), IsHead(f)
  PROVE  e = f
BY DEF StoreInv, Sequenced, IsHead

\* What a running turn says of its event.
LEMMA RunningFacts ==
  ASSUME StoreInv, NEW e \in EventIds, NEW a \in Attempts, turns[e][a].status = "running"
  PROVE  /\ events[e].state = "running" /\ events[e].attempts = a /\ IsHead(e) /\ Present(e)
         /\ events[e].session \in Sessions /\ events[e].seq \in Nat
         /\ events[e].seq = done[events[e].session] + 1
BY DEF StoreInv, TablesAgree, IsHead, Present, TurnTypeOK, Event

--------------------------------------------------------------------------------
(* Enqueueing and moving deadlines *)

\* A new event takes the next sequence number of its session.
LEMMA EnqueueKeeps ==
  ASSUME StoreInv, NEW s \in Sessions, NEW key \in Keys, NEW body \in Bodies,
         NEW at \in 0..MaxTime, EnqueueEvent(s, key, body, at), ~IsDuplicate(s, key)
  PROVE  StoreInv'
<1> DEFINE n == filled + 1
<1>t. TurnTypeOK /\ Sequenced /\ CursorSplits /\ TablesAgree /\ HeldIsCurrent
  BY DEF StoreInv
<1>1. /\ filled < MaxEvents /\ filled' = n /\ n \in EventIds
      /\ filled \in Nat /\ MaxEvents \in Nat
      /\ UNCHANGED <<turns, said, done>>
  BY <1>t, TurnAssumption DEF EnqueueEvent, TurnTypeOK, EventIds
<1>2. /\ ~Present(n)
      /\ \A f \in EventIds : f # n => events'[f] = events[f]
      /\ events'[n] = PendingEvent(s, next[s] + 1, key, body, at)
  BY <1>t, <1>1 DEF EnqueueEvent, TurnTypeOK, Sequenced, EventIds
<1>3. /\ events'[n].session = s /\ events'[n].seq = next[s] + 1
      /\ events'[n].state = "pending"
  BY <1>2 DEF PendingEvent
<1>4. /\ next'[s] = next[s] + 1 /\ next[s] \in Nat
      /\ \A r \in Sessions : r # s => next'[r] = next[r]
      /\ \A r \in Sessions : next[r] \in Nat /\ done[r] \in Nat
  BY <1>t DEF EnqueueEvent, TurnTypeOK
<1>5. \A f \in EventIds : events[f].session \in Sessions /\ events[f].seq \in Nat
  BY <1>t DEF TurnTypeOK, Event
<1>6. TurnTypeOK'
  <2>1. PendingEvent(s, next[s] + 1, key, body, at) \in Event
    BY <1>4, TurnAssumption DEF PendingEvent, Event
  <2>2. events' \in [EventIds -> Event]
    BY <1>t, <1>1, <2>1 DEF EnqueueEvent, TurnTypeOK
  <2>3. next' \in [Sessions -> Nat]
    BY <1>t, <1>1, <1>4 DEF EnqueueEvent, TurnTypeOK
  <2> QED  BY <1>t, <1>1, <2>2, <2>3 DEF TurnTypeOK
<1>7. Sequenced'
  <2>1. \A e \in EventIds : Present(e)' <=> e <= filled'
    BY <1>t, <1>1, <1>2, <1>3 DEF Sequenced, Present, EventIds
  <2>2. \A e \in EventIds :
          Present(e)' => events'[e].seq > 0 /\ events'[e].seq <= next'[events'[e].session]
    BY <1>t, <1>2, <1>3, <1>4, <1>5 DEF Sequenced, Present
  <2>3. \A e, f \in EventIds :
          (Present(e)' /\ Present(f)' /\ events'[e].session = events'[f].session /\ e # f)
            => events'[e].seq # events'[f].seq
    <3>1. \A f \in EventIds : (f # n /\ Present(f) /\ events[f].session = s) => events[f].seq # next[s] + 1
      BY <1>t, <1>4, <1>5 DEF Sequenced
    <3> QED  BY <1>t, <1>2, <1>3, <3>1 DEF Sequenced, Present
  <2> QED  BY <2>1, <2>2, <2>3 DEF Sequenced
<1>8. CursorSplits'
  <2>1. \A r \in Sessions : done'[r] <= next'[r]
    BY <1>t, <1>1, <1>4 DEF CursorSplits
  <2>2. ~(next[s] + 1 <= done[s])
    BY <1>t, <1>4 DEF CursorSplits
  <2> QED  BY <1>t, <1>1, <1>2, <1>3, <2>1, <2>2 DEF CursorSplits, Present
<1>9. TablesAgree' /\ HeldIsCurrent'
  <2>1. /\ \A a \in Attempts : turns[n][a].status # "running"
        /\ \A k \in Ordinals : ~Lifecycle(n, k)
    BY <1>t, <1>1, <1>2 DEF TablesAgree, HeldIsCurrent, Present
  <2>2. TablesAgree'
    BY <1>t, <1>1, <1>2, <1>3, <2>1 DEF TablesAgree, IsHead
  <2>3. HeldIsCurrent'
    BY <1>t, <1>1, <1>2, <2>1 DEF HeldIsCurrent, Lifecycle
  <2> QED  BY <2>2, <2>3
<1> QED  BY <1>6, <1>7, <1>8, <1>9 DEF StoreInv

\* Deadlines and payloads are nothing the invariant depends on.
LEMMA DeadlineKeeps ==
  ASSUME StoreInv, events' \in [EventIds -> Event],
         \A f \in EventIds : /\ events'[f].session = events[f].session
                             /\ events'[f].seq = events[f].seq
                             /\ events'[f].state = events[f].state
                             /\ events'[f].attempts = events[f].attempts,
         UNCHANGED <<filled, turns, said, next, done>>
  PROVE  StoreInv'
<1>1. TurnTypeOK'
  BY DEF StoreInv, TurnTypeOK
<1>2. Sequenced'
  BY DEF StoreInv, Sequenced, Present
<1>3. CursorSplits'
  BY DEF StoreInv, CursorSplits, Present
<1>4. TablesAgree' /\ HeldIsCurrent'
  BY DEF StoreInv, TablesAgree, HeldIsCurrent, IsHead, Lifecycle
<1> QED  BY <1>1, <1>2, <1>3, <1>4 DEF StoreInv

\* A pending event moves its deadline.
LEMMA RescheduleKeeps ==
  ASSUME StoreInv, NEW e \in EventIds, NEW at \in 0..MaxTime, ReschedulePendingEvent(e, at)
  PROVE  StoreInv'
<1>t. events \in [EventIds -> Event]
  BY DEF StoreInv, TurnTypeOK
<1>1. events' = [events EXCEPT ![e] = [events[e] EXCEPT !.at = at]]
  BY <1>t DEF ReschedulePendingEvent
<1>2. [events[e] EXCEPT !.at = at] \in Event
  BY <1>t DEF Event
<1>3. events' \in [EventIds -> Event]
  BY <1>t, <1>1, <1>2
<1>4. \A f \in EventIds : /\ events'[f].session = events[f].session
                          /\ events'[f].seq = events[f].seq
                          /\ events'[f].state = events[f].state
                          /\ events'[f].attempts = events[f].attempts
  BY <1>t, <1>1 DEF Event
<1> QED  BY <1>3, <1>4, DeadlineKeeps DEF ReschedulePendingEvent

\* An active event moves its deadline and replaces its payload.
LEMMA UpdateActiveKeeps ==
  ASSUME StoreInv, NEW e \in EventIds, NEW at \in 0..MaxTime, NEW body \in Bodies,
         UpdateActiveEvent(e, at, body)
  PROVE  StoreInv'
<1>t. events \in [EventIds -> Event]
  BY DEF StoreInv, TurnTypeOK
<1>1. events' = [events EXCEPT ![e] = [events[e] EXCEPT !.at = at, !.body = body]]
  BY <1>t DEF UpdateActiveEvent
<1>2. [events[e] EXCEPT !.at = at, !.body = body] \in Event
  BY <1>t DEF Event
<1>3. events' \in [EventIds -> Event]
  BY <1>t, <1>1, <1>2
<1>4. \A f \in EventIds : /\ events'[f].session = events[f].session
                          /\ events'[f].seq = events[f].seq
                          /\ events'[f].state = events[f].state
                          /\ events'[f].attempts = events[f].attempts
  BY <1>t, <1>1 DEF Event
<1> QED  BY <1>3, <1>4, DeadlineKeeps DEF UpdateActiveEvent

--------------------------------------------------------------------------------
(* Claiming *)

\* A scan claims heads that wait, with an attempt of their own left.
LEMMA ClaimKeeps ==
  ASSUME StoreInv, NEW C \in SUBSET EventIds, NEW w \in Nat, ClaimTurns(C, w),
         \A e \in C : Waiting(e) /\ events[e].attempts < MaxAttempts
  PROVE  StoreInv'
<1>t. TurnTypeOK /\ Sequenced /\ CursorSplits /\ TablesAgree /\ HeldIsCurrent
  BY DEF StoreInv
<1>a. \A e \in EventIds : /\ events[e] \in Event
                          /\ events[e].attempts \in 0..MaxAttempts
  BY <1>t DEF TurnTypeOK, Event
<1>b. \A e \in C : /\ events[e].state = "pending" /\ IsHead(e)
                   /\ events[e].attempts + 1 \in Attempts
                   /\ \A a \in Attempts : turns[e][a].status # "running"
  <2> SUFFICES ASSUME NEW e \in C
               PROVE  /\ events[e].state = "pending" /\ IsHead(e)
                      /\ events[e].attempts + 1 \in Attempts
                      /\ \A a \in Attempts : turns[e][a].status # "running"
    OBVIOUS
  <2>1. events[e].state = "pending" /\ IsHead(e) /\ events[e].attempts < MaxAttempts
    BY DEF Waiting
  <2>2. \A a \in Attempts : turns[e][a].status # "running"
    BY <1>t, <2>1 DEF TablesAgree
  <2> QED  BY <1>a, <2>1, <2>2, TurnAssumption DEF Attempts
<1>1. \A e \in EventIds :
        /\ events'[e].session = events[e].session /\ events'[e].seq = events[e].seq
        /\ events'[e].state = (IF e \in C THEN "running" ELSE events[e].state)
        /\ events'[e].attempts = (IF e \in C THEN events[e].attempts + 1 ELSE events[e].attempts)
  BY <1>a DEF ClaimTurns, Event
<1>2. \A e \in EventIds, a \in Attempts :
        turns'[e][a].status = (IF e \in C /\ a = events[e].attempts + 1 THEN "running"
                               ELSE turns[e][a].status)
  BY DEF ClaimTurns
<1>3. UNCHANGED <<filled, said, next, done>>
  BY DEF ClaimTurns
<1>4. TurnTypeOK'
  <2>1. events' \in [EventIds -> Event]
    <3>1. ASSUME NEW e \in C
          PROVE  [events[e] EXCEPT !.state = "running", !.attempts = @ + 1] \in Event
      <4>1. events[e] \in Event /\ events[e].attempts + 1 \in 0..MaxAttempts
        BY <1>a, <1>b DEF Attempts
      <4>2. [events[e] EXCEPT !.state = "running", !.attempts = events[e].attempts + 1] \in Event
        BY <4>1 DEF Event
      <4> QED  BY <4>2
    <3>2. \A e \in EventIds :
            (IF e \in C THEN [events[e] EXCEPT !.state = "running", !.attempts = @ + 1]
                        ELSE events[e]) \in Event
      BY <1>a, <3>1
    <3> QED  BY <3>2 DEF ClaimTurns
  <2>2. turns' \in [EventIds -> [Attempts -> Turn]]
    <3>1. [status |-> "running", worker |-> w] \in Turn
      BY DEF Turn
    <3>2. \A e \in EventIds, a \in Attempts : turns[e][a] \in Turn
      BY <1>t DEF TurnTypeOK
    <3> QED  BY <3>1, <3>2 DEF ClaimTurns
  <2> QED  BY <1>t, <1>3, <2>1, <2>2 DEF TurnTypeOK
<1>5. Sequenced'
  BY <1>t, <1>1, <1>3, <1>b DEF Sequenced, Present
<1>6. CursorSplits'
  BY <1>t, <1>1, <1>3, <1>b DEF CursorSplits, Present
<1>7. TablesAgree'
  <2> SUFFICES ASSUME NEW e \in EventIds
               PROVE  /\ events'[e].state = "running" =>
                           /\ IsHead(e)' /\ events'[e].attempts > 0
                           /\ turns'[e][events'[e].attempts].status = "running"
                      /\ \A a \in Attempts : turns'[e][a].status = "running" =>
                           events'[e].state = "running" /\ events'[e].attempts = a
    BY DEF TablesAgree
  <2>1. IsHead(e)' <=> IsHead(e)
    BY <1>1, <1>3 DEF IsHead
  <2>2. CASE e \in C
    BY <1>1, <1>2, <1>b, <2>1, <2>2, <1>a DEF Attempts
  <2>3. CASE e \notin C
    <3>1. events[e].state = "running" => events[e].attempts \in Attempts
      BY <1>t, <1>a DEF TablesAgree, Attempts
    <3> QED  BY <1>t, <1>1, <1>2, <2>1, <2>3, <3>1 DEF TablesAgree
  <2> QED  BY <2>2, <2>3
<1>8. HeldIsCurrent'
  BY <1>t, <1>1, <1>3, <1>b DEF HeldIsCurrent, Lifecycle
<1> QED  BY <1>4, <1>5, <1>6, <1>7, <1>8 DEF StoreInv

--------------------------------------------------------------------------------
(* Ending a turn *)

\* The rows of an ended turn keep their texts, and a held one is released as a fallback.
LEMMA NeutralizedFacts ==
  ASSUME StoreInv, NEW e \in EventIds, NEW a \in Attempts
  PROVE  /\ NeutralizedRows(e, a) \in [EventIds -> [Ordinals -> Said]]
         /\ \A f \in EventIds, k \in Ordinals :
              /\ NeutralizedRows(e, a)[f][k].text = said[f][k].text
              /\ NeutralizedRows(e, a)[f][k].attempt = said[f][k].attempt
              /\ NeutralizedRows(e, a)[f][k].hold =
                   (IF f = e /\ said[f][k].attempt = a /\ said[f][k].hold = "held"
                      THEN "fallback_released" ELSE said[f][k].hold)
<1>1. \A f \in EventIds, k \in Ordinals : said[f][k] \in Said
  BY DEF StoreInv, TurnTypeOK
<1>2. \A f \in EventIds, k \in Ordinals :
        /\ Neutralized(said[f][k]) \in Said
        /\ Neutralized(said[f][k]).text = said[f][k].text
        /\ Neutralized(said[f][k]).attempt = said[f][k].attempt
        /\ Neutralized(said[f][k]).hold =
             (IF said[f][k].hold = "held" THEN "fallback_released" ELSE said[f][k].hold)
  BY <1>1 DEF Neutralized, Said
<1>3. said \in [EventIds -> [Ordinals -> Said]]
  BY DEF StoreInv, TurnTypeOK
<1>4. /\ NeutralizedRows(e, a) \in [EventIds -> [Ordinals -> Said]]
      /\ \A f \in EventIds, k \in Ordinals :
           NeutralizedRows(e, a)[f][k] =
             IF f = e /\ said[f][k].attempt = a THEN Neutralized(said[f][k]) ELSE said[f][k]
  BY <1>1, <1>2, <1>3 DEF NeutralizedRows
<1> QED  BY <1>2, <1>4

\* The running turn of an event ends and its event is completed: FinishTurn and HandOff.
LEMMA CompletionKeeps ==
  ASSUME StoreInv, NEW e \in EventIds, NEW a \in Attempts, NEW outcome \in Ended,
         turns[e][a].status = "running",
         turns' = [turns EXCEPT ![e][a] = EndedTurn(outcome)],
         said' = NeutralizedRows(e, a),
         events' = [events EXCEPT ![e].state = "completed"],
         done' = Advanced(e),
         UNCHANGED <<filled, next>>
  PROVE  StoreInv'
<1>t. TurnTypeOK /\ Sequenced /\ CursorSplits /\ TablesAgree /\ HeldIsCurrent
  BY DEF StoreInv
<1>r. /\ events[e].state = "running" /\ events[e].attempts = a /\ IsHead(e) /\ Present(e)
      /\ events[e].session \in Sessions /\ events[e].seq \in Nat
      /\ events[e].seq = done[events[e].session] + 1
  BY RunningFacts
<1>a. \A f \in EventIds : /\ events[f] \in Event /\ events[f].session \in Sessions
                          /\ events[f].seq \in Nat
  BY <1>t DEF TurnTypeOK, Event
<1>1. \A f \in EventIds :
        /\ events'[f].session = events[f].session /\ events'[f].seq = events[f].seq
        /\ events'[f].attempts = events[f].attempts
        /\ events'[f].state = (IF f = e THEN "completed" ELSE events[f].state)
  BY <1>t, <1>a DEF TurnTypeOK, Event
<1>2. \A f \in EventIds, b \in Attempts :
        turns'[f][b].status = (IF f = e /\ b = a THEN outcome ELSE turns[f][b].status)
  BY <1>t DEF TurnTypeOK, EndedTurn
<1>3. \A s \in Sessions :
        done'[s] = (IF s = events[e].session THEN events[e].seq ELSE done[s])
  BY <1>t DEF TurnTypeOK, Advanced
<1>d. \A s \in Sessions : done[s] \in Nat /\ next[s] \in Nat
  BY <1>t DEF TurnTypeOK
<1>4. TurnTypeOK'
  <2>1. events' \in [EventIds -> Event]
    <3>1. [events[e] EXCEPT !.state = "completed"] \in Event
      BY <1>a DEF Event
    <3>2. events' = [events EXCEPT ![e] = [events[e] EXCEPT !.state = "completed"]]
      BY <1>t DEF TurnTypeOK
    <3> QED  BY <1>t, <3>1, <3>2 DEF TurnTypeOK
  <2>2. turns' \in [EventIds -> [Attempts -> Turn]]
    BY <1>t DEF TurnTypeOK, Turn, EndedTurn, Ended, NoWorker
  <2>3. said' \in [EventIds -> [Ordinals -> Said]]
    BY NeutralizedFacts
  <2>4. done' \in [Sessions -> Nat]
    BY <1>t, <1>r DEF TurnTypeOK, Advanced
  <2> QED  BY <1>t, <2>1, <2>2, <2>3, <2>4 DEF TurnTypeOK
<1>5. Sequenced'
  BY <1>t, <1>1, <1>r DEF Sequenced, Present
<1>6. CursorSplits'
  <2>1. \A s \in Sessions : done'[s] <= next'[s]
    BY <1>t, <1>3, <1>r DEF CursorSplits, Sequenced
  <2>2. ASSUME NEW f \in EventIds, Present(f)'
        PROVE  (events'[f].state = "completed") <=> (events'[f].seq <= done'[events'[f].session])
    <3>1. CASE f = e
      BY <1>1, <1>3, <1>r, <3>1
    <3>2. CASE f # e /\ events[f].session = events[e].session
      <4>1. Present(f) /\ events[f].seq # events[e].seq
        BY <1>t, <1>1, <1>r, <2>2, <3>2 DEF Sequenced, Present
      <4>2. (events[f].seq <= done[events[e].session]) <=> (events[f].seq <= events[e].seq)
        BY <1>r, <1>a, <1>d, <4>1
      <4> QED  BY <1>t, <1>1, <1>3, <1>a, <3>2, <4>1, <4>2 DEF CursorSplits
    <3>3. CASE events[f].session # events[e].session
      <4>1. Present(f) /\ f # e
        BY <1>1, <2>2, <3>3 DEF Present
      <4> QED  BY <1>t, <1>1, <1>3, <1>a, <3>3, <4>1 DEF CursorSplits
    <3> QED  BY <3>1, <3>2, <3>3
  <2> QED  BY <2>1, <2>2 DEF CursorSplits
<1>7. TablesAgree'
  <2> SUFFICES ASSUME NEW f \in EventIds
               PROVE  /\ events'[f].state = "running" =>
                           /\ IsHead(f)' /\ events'[f].attempts > 0
                           /\ turns'[f][events'[f].attempts].status = "running"
                      /\ \A b \in Attempts : turns'[f][b].status = "running" =>
                           events'[f].state = "running" /\ events'[f].attempts = b
    BY DEF TablesAgree
  <2>1. CASE f = e
    <3>1. \A b \in Attempts : turns'[e][b].status # "running"
      BY <1>t, <1>2, <1>r DEF TablesAgree, Ended
    <3> QED  BY <1>1, <2>1, <3>1
  <2>2. CASE f # e
    <3>1. events[f].state = "running" => IsHead(f)'
      <4> SUFFICES ASSUME events[f].state = "running" PROVE IsHead(f)'
        OBVIOUS
      <4>1. IsHead(f) /\ Present(f)
        BY <1>t DEF TablesAgree, Present
      <4>2. events[f].session # events[e].session
        BY <1>r, <2>2, <4>1, OneHead
      <4> QED  BY <1>1, <1>3, <1>a, <4>1, <4>2 DEF IsHead
    <3>2. \A b \in Attempts : turns'[f][b].status = turns[f][b].status
      BY <1>2, <2>2
    <3>3. events[f].state = "running" => turns'[f][events[f].attempts].status = "running"
      <4>1. turns'[f] = turns[f]
        BY <1>t, <2>2 DEF TurnTypeOK
      <4> QED  BY <1>t, <4>1 DEF TablesAgree
    <3> QED  BY <1>t, <1>1, <2>2, <3>1, <3>2, <3>3 DEF TablesAgree
  <2> QED  BY <2>1, <2>2
<1>8. HeldIsCurrent'
  <2>1. \A f \in EventIds, k \in Ordinals :
          Lifecycle(f, k)' => Lifecycle(f, k) /\ said'[f][k].attempt = said[f][k].attempt
    BY NeutralizedFacts DEF Lifecycle
  <2> QED  BY <1>t, <1>1, <2>1 DEF HeldIsCurrent
<1> QED  BY <1>4, <1>5, <1>6, <1>7, <1>8 DEF StoreInv

\* A finished turn concludes its event, whatever its outcome.
LEMMA FinishKeeps ==
  ASSUME StoreInv, NEW e \in EventIds, NEW a \in Attempts, NEW outcome \in Ended,
         turns[e][a].status = "running", FinishTurn(e, a, outcome)
  PROVE  StoreInv'
<1>1. TurnOutcome(e, a, outcome) \in Ended
  BY DEF TurnOutcome, Ended
<1> QED  BY <1>1, CompletionKeeps DEF FinishTurn

\* An interrupted turn gives its event back; a held row of it would stay in doubt.
LEMMA InterruptKeeps ==
  ASSUME StoreInv, NEW e \in EventIds, NEW a \in Attempts, turns[e][a].status = "running",
         InterruptTurn(e, a), \A k \in Ordinals : ~Lifecycle(e, k)
  PROVE  StoreInv'
<1>t. TurnTypeOK /\ Sequenced /\ CursorSplits /\ TablesAgree /\ HeldIsCurrent
  BY DEF StoreInv
<1>r. /\ events[e].state = "running" /\ events[e].attempts = a /\ IsHead(e) /\ Present(e)
      /\ events[e].session \in Sessions /\ events[e].seq \in Nat
  BY RunningFacts
<1>a. \A f \in EventIds : events[f] \in Event
  BY <1>t DEF TurnTypeOK
<1>1. \A f \in EventIds :
        /\ events'[f].session = events[f].session /\ events'[f].seq = events[f].seq
        /\ events'[f].attempts = events[f].attempts
        /\ events'[f].state = (IF f = e THEN "pending" ELSE events[f].state)
  BY <1>t, <1>a DEF TurnTypeOK, Event, InterruptTurn
<1>2. \A f \in EventIds, b \in Attempts :
        turns'[f][b].status = (IF f = e /\ b = a THEN "interrupted" ELSE turns[f][b].status)
  BY <1>t DEF TurnTypeOK, EndedTurn, InterruptTurn
<1>3. UNCHANGED <<filled, next, done>>
  BY DEF InterruptTurn
<1>4. TurnTypeOK'
  <2>1. events' \in [EventIds -> Event]
    <3>1. [events[e] EXCEPT !.state = "pending"] \in Event
      BY <1>a DEF Event
    <3>2. events' = [events EXCEPT ![e] = [events[e] EXCEPT !.state = "pending"]]
      BY <1>t DEF TurnTypeOK, InterruptTurn
    <3> QED  BY <1>t, <3>1, <3>2 DEF TurnTypeOK
  <2>2. turns' \in [EventIds -> [Attempts -> Turn]]
    BY <1>t DEF TurnTypeOK, Turn, EndedTurn, Ended, NoWorker, InterruptTurn
  <2>3. said' \in [EventIds -> [Ordinals -> Said]]
    BY NeutralizedFacts DEF InterruptTurn
  <2> QED  BY <1>t, <1>3, <2>1, <2>2, <2>3 DEF TurnTypeOK
<1>5. Sequenced'
  BY <1>t, <1>1, <1>3, <1>r DEF Sequenced, Present
<1>6. CursorSplits'
  BY <1>t, <1>1, <1>3, <1>r DEF CursorSplits, Present
<1>7. TablesAgree'
  <2> SUFFICES ASSUME NEW f \in EventIds
               PROVE  /\ events'[f].state = "running" =>
                           /\ IsHead(f)' /\ events'[f].attempts > 0
                           /\ turns'[f][events'[f].attempts].status = "running"
                      /\ \A b \in Attempts : turns'[f][b].status = "running" =>
                           events'[f].state = "running" /\ events'[f].attempts = b
    BY DEF TablesAgree
  <2>1. CASE f = e
    <3>1. \A b \in Attempts : turns'[e][b].status # "running"
      BY <1>t, <1>2, <1>r DEF TablesAgree
    <3> QED  BY <1>1, <2>1, <3>1
  <2>2. CASE f # e
    <3>1. IsHead(f)' <=> IsHead(f)
      BY <1>1, <1>3 DEF IsHead
    <3>2. turns'[f] = turns[f]
      BY <1>t, <2>2 DEF TurnTypeOK, InterruptTurn
    <3> QED  BY <1>t, <1>1, <2>2, <3>1, <3>2 DEF TablesAgree
  <2> QED  BY <2>1, <2>2
<1>8. HeldIsCurrent'
  <2>1. \A f \in EventIds, k \in Ordinals :
          Lifecycle(f, k)' => Lifecycle(f, k) /\ said'[f][k].attempt = said[f][k].attempt
    BY NeutralizedFacts DEF Lifecycle, InterruptTurn
  <2> QED  BY <1>t, <1>1, <2>1 DEF HeldIsCurrent
<1> QED  BY <1>4, <1>5, <1>6, <1>7, <1>8 DEF StoreInv

\* A hand-off concludes its event and enqueues another one, in another session.
LEMMA HandOffKeeps ==
  ASSUME StoreInv, NEW e \in EventIds, NEW a \in Attempts, NEW s \in Sessions,
         NEW body \in Bodies, NEW moment \in 0..MaxTime,
         turns[e][a].status = "running", s # events[e].session,
         HandOff(e, a, s, NoKey, body, moment)
  PROVE  StoreInv'
<1> DEFINE n == filled + 1
<1>t. TurnTypeOK /\ Sequenced /\ CursorSplits /\ TablesAgree /\ HeldIsCurrent
  BY DEF StoreInv
<1>r. /\ events[e].state = "running" /\ events[e].attempts = a /\ IsHead(e) /\ Present(e)
      /\ events[e].session \in Sessions /\ events[e].seq \in Nat
      /\ events[e].seq = done[events[e].session] + 1
  BY RunningFacts
<1>a. \A f \in EventIds : /\ events[f] \in Event /\ events[f].session \in Sessions
                          /\ events[f].seq \in Nat
  BY <1>t DEF TurnTypeOK, Event
<1>d. \A r \in Sessions : done[r] \in Nat /\ next[r] \in Nat
  BY <1>t DEF TurnTypeOK
<1>h. /\ turns' = [turns EXCEPT ![e][a] = EndedTurn("no_reply")]
      /\ said' = NeutralizedRows(e, a)
      /\ done' = Advanced(e)
      /\ filled < MaxEvents /\ filled' = n
      /\ events' = [[events EXCEPT ![e].state = "completed"]
                      EXCEPT ![n] = PendingEvent(s, next[s] + 1, NoKey, body, moment)]
      /\ next' = [next EXCEPT ![s] = @ + 1]
  BY DEF HandOff, IsDuplicate
<1>n. n \in EventIds /\ filled \in Nat /\ MaxEvents \in Nat /\ ~Present(n) /\ n # e
  <2>1. n \in EventIds /\ filled \in Nat /\ MaxEvents \in Nat
    BY <1>t, <1>h, TurnAssumption DEF TurnTypeOK, EventIds
  <2>2. ~Present(n)
    BY <1>t, <2>1 DEF Sequenced
  <2> QED  BY <1>r, <2>1, <2>2
<1>e. /\ \A f \in EventIds : f # n /\ f # e => events'[f] = events[f]
      /\ events'[e] = [events[e] EXCEPT !.state = "completed"]
      /\ events'[n] = PendingEvent(s, next[s] + 1, NoKey, body, moment)
  BY <1>t, <1>h, <1>n DEF TurnTypeOK
<1>1. \A f \in EventIds : f # n =>
        /\ events'[f].session = events[f].session /\ events'[f].seq = events[f].seq
        /\ events'[f].attempts = events[f].attempts
        /\ events'[f].state = (IF f = e THEN "completed" ELSE events[f].state)
  BY <1>e, <1>a DEF Event
<1>2. events'[n].session = s /\ events'[n].seq = next[s] + 1 /\ events'[n].state = "pending"
  BY <1>e DEF PendingEvent
<1>3. \A f \in EventIds, b \in Attempts :
        turns'[f][b].status = (IF f = e /\ b = a THEN "no_reply" ELSE turns[f][b].status)
  BY <1>t, <1>h DEF TurnTypeOK, EndedTurn
<1>4. \A r \in Sessions :
        /\ done'[r] = (IF r = events[e].session THEN events[e].seq ELSE done[r])
        /\ next'[r] = (IF r = s THEN next[s] + 1 ELSE next[r])
  BY <1>t, <1>h DEF TurnTypeOK, Advanced
<1>5. TurnTypeOK'
  <2>1. events' \in [EventIds -> Event]
    <3>1. [events[e] EXCEPT !.state = "completed"] \in Event
      BY <1>a DEF Event
    <3>2. PendingEvent(s, next[s] + 1, NoKey, body, moment) \in Event
      BY <1>d, TurnAssumption DEF PendingEvent, Event
    <3>3. events' = [[events EXCEPT ![e] = [events[e] EXCEPT !.state = "completed"]]
                       EXCEPT ![n] = PendingEvent(s, next[s] + 1, NoKey, body, moment)]
      BY <1>t, <1>h DEF TurnTypeOK
    <3> QED  BY <1>t, <3>1, <3>2, <3>3 DEF TurnTypeOK
  <2>2. turns' \in [EventIds -> [Attempts -> Turn]]
    BY <1>t, <1>h DEF TurnTypeOK, Turn, EndedTurn, Ended, NoWorker
  <2>3. said' \in [EventIds -> [Ordinals -> Said]]
    BY <1>h, NeutralizedFacts
  <2>4. done' \in [Sessions -> Nat] /\ next' \in [Sessions -> Nat]
    BY <1>t, <1>r, <1>h, <1>d DEF TurnTypeOK, Advanced
  <2>5. filled' \in 0..MaxEvents
    BY <1>h, <1>n
  <2> QED  BY <2>1, <2>2, <2>3, <2>4, <2>5 DEF TurnTypeOK
<1>6. Sequenced'
  <2>1. \A f \in EventIds : Present(f)' <=> (Present(f) \/ f = n)
    BY <1>1, <1>2, <1>r DEF Present
  <2>2. \A f \in EventIds : Present(f)' <=> f <= filled'
    BY <1>t, <1>h, <1>n, <2>1 DEF Sequenced, EventIds
  <2>3. \A f \in EventIds :
          Present(f)' => events'[f].seq > 0 /\ events'[f].seq <= next'[events'[f].session]
    BY <1>t, <1>1, <1>2, <1>4, <1>a, <1>d, <2>1 DEF Sequenced
  <2>4. \A f \in EventIds : Present(f) /\ events[f].session = s => events[f].seq # next[s] + 1
    BY <1>t, <1>a, <1>d DEF Sequenced
  <2>5. \A f, g \in EventIds :
          (Present(f)' /\ Present(g)' /\ events'[f].session = events'[g].session /\ f # g)
            => events'[f].seq # events'[g].seq
    BY <1>t, <1>1, <1>2, <2>1, <2>4, <1>n DEF Sequenced
  <2> QED  BY <2>2, <2>3, <2>5 DEF Sequenced
<1>7. CursorSplits'
  <2>1. \A r \in Sessions : done'[r] <= next'[r]
    <3>1. events[e].seq <= next[events[e].session]
      BY <1>t, <1>r DEF Sequenced
    <3> QED  BY <1>t, <1>4, <1>d, <1>r, <3>1 DEF CursorSplits
  <2>2. ASSUME NEW f \in EventIds, Present(f)'
        PROVE  (events'[f].state = "completed") <=> (events'[f].seq <= done'[events'[f].session])
    <3>1. CASE f = e
      BY <1>1, <1>4, <1>r, <1>n, <3>1
    <3>2. CASE f = n
      <4>1. done[s] <= next[s]
        BY <1>t DEF CursorSplits
      <4>2. done'[s] = done[s]
        BY <1>4
      <4> QED  BY <1>2, <1>d, <3>2, <4>1, <4>2
    <3>3. CASE f # e /\ f # n /\ events[f].session = events[e].session
      <4>1. Present(f) /\ events[f].seq # events[e].seq
        BY <1>t, <1>1, <1>r, <2>2, <3>3 DEF Sequenced, Present
      <4>2. (events[f].seq <= done[events[e].session]) <=> (events[f].seq <= events[e].seq)
        BY <1>r, <1>a, <1>d, <4>1
      <4> QED  BY <1>t, <1>1, <1>4, <1>a, <3>3, <4>1, <4>2 DEF CursorSplits
    <3>4. CASE f # e /\ f # n /\ events[f].session # events[e].session
      <4>1. Present(f)
        BY <1>1, <2>2, <3>4 DEF Present
      <4> QED  BY <1>t, <1>1, <1>4, <1>a, <3>4, <4>1 DEF CursorSplits
    <3> QED  BY <3>1, <3>2, <3>3, <3>4
  <2> QED  BY <2>1, <2>2 DEF CursorSplits
<1>8. TablesAgree'
  <2> SUFFICES ASSUME NEW f \in EventIds
               PROVE  /\ events'[f].state = "running" =>
                           /\ IsHead(f)' /\ events'[f].attempts > 0
                           /\ turns'[f][events'[f].attempts].status = "running"
                      /\ \A b \in Attempts : turns'[f][b].status = "running" =>
                           events'[f].state = "running" /\ events'[f].attempts = b
    BY DEF TablesAgree
  <2>1. CASE f = e
    <3>1. \A b \in Attempts : turns'[e][b].status # "running"
      BY <1>t, <1>3, <1>r DEF TablesAgree
    <3> QED  BY <1>1, <1>n, <2>1, <3>1
  <2>2. CASE f = n
    <3>1. \A b \in Attempts : turns'[n][b].status # "running"
      BY <1>t, <1>3, <1>n DEF TablesAgree, Present
    <3> QED  BY <1>2, <2>2, <3>1
  <2>3. CASE f # e /\ f # n
    <3>1. events[f].state = "running" => IsHead(f)'
      <4> SUFFICES ASSUME events[f].state = "running" PROVE IsHead(f)'
        OBVIOUS
      <4>1. IsHead(f) /\ Present(f)
        BY <1>t DEF TablesAgree, Present
      <4>2. events[f].session # events[e].session
        BY <1>r, <2>3, <4>1, OneHead
      <4> QED  BY <1>1, <1>4, <1>a, <2>3, <4>1, <4>2 DEF IsHead
    <3>2. turns'[f] = turns[f]
      BY <1>t, <1>h, <2>3 DEF TurnTypeOK
    <3> QED  BY <1>t, <1>1, <2>3, <3>1, <3>2 DEF TablesAgree
  <2> QED  BY <2>1, <2>2, <2>3
<1>9. HeldIsCurrent'
  <2>1. \A f \in EventIds, k \in Ordinals :
          Lifecycle(f, k)' => Lifecycle(f, k) /\ said'[f][k].attempt = said[f][k].attempt
    BY <1>h, NeutralizedFacts DEF Lifecycle
  <2>2. \A k \in Ordinals : ~Lifecycle(n, k)
    BY <1>t, <1>n DEF HeldIsCurrent, Present
  <2> QED  BY <1>t, <1>1, <2>1, <2>2 DEF HeldIsCurrent
<1> QED  BY <1>5, <1>6, <1>7, <1>8, <1>9 DEF StoreInv

\* A hand-off is carried out, or gives its event back when the deadline moved.
LEMMA HandoffKeeps ==
  ASSUME StoreInv, NEW e \in EventIds, NEW a \in Attempts, NEW s \in Sessions,
         NEW body \in Bodies, NEW expected, NEW moment \in 0..MaxTime,
         turns[e][a].status = "running", s # events[e].session,
         \A k \in Ordinals : ~Lifecycle(e, k),
         HandoffTurn(e, a, s, NoKey, body, expected, moment)
  PROVE  StoreInv'
BY HandOffKeeps, InterruptKeeps DEF HandoffTurn

--------------------------------------------------------------------------------
(* Rows of a running turn *)

\* A row is appended by the turn under way.
LEMMA AppendKeeps ==
  ASSUME StoreInv, NEW e \in EventIds, NEW a \in Attempts, NEW k \in Ordinals,
         NEW text \in Texts, NEW held \in BOOLEAN, turns[e][a].status = "running",
         AppendTurnOutbox(e, a, k, text, held)
  PROVE  /\ StoreInv'
         /\ \A f \in EventIds, l \in Ordinals :
              f # e \/ l # k \/ (said[e][k].hold # "absent" /\ said[e][k].text = text)
                => said'[f][l] = said[f][l]
         /\ ~(said[e][k].hold # "absent" /\ said[e][k].text = text) =>
              said'[e][k] = [hold |-> IF held THEN "held" ELSE "none", text |-> text, attempt |-> a]
<1> DEFINE row == [hold |-> IF held THEN "held" ELSE "none", text |-> text, attempt |-> a]
<1>t. TurnTypeOK /\ Sequenced /\ CursorSplits /\ TablesAgree /\ HeldIsCurrent
  BY DEF StoreInv
<1>r. events[e].state = "running" /\ events[e].attempts = a
  BY RunningFacts
<1>1. /\ \A f \in EventIds, l \in Ordinals :
           f # e \/ l # k \/ (said[e][k].hold # "absent" /\ said[e][k].text = text)
             => said'[f][l] = said[f][l]
      /\ ~(said[e][k].hold # "absent" /\ said[e][k].text = text) => said'[e][k] = row
  BY <1>t DEF TurnTypeOK, AppendTurnOutbox
<1>2. UNCHANGED <<events, filled, turns, next, done>>
  BY DEF AppendTurnOutbox
<1>3. TurnTypeOK'
  <2>1. row \in Said
    BY TurnAssumption DEF Said, Attempts
  <2>2. said' \in [EventIds -> [Ordinals -> Said]]
    BY <1>t, <2>1 DEF TurnTypeOK, AppendTurnOutbox
  <2> QED  BY <1>t, <1>2, <2>2 DEF TurnTypeOK
<1>4. HeldIsCurrent'
  <2>1. ASSUME NEW f \in EventIds, NEW l \in Ordinals, Lifecycle(f, l)'
        PROVE  \/ events'[f].state = "completed"
               \/ events'[f].state = "running" /\ said'[f][l].attempt = events'[f].attempts
    <3>1. CASE said'[f][l] = said[f][l]
      <4>1. Lifecycle(f, l)
        BY <2>1, <3>1 DEF Lifecycle
      <4> QED  BY <1>t, <1>2, <3>1, <4>1 DEF HeldIsCurrent
    <3>2. CASE f = e /\ l = k /\ said'[e][k] = row
      <4>1. said'[f][l].attempt = a
        BY <3>2
      <4> QED  BY <1>2, <1>r, <3>2, <4>1
    <3>3. said'[f][l] = said[f][l] \/ (f = e /\ l = k /\ said'[e][k] = row)
      <4> HIDE DEF row
      <4>1. CASE f # e \/ l # k \/ (said[e][k].hold # "absent" /\ said[e][k].text = text)
        BY <1>1, <4>1, Zenon
      <4>2. CASE ~(f # e \/ l # k \/ (said[e][k].hold # "absent" /\ said[e][k].text = text))
        BY <1>1, <4>2, Zenon
      <4> QED  BY <4>1, <4>2
    <3> QED  BY <3>1, <3>2, <3>3
  <2> QED  BY <2>1 DEF HeldIsCurrent
<1>5. Sequenced' /\ CursorSplits' /\ TablesAgree'
  BY <1>t, <1>2 DEF Sequenced, CursorSplits, TablesAgree, Present, IsHead
<1> QED  BY <1>1, <1>3, <1>4, <1>5 DEF StoreInv

\* A release changes the hold of one row and nothing else.
LEMMA ReleaseKeeps ==
  ASSUME StoreInv, NEW e \in EventIds, NEW k \in Ordinals,
         NEW outcome \in {"released", "fallback_released"},
         CanRelease(e, k, outcome), ReleaseHeld(e, k, outcome)
  PROVE  /\ StoreInv'
         /\ \A f \in EventIds, l \in Ordinals :
              /\ Lifecycle(f, l)' <=> Lifecycle(f, l)
              /\ said'[f][l].attempt = said[f][l].attempt
              /\ said'[f][l].text = said[f][l].text
              /\ said'[f][l].hold = (IF f = e /\ l = k THEN outcome ELSE said[f][l].hold)
<1>t. TurnTypeOK /\ Sequenced /\ CursorSplits /\ TablesAgree /\ HeldIsCurrent
  BY DEF StoreInv
<1>a. \A f \in EventIds, l \in Ordinals : said[f][l] \in Said
  BY <1>t DEF TurnTypeOK
<1>1. \A f \in EventIds, l \in Ordinals :
        /\ said'[f][l].attempt = said[f][l].attempt
        /\ said'[f][l].text = said[f][l].text
        /\ said'[f][l].hold = (IF f = e /\ l = k THEN outcome ELSE said[f][l].hold)
  BY <1>t, <1>a DEF TurnTypeOK, ReleaseHeld, Said
<1>2. UNCHANGED <<events, filled, turns, next, done>>
  BY DEF ReleaseHeld
<1>3. \A f \in EventIds, l \in Ordinals : Lifecycle(f, l)' <=> Lifecycle(f, l)
  BY <1>1 DEF Lifecycle, CanRelease
<1>4. TurnTypeOK'
  <2>1. [said[e][k] EXCEPT !.hold = outcome] \in Said
    BY <1>a DEF Said
  <2>2. said' = [said EXCEPT ![e][k] = [said[e][k] EXCEPT !.hold = outcome]]
    BY <1>t DEF TurnTypeOK, ReleaseHeld
  <2>3. said' \in [EventIds -> [Ordinals -> Said]]
    BY <1>t, <2>1, <2>2 DEF TurnTypeOK
  <2> QED  BY <1>t, <1>2, <2>3 DEF TurnTypeOK
<1>5. HeldIsCurrent'
  BY <1>t, <1>1, <1>2, <1>3 DEF HeldIsCurrent
<1>6. Sequenced' /\ CursorSplits' /\ TablesAgree'
  BY <1>t, <1>2 DEF Sequenced, CursorSplits, TablesAgree, Present, IsHead
<1> QED  BY <1>1, <1>3, <1>4, <1>5, <1>6 DEF StoreInv

--------------------------------------------------------------------------------
(* Recovering the leases of a coordinator that is gone *)

\* Recovery meets running events only, and closes those that have held a row.
LEMMA RecoverFacts ==
  ASSUME StoreInv, NEW e \in EventIds
  PROVE  /\ Recovers(e) <=> events[e].state = "running"
         /\ Recovers(e) => RunningAttempt(e) = events[e].attempts
         /\ Closes(e) => IsHead(e) /\ Present(e)
         /\ Closes(e) <=> (Recovers(e) /\ \E k \in Ordinals : Lifecycle(e, k))
<1>t. TurnTypeOK /\ TablesAgree /\ HeldIsCurrent
  BY DEF StoreInv
<1>1. Recovers(e) <=> events[e].state = "running"
  <2>1. events[e].state = "running" => events[e].attempts \in Attempts
    BY <1>t DEF TurnTypeOK, TablesAgree, Event, Attempts
  <2> QED  BY <1>t, <2>1 DEF Recovers, TablesAgree
<1>2. Recovers(e) => RunningAttempt(e) = events[e].attempts
  BY <1>t DEF Recovers, RunningAttempt, TablesAgree
<1>3. Recovers(e) => IsHead(e) /\ Present(e)
  BY <1>t, <1>1 DEF TablesAgree, Present
<1>4. Closes(e) <=> (Recovers(e) /\ \E k \in Ordinals : Lifecycle(e, k))
  <2>1. Recovers(e) => \A k \in Ordinals : Lifecycle(e, k) => said[e][k].attempt = events[e].attempts
    BY <1>t, <1>1 DEF HeldIsCurrent
  <2> QED  BY <1>2, <2>1 DEF Closes, HasHeldLifecycle, RowsOf, Lifecycle
<1> QED  BY <1>1, <1>2, <1>3, <1>4 DEF Closes

\* A recovered turn that had appended a held row is over, any other one is retried.
LEMMA RecoverKeeps ==
  ASSUME StoreInv, NEW moment \in 0..MaxTime, RecoverTurnLeases(moment)
  PROVE  /\ StoreInv'
         /\ \A e \in EventIds, a \in Attempts : turns'[e][a].status # "running"
         /\ \A e \in EventIds, k \in Ordinals :
              /\ said'[e][k].text = said[e][k].text /\ said'[e][k].attempt = said[e][k].attempt
              /\ said[e][k].hold # "held" => said'[e][k] = said[e][k]
              /\ said[e][k].hold = "held" => said'[e][k].hold \in {"held", "fallback_released"}
         /\ \A e \in EventIds : events'[e].at \in {events[e].at, moment}
<1>t. TurnTypeOK /\ Sequenced /\ CursorSplits /\ TablesAgree /\ HeldIsCurrent
  BY DEF StoreInv
<1>a. \A e \in EventIds : /\ events[e] \in Event /\ events[e].session \in Sessions
                          /\ events[e].seq \in Nat /\ events[e].at \in 0..MaxTime
  BY <1>t DEF TurnTypeOK, Event
<1>d. \A s \in Sessions : done[s] \in Nat /\ next[s] \in Nat
  BY <1>t DEF TurnTypeOK
<1>s. \A e \in EventIds, k \in Ordinals : said[e][k] \in Said
  BY <1>t DEF TurnTypeOK
<1>0. \A x \in 0..MaxTime : Later(x, moment) \in 0..MaxTime /\ Later(x, moment) \in {x, moment}
  BY DEF Later
<1>1. \A e \in EventIds :
        /\ events'[e].session = events[e].session /\ events'[e].seq = events[e].seq
        /\ events'[e].attempts = events[e].attempts
        /\ events'[e].at \in {events[e].at, moment}
        /\ events'[e].state = (IF Closes(e) THEN "completed"
                               ELSE IF Recovers(e) THEN "pending" ELSE events[e].state)
  <2> SUFFICES ASSUME NEW e \in EventIds
               PROVE  /\ events'[e].session = events[e].session /\ events'[e].seq = events[e].seq
                      /\ events'[e].attempts = events[e].attempts
                      /\ events'[e].at \in {events[e].at, moment}
                      /\ events'[e].state = (IF Closes(e) THEN "completed"
                                             ELSE IF Recovers(e) THEN "pending"
                                             ELSE events[e].state)
    OBVIOUS
  <2>1. Recovers(e) <=> events[e].state = "running"
    BY RecoverFacts
  <2>2. events'[e] = IF Closes(e) THEN [events[e] EXCEPT !.state = "completed"]
                     ELSE IF Recovers(e)
                       THEN [events[e] EXCEPT !.state = "pending", !.at = Later(@, moment)]
                       ELSE events[e]
    BY <2>1 DEF RecoverTurnLeases
  <2>3. CASE Closes(e)
    BY <1>a, <2>2, <2>3 DEF Event
  <2>4. CASE ~Closes(e) /\ Recovers(e)
    BY <1>0, <1>a, <2>2, <2>4 DEF Event
  <2>5. CASE ~Closes(e) /\ ~Recovers(e)
    BY <2>2, <2>5
  <2> QED  BY <2>3, <2>4, <2>5
<1>2. \A e \in EventIds, a \in Attempts : turns'[e][a].status # "running"
  BY DEF RecoverTurnLeases, EndedTurn, TurnOutcome
<1>3. \A e \in EventIds, k \in Ordinals :
        /\ said'[e][k] = (IF Closes(e) THEN Neutralized(said[e][k]) ELSE said[e][k])
        /\ said'[e][k].text = said[e][k].text /\ said'[e][k].attempt = said[e][k].attempt
        /\ said[e][k].hold # "held" => said'[e][k] = said[e][k]
        /\ said[e][k].hold = "held" => said'[e][k].hold \in {"held", "fallback_released"}
        /\ said'[e][k] \in Said
  BY <1>s DEF RecoverTurnLeases, Neutralized, Said
<1>4. UNCHANGED <<filled, next>>
  BY DEF RecoverTurnLeases
<1>5. \A s \in Sessions :
        done'[s] = (IF \E e \in EventIds : Closes(e) /\ events[e].session = s
                      THEN done[s] + 1 ELSE done[s])
  BY DEF RecoverTurnLeases
<1>6. TurnTypeOK'
  <2>1. events' \in [EventIds -> Event]
    <3>1. ASSUME NEW e \in EventIds
          PROVE  (IF Closes(e) THEN [events[e] EXCEPT !.state = "completed"]
                  ELSE IF Recovers(e) /\ events[e].state = "running"
                    THEN [events[e] EXCEPT !.state = "pending", !.at = Later(@, moment)]
                    ELSE events[e]) \in Event
      <4>1. [events[e] EXCEPT !.state = "completed"] \in Event
        BY <1>a DEF Event
      <4>2. [events[e] EXCEPT !.state = "pending", !.at = Later(@, moment)] \in Event
        <5>1. events[e] \in Event /\ Later(events[e].at, moment) \in 0..MaxTime
          BY <1>0, <1>a
        <5>2. [events[e] EXCEPT !.state = "pending", !.at = Later(events[e].at, moment)] \in Event
          BY <5>1 DEF Event
        <5> QED  BY <5>2
      <4> QED  BY <1>a, <4>1, <4>2
    <3> QED  BY <3>1 DEF RecoverTurnLeases
  <2>2. turns' \in [EventIds -> [Attempts -> Turn]]
    <3>1. \A e \in EventIds, a \in Attempts : turns[e][a] \in Turn
      BY <1>t DEF TurnTypeOK
    <3>2. \A e \in EventIds, a \in Attempts :
            /\ EndedTurn("interrupted") \in Turn
            /\ EndedTurn(TurnOutcome(e, a, "failed")) \in Turn
      BY DEF EndedTurn, TurnOutcome, Turn, Ended, NoWorker
    <3>3. \A e \in EventIds, a \in Attempts :
            (IF turns[e][a].status # "running" THEN turns[e][a]
             ELSE EndedTurn(IF HasHeldLifecycle(e, a) THEN TurnOutcome(e, a, "failed")
                                                      ELSE "interrupted")) \in Turn
      BY <3>1, <3>2
    <3> QED  BY <3>3 DEF RecoverTurnLeases
  <2>3. said' \in [EventIds -> [Ordinals -> Said]]
    <3>1. \A e \in EventIds, k \in Ordinals :
            (IF Closes(e) THEN Neutralized(said[e][k]) ELSE said[e][k]) \in Said
      BY <1>s DEF Neutralized, Said
    <3> QED  BY <3>1 DEF RecoverTurnLeases
  <2>4. done' \in [Sessions -> Nat]
    <3>0. \A x \in Nat : x + 1 \in Nat
      OBVIOUS
    <3> DEFINE cursor(s) == IF \E e \in EventIds : Closes(e) /\ events[e].session = s
                              THEN done[s] + 1 ELSE done[s]
    <3>1. \A s \in Sessions : cursor(s) \in Nat
      BY <1>d, <3>0, Zenon
    <3>2. done' = [s \in Sessions |-> cursor(s)]
      BY DEF RecoverTurnLeases
    <3> HIDE DEF cursor
    <3> QED  BY <3>1, <3>2
  <2> QED  BY <1>t, <1>4, <2>1, <2>2, <2>3, <2>4 DEF TurnTypeOK
<1>p. \A e \in EventIds : Present(e)' <=> Present(e)
  <2>1. \A e \in EventIds : Closes(e) => Present(e)
    BY RecoverFacts
  <2>2. \A e \in EventIds : Recovers(e) => Present(e)
    BY RecoverFacts DEF Present
  <2> QED  BY <1>1, <2>1, <2>2 DEF Present
<1>7. Sequenced'
  BY <1>t, <1>1, <1>4, <1>p DEF Sequenced
<1>8. CursorSplits'
  <2>c. \A e \in EventIds : Closes(e) =>
          /\ Present(e) /\ IsHead(e) /\ events[e].state = "running"
          /\ events[e].seq = done[events[e].session] + 1
          /\ events[e].seq <= next[events[e].session]
    BY <1>t, RecoverFacts DEF IsHead, Sequenced, Closes
  <2>1. \A s \in Sessions : done'[s] <= next'[s]
    BY <1>t, <1>4, <1>5, <1>d, <2>c DEF CursorSplits
  <2>2. ASSUME NEW f \in EventIds, Present(f)'
        PROVE  (events'[f].state = "completed") <=> (events'[f].seq <= done'[events'[f].session])
    <3>0. Present(f) /\ events[f].session \in Sessions
      BY <1>a, <1>p, <2>2
    <3>1. CASE Closes(f)
      <4>1. done'[events[f].session] = done[events[f].session] + 1
        BY <1>5, <3>0, <3>1
      <4> QED  BY <1>1, <1>a, <2>c, <3>1, <4>1
    <3>2. CASE ~Closes(f)
      <4>1. (events'[f].state = "completed") <=> (events[f].state = "completed")
        BY <1>1, <3>2, RecoverFacts
      <4>2. (events[f].state = "completed") <=> (events[f].seq <= done[events[f].session])
        BY <1>t, <3>0 DEF CursorSplits
      <4>3. CASE \E e \in EventIds : Closes(e) /\ events[e].session = events[f].session
        <5>1. PICK e \in EventIds : Closes(e) /\ events[e].session = events[f].session
          BY <4>3
        <5>2. events[f].seq # done[events[f].session] + 1
          BY <1>t, <2>c, <3>0, <3>2, <5>1 DEF Sequenced
        <5>3. done'[events[f].session] = done[events[f].session] + 1
          BY <1>5, <3>0, <4>3
        <5> QED  BY <1>1, <1>a, <1>d, <3>0, <4>1, <4>2, <5>2, <5>3
      <4>4. CASE ~\E e \in EventIds : Closes(e) /\ events[e].session = events[f].session
        BY <1>1, <1>5, <3>0, <4>1, <4>2, <4>4
      <4> QED  BY <4>3, <4>4
    <3> QED  BY <3>1, <3>2
  <2> QED  BY <2>1, <2>2 DEF CursorSplits
<1>9. TablesAgree'
  <2>1. \A e \in EventIds : events'[e].state # "running"
    BY <1>1, RecoverFacts
  <2> QED  BY <1>2, <2>1 DEF TablesAgree
<1>10. HeldIsCurrent'
  <2> SUFFICES ASSUME NEW e \in EventIds, NEW k \in Ordinals, Lifecycle(e, k)'
               PROVE  events'[e].state = "completed"
    BY DEF HeldIsCurrent
  <2>1. Lifecycle(e, k)
    BY <1>3 DEF Lifecycle
  <2>2. CASE events[e].state = "completed"
    BY <1>1, <2>2, RecoverFacts
  <2>3. CASE events[e].state = "running"
    BY <1>1, <2>1, <2>3, RecoverFacts
  <2> QED  BY <1>t, <2>1, <2>2, <2>3 DEF HeldIsCurrent
<1> QED  BY <1>1, <1>2, <1>3, <1>6, <1>7, <1>8, <1>9, <1>10 DEF StoreInv

-------------------------------------------------------------------------------
(* What the coordinator knows of the store it works on.                        *)

\* QueueTypeOK without the store's part.
HostTypeOK ==
  /\ now \in 0..bound.time /\ \A e \in EventIds : events[e].at <= bound.time
  /\ worker \in 0..MaxWorkers /\ up \in BOOLEAN /\ scan \in BOOLEAN
  /\ timer \in {NoTimer} \cup 0..MaxTime
  /\ tasks \in [EventIds -> [Attempts -> Task]]
  /\ budget \in 0..bound.faults /\ bound \in Bounds
  /\ commits \in [EventIds -> Nat]

\* Running turns are those of the coordinator that is up: its start recovered all others.
TurnsOfTheLiving ==
  up => \A e \in EventIds, a \in Attempts :
          turns[e][a].status = "running" => turns[e][a].worker = worker

Staged == {"held", "committed", "refused", "confirmed"}

\* A handler that has staged a mutation has its held row in the store.
StagedHasRow ==
  \A e \in EventIds, a \in Attempts : tasks[e][a].pc \in Staged =>
    \E k \in Ordinals :
      k = tasks[e][a].ordinal /\ Lifecycle(e, k) /\ said[e][k].attempt = a

\* The held rows of an event are of one attempt, and its handler is past the emission.
HeldByOne ==
  /\ \A e \in EventIds, k, l \in Ordinals :
       Lifecycle(e, k) /\ Lifecycle(e, l) => said[e][k].attempt = said[e][l].attempt
  /\ \A e \in EventIds, k \in Ordinals, a \in Attempts :
       Lifecycle(e, k) /\ said[e][k].attempt = a => tasks[e][a].pc \notin {"queued", "run"}

\* Commits are counted by what their handler has passed.
CommitsCounted ==
  /\ \A e \in EventIds : commits[e] <= 1 /\ (commits[e] > 0 => \E k \in Ordinals : Lifecycle(e, k))
  /\ \A e \in EventIds, a \in Attempts :
       /\ tasks[e][a].pc = "held" => commits[e] = 0
       /\ tasks[e][a].pc \in {"committed", "confirmed"} => commits[e] = 1

MutationInv == StagedHasRow /\ HeldByOne /\ CommitsCounted /\ ConfirmationIsTrue

QueueInv == StoreInv /\ HostTypeOK /\ TurnsOfTheLiving /\ MutationInv /\ NoSleepingTurn

--------------------------------------------------------------------------------
(* What steps have in common *)

\* A step that keeps the rows, all of them or up to the release of held ones.
RowsKept ==
  /\ KeepsRows
  /\ \A e \in EventIds, k \in Ordinals :
       /\ Lifecycle(e, k)' <=> Lifecycle(e, k)
       /\ said'[e][k].attempt = said[e][k].attempt
       /\ said'[e][k].hold = "released" => said[e][k].hold = "released" \/ commits[e] = 1

\* A step of tasks that stages no mutation and commits none.
TasksKept ==
  /\ UNCHANGED commits
  /\ \A e \in EventIds, a \in Attempts :
       /\ tasks'[e][a].pc \in Staged =>
            tasks[e][a].pc \in Staged /\ tasks'[e][a].ordinal = tasks[e][a].ordinal
       /\ tasks'[e][a].pc = "held" => tasks[e][a].pc = "held"
       /\ tasks'[e][a].pc \in {"committed", "confirmed"} =>
            tasks[e][a].pc \in {"committed", "confirmed"}
       /\ tasks'[e][a].pc \in {"queued", "run"} =>
            tasks[e][a].pc \in {"queued", "run"} \/ \A k \in Ordinals : ~Lifecycle(e, k)

\* Steps that neither stage nor commit a mutation leave the account of it as it was.
LEMMA MutationKept ==
  ASSUME MutationInv, RowsKept, TasksKept
  PROVE  MutationInv'
<1>1. StagedHasRow'
  BY DEF MutationInv, StagedHasRow, RowsKept, TasksKept
<1>2. HeldByOne'
  BY DEF MutationInv, HeldByOne, RowsKept, TasksKept
<1>3. CommitsCounted'
  BY DEF MutationInv, CommitsCounted, RowsKept, TasksKept
<1>4. ConfirmationIsTrue'
  BY DEF MutationInv, ConfirmationIsTrue, RowsKept, TasksKept
<1> QED  BY <1>1, <1>2, <1>3, <1>4 DEF MutationInv

\* No row is touched.
LEMMA RowsUnchanged ==
  ASSUME UNCHANGED said
  PROVE  RowsKept
BY DEF RowsKept, KeepsRows, Lifecycle

\* One task changes.
LEMMA OneTask ==
  ASSUME tasks \in [EventIds -> [Attempts -> Task]], NEW e \in EventIds, NEW a \in Attempts,
         NEW t \in Task, tasks' = [tasks EXCEPT ![e][a] = t]
  PROVE  /\ tasks' \in [EventIds -> [Attempts -> Task]]
         /\ tasks'[e][a] = t
         /\ \A f \in EventIds, b \in Attempts : f # e \/ b # a => tasks'[f][b] = tasks[f][b]
OBVIOUS

\* What the bound of a behaviour is, and how far the clock and the coordinators have come.
LEMMA BoundFacts ==
  ASSUME HostTypeOK
  PROVE  /\ bound \in Bound /\ bound.time \in 0..MaxTime /\ bound.faults \in Nat
         /\ bound.workers \in 0..MaxWorkers
         /\ MaxTime \in Nat /\ MaxWorkers \in Nat
         /\ now \in Nat /\ now \in 0..MaxTime /\ now <= bound.time
         /\ worker \in Nat /\ budget \in Nat
<1>1. bound \in Bound /\ MaxTime \in Nat /\ MaxWorkers \in Nat
  BY TurnAssumption, QueueAssumption DEF HostTypeOK
<1>2. bound.time \in 0..MaxTime /\ bound.faults \in Nat /\ bound.workers \in 0..MaxWorkers
  BY <1>1 DEF Bound
<1> QED  BY <1>1, <1>2 DEF HostTypeOK

\* A disturbance is paid for from the budget.
LEMMA DisturbTypes ==
  ASSUME HostTypeOK, NEW kind, Disturb(kind)
  PROVE  budget' \in 0..bound'.faults /\ bound' \in Bounds /\ bound' = bound
BY BoundFacts DEF Disturb, HostTypeOK

\* The account of rows and turns at the end of a turn.
LEMMA EndedFacts ==
  ASSUME StoreInv, NEW e \in EventIds, NEW a \in Attempts, NEW outcome \in Ended,
         turns' = [turns EXCEPT ![e][a] = EndedTurn(outcome)], said' = NeutralizedRows(e, a)
  PROVE  /\ RowsKept
         /\ \A f \in EventIds, b \in Attempts :
              turns'[f][b].status = "running" => turns'[f][b] = turns[f][b]
<1>t. /\ turns \in [EventIds -> [Attempts -> Turn]]
      /\ \A f \in EventIds, k \in Ordinals : said[f][k] \in Said
  BY DEF StoreInv, TurnTypeOK
<1>1. \A f \in EventIds, b \in Attempts :
        turns'[f][b] = IF f = e /\ b = a THEN EndedTurn(outcome) ELSE turns[f][b]
  BY <1>t
<1>2. \A f \in EventIds, b \in Attempts :
        turns'[f][b].status = "running" => turns'[f][b] = turns[f][b]
  BY <1>1 DEF EndedTurn, Ended
<1>3. \A f \in EventIds, k \in Ordinals :
        said[f][k].hold # "held" => said'[f][k] = said[f][k]
  BY <1>t DEF NeutralizedRows, Neutralized
<1>4. RowsKept
  BY <1>3, NeutralizedFacts DEF RowsKept, KeepsRows, Lifecycle
<1> QED  BY <1>2, <1>4

\* The timer is armed from the earliest deadline there is.
LEMMA EarliestIsLeast ==
  ASSUME NEW W \in SUBSET Nat, W # {}
  PROVE  EarliestOf(W) \in W /\ \A t \in W : EarliestOf(W) <= t
<1> DEFINE less == OpToRel(<, Nat)
<1>1. IsWellFoundedOn(less, Nat)
  BY NatLessThanWellFounded
<1>2. \A t, u \in Nat : ~(<<u, t>> \in less) => t <= u
  BY DEF OpToRel
<1> HIDE DEF less
<1>3. \E t \in W : \A u \in W : ~(<<u, t>> \in less)
  BY <1>1, WFMin
<1>4. \E t \in W : \A u \in W : t <= u
  BY <1>2, <1>3
<1> QED  BY <1>4 DEF EarliestOf

\* Steps outside the store leave its invariant alone.
LEMMA StoreUnchanged ==
  ASSUME StoreInv, UNCHANGED turnVars
  PROVE  StoreInv' /\ RowsKept
<1>1. UNCHANGED <<events, filled, turns, said, next, done>>
  BY DEF turnVars
<1>2. TurnTypeOK' /\ Sequenced' /\ CursorSplits' /\ TablesAgree' /\ HeldIsCurrent'
  BY <1>1 DEF StoreInv, TurnTypeOK, Sequenced, CursorSplits, TablesAgree, HeldIsCurrent, Present,
              IsHead, Lifecycle
<1> QED  BY <1>1, <1>2, RowsUnchanged DEF StoreInv

\* Nothing to wait for changes, and a scan that is due stays due.
LEMMA WakeKept ==
  ASSUME NoSleepingTurn, UNCHANGED <<events, turns, done, up, timer>>, scan => scan'
  PROVE  NoSleepingTurn'
BY DEF NoSleepingTurn, Waiting, IsHead, Busy

\* Turns end or go on under the coordinator that is up.
LEMMA LivingKept ==
  ASSUME TurnsOfTheLiving, up' => up /\ worker' = worker,
         \A e \in EventIds, a \in Attempts :
           turns'[e][a].status = "running" => turns'[e][a] = turns[e][a]
  PROVE  TurnsOfTheLiving'
BY DEF TurnsOfTheLiving

\* No task moves.
LEMMA TasksUnchanged ==
  ASSUME UNCHANGED <<tasks, commits>>
  PROVE  TasksKept
BY DEF TasksKept

--------------------------------------------------------------------------------
(* The wake's operations *)

\* An enqueued event is seen by the scan that follows.
LEMMA EnqueueStep ==
  ASSUME QueueInv, NEW s \in Sessions, NEW at \in 0..MaxTime, Enqueue(s, at)
  PROVE  QueueInv' /\ KeepsRows
<1>1. StoreInv /\ HostTypeOK /\ TurnsOfTheLiving /\ MutationInv
  BY DEF QueueInv
<1>2. Body \in Bodies /\ NoKey \in Keys
  BY TurnAssumption DEF Body
<1>3. EnqueueEvent(s, NoKey, Body, at) /\ ~IsDuplicate(s, NoKey)
  BY DEF Enqueue, IsDuplicate
<1>4. StoreInv'
  BY <1>1, <1>2, <1>3, EnqueueKeeps
<1>5. UNCHANGED <<turns, said, now, worker, up, budget, bound, timer, tasks, commits>> /\ scan' = TRUE
  BY <1>3 DEF Enqueue, EnqueueEvent, hostVars
<1>6. HostTypeOK'
  <2>1. \A e \in EventIds : events'[e] = events[e] \/ events'[e].at = at
    BY <1>1, <1>3 DEF EnqueueEvent, PendingEvent, StoreInv, TurnTypeOK
  <2>2. \A e \in EventIds : events'[e].at <= bound.time
    BY <1>1, <2>1 DEF HostTypeOK, Enqueue
  <2> QED  BY <1>1, <1>5, <2>2 DEF HostTypeOK
<1>7. TurnsOfTheLiving' /\ NoSleepingTurn'
  BY <1>1, <1>5 DEF TurnsOfTheLiving, NoSleepingTurn
<1>8. RowsKept /\ TasksKept
  BY <1>5, RowsUnchanged, TasksUnchanged
<1> QED  BY <1>1, <1>4, <1>6, <1>7, <1>8, MutationKept DEF QueueInv, RowsKept

\* So is a moved deadline.
LEMMA DeadlineStep ==
  ASSUME QueueInv, NEW e \in EventIds, NEW at \in 0..MaxTime,
         MoveDeadline(e, at) \/ Reschedule(e, at)
  PROVE  QueueInv' /\ KeepsRows
<1>1. StoreInv /\ HostTypeOK /\ TurnsOfTheLiving /\ MutationInv
  BY DEF QueueInv
<1>2. Body \in Bodies
  BY TurnAssumption DEF Body
<1>3. UpdateActiveEvent(e, at, Body) \/ ReschedulePendingEvent(e, at)
  BY DEF MoveDeadline, Reschedule
<1>4. StoreInv'
  BY <1>1, <1>2, <1>3, UpdateActiveKeeps, RescheduleKeeps
<1>5. /\ UNCHANGED <<turns, said, now, worker, up, bound, timer, tasks, commits>>
      /\ scan' = TRUE /\ at <= bound.time /\ budget' \in 0..bound'.faults
  <2>1. CASE MoveDeadline(e, at)
    BY <1>1, <2>1 DEF MoveDeadline, UpdateActiveEvent, hostVars, HostTypeOK
  <2>2. CASE Reschedule(e, at)
    BY <1>1, <2>2, DisturbTypes DEF Reschedule, ReschedulePendingEvent
  <2> QED  BY <2>1, <2>2
<1>6. HostTypeOK'
  <2>0. \A f \in EventIds : events[f] \in Event
    BY <1>1 DEF StoreInv, TurnTypeOK
  <2>1. \A f \in EventIds : events'[f] = events[f] \/ events'[f].at = at
    BY <1>1, <1>3, <2>0 DEF UpdateActiveEvent, ReschedulePendingEvent, StoreInv, TurnTypeOK, Event
  <2>2. \A f \in EventIds : events'[f].at <= bound.time
    BY <1>1, <1>5, <2>1 DEF HostTypeOK
  <2> QED  BY <1>1, <1>5, <2>2 DEF HostTypeOK
<1>7. TurnsOfTheLiving' /\ NoSleepingTurn'
  BY <1>1, <1>5 DEF TurnsOfTheLiving, NoSleepingTurn
<1>8. RowsKept /\ TasksKept
  BY <1>5, RowsUnchanged, TasksUnchanged
<1> QED  BY <1>1, <1>4, <1>6, <1>7, <1>8, MutationKept DEF QueueInv, RowsKept

\* The timer turns into a due scan when it fires; time alone moves nothing.
LEMMA ClockStep ==
  ASSUME QueueInv, TimerFires \/ Tick
  PROVE  QueueInv' /\ KeepsRows
<1>1. StoreInv /\ HostTypeOK /\ TurnsOfTheLiving /\ MutationInv /\ NoSleepingTurn
  BY DEF QueueInv
<1>2. /\ UNCHANGED <<turnVars, worker, up, budget, bound, tasks, commits>>
      /\ timer' \in {timer, NoTimer} /\ scan' \in {scan, TRUE} /\ now' \in 0..bound.time
      /\ scan' = TRUE \/ UNCHANGED <<scan, timer>>
  <2>1. CASE TimerFires
    BY <1>1, <2>1 DEF TimerFires, hostVars, HostTypeOK
  <2>2. CASE Tick
    <3>1. now' \in 0..bound.time
      BY <1>1, <2>2, BoundFacts DEF Tick
    <3> QED  BY <2>2, <3>1 DEF Tick
  <2> QED  BY <2>1, <2>2
<1>3. UNCHANGED <<events, turns, done>>
  BY <1>2 DEF turnVars
<1>4. StoreInv' /\ RowsKept /\ TasksKept
  BY <1>1, <1>2, StoreUnchanged, TasksUnchanged
<1>5. HostTypeOK'
  BY <1>1, <1>2, <1>3 DEF HostTypeOK
<1>6. TurnsOfTheLiving'
  BY <1>1, <1>2, <1>3 DEF TurnsOfTheLiving
<1>7. NoSleepingTurn'
  <2>1. CASE scan' = TRUE
    BY <2>1 DEF NoSleepingTurn
  <2>2. CASE UNCHANGED <<scan, timer>>
    BY <1>1, <1>2, <1>3, <2>2, WakeKept
  <2> QED  BY <1>2, <2>1, <2>2
<1> QED  BY <1>1, <1>4, <1>5, <1>6, <1>7, MutationKept DEF QueueInv, RowsKept

--------------------------------------------------------------------------------
(* The scan *)

\* A scan that claims some of the claimable events arms the timer for all that still wait.
LEMMA ScanStep ==
  ASSUME QueueInv, NEW C \in SUBSET EventIds, \A e \in C : ClaimableAt(e, now),
         up, ScanTurns(C), UNCHANGED bound, budget' \in 0..bound.faults
  PROVE  QueueInv' /\ KeepsRows
<1>1. StoreInv /\ HostTypeOK /\ TurnsOfTheLiving /\ MutationInv
  BY DEF QueueInv
<1>t. /\ TurnTypeOK /\ HeldIsCurrent
      /\ \A e \in EventIds : /\ events[e] \in Event /\ events[e].at \in 0..MaxTime
                             /\ events[e].attempts \in Nat
  <2>1. TurnTypeOK /\ HeldIsCurrent
    BY <1>1 DEF StoreInv
  <2> QED  BY <2>1 DEF TurnTypeOK, Event
<1>2. ClaimTurns(C, worker) /\ worker \in Nat
  BY <1>1, BoundFacts DEF ScanTurns
<1>3. \A e \in C : /\ Waiting(e) /\ events[e].attempts < MaxAttempts
                   /\ events[e].attempts + 1 \in Attempts
  <2>1. \A e \in C : Waiting(e) /\ events[e].attempts < MaxAttempts
    BY DEF ClaimableAt
  <2> QED  BY <1>t, <2>1, TurnAssumption DEF Attempts
<1>4. StoreInv'
  BY <1>1, <1>2, <1>3, ClaimKeeps
<1>5. UNCHANGED <<now, worker, up, said, done, commits>> /\ scan' = FALSE
  BY DEF ScanTurns, ClaimTurns
<1>6. \A e \in EventIds, a \in Attempts :
        /\ turns'[e][a] = (IF e \in C /\ a = events[e].attempts + 1
                             THEN [status |-> "running", worker |-> worker] ELSE turns[e][a])
        /\ tasks'[e][a] = (IF e \in C /\ a = events[e].attempts + 1
                             THEN NewTask(e) ELSE tasks[e][a])
  <2>1. turns' = [e \in EventIds |-> [a \in Attempts |->
                    IF e \in C /\ a = events[e].attempts + 1
                      THEN [status |-> "running", worker |-> worker] ELSE turns[e][a]]]
    BY <1>2 DEF ClaimTurns
  <2>2. tasks' = [e \in EventIds |-> [a \in Attempts |->
                    IF e \in C /\ a = events[e].attempts + 1 THEN NewTask(e) ELSE tasks[e][a]]]
    BY DEF ScanTurns
  <2>3. \A e \in EventIds, a \in Attempts :
          turns'[e][a] = (IF e \in C /\ a = events[e].attempts + 1
                            THEN [status |-> "running", worker |-> worker] ELSE turns[e][a])
    BY ONLY <2>1, Zenon
  <2>4. \A e \in EventIds, a \in Attempts :
          tasks'[e][a] = (IF e \in C /\ a = events[e].attempts + 1
                            THEN NewTask(e) ELSE tasks[e][a])
    BY ONLY <2>2, Zenon
  <2> QED  BY ONLY <2>3, <2>4, Zenon
<1>7. \A e \in EventIds :
        /\ e \notin C => events'[e] = events[e]
        /\ e \in C => /\ events'[e].state = "running" /\ events'[e].at = events[e].at
                      /\ events'[e].session = events[e].session
  BY <1>2, <1>t DEF ClaimTurns, Event
<1>8. timer' = EarliestOf(WaitingDeadlines(C))
  BY DEF ScanTurns
<1>9. WaitingDeadlines(C) \subseteq 0..MaxTime
  BY <1>t DEF WaitingDeadlines
<1>m. WaitingDeadlines(C) # {} =>
        /\ timer' \in WaitingDeadlines(C)
        /\ \A t \in WaitingDeadlines(C) : timer' <= t
  BY <1>8, <1>9, EarliestIsLeast
<1>10. HostTypeOK'
  <2>1. timer' \in {NoTimer} \cup 0..MaxTime
    BY <1>8, <1>9, <1>m DEF EarliestOf
  <2>2. \A e \in EventIds : NewTask(e) \in Task
    BY <1>1, <1>t DEF NewTask, NoTask, Task, NoWorker, HostTypeOK
  <2>3. tasks' \in [EventIds -> [Attempts -> Task]]
    <3>1. \A e \in EventIds, a \in Attempts : tasks[e][a] \in Task
      BY <1>1 DEF HostTypeOK
    <3> QED  BY <2>2, <3>1 DEF ScanTurns
  <2>4. \A e \in EventIds : events'[e].at <= bound.time
    BY <1>1, <1>7 DEF HostTypeOK
  <2> QED  BY <1>1, <1>5, <2>1, <2>3, <2>4 DEF HostTypeOK
<1>11. TurnsOfTheLiving'
  BY <1>1, <1>5, <1>6 DEF TurnsOfTheLiving
<1>12. RowsKept
  BY <1>5, RowsUnchanged
<1>13. TasksKept
  <2>1. \A e \in C, k \in Ordinals : ~Lifecycle(e, k)
    BY <1>t, <1>3 DEF HeldIsCurrent, Waiting
  <2>2. \A e \in EventIds : NewTask(e).pc = "queued"
    BY DEF NewTask, NoTask
  <2> QED  BY <1>5, <1>6, <2>1, <2>2 DEF TasksKept, Staged
<1>14. NoSleepingTurn'
  <2> SUFFICES ASSUME NEW e \in EventIds, Waiting(e)'
               PROVE  timer' # NoTimer /\ timer' <= events'[e].at
    BY DEF NoSleepingTurn
  <2>1. e \notin C /\ events'[e] = events[e]
    BY <1>7 DEF Waiting
  <2>2. \A c \in C : events[c].session # events[e].session
    <3>1. \A f \in EventIds, a \in Attempts :
            ~(events'[f].session = events[e].session /\ turns'[f][a].status = "running")
      BY <2>1 DEF Waiting, Busy
    <3>2. \A c \in C : \E a \in Attempts : turns'[c][a].status = "running"
      BY <1>3, <1>6
    <3> QED  BY <1>7, <3>1, <3>2
  <2>3. ~Busy(events[e].session)
    <3> SUFFICES ASSUME NEW f \in EventIds, NEW a \in Attempts,
                        events[f].session = events[e].session, turns[f][a].status = "running"
                 PROVE  FALSE
      BY DEF Busy
    <3>1. f \notin C
      BY <2>2
    <3>2. turns'[f][a].status = "running" /\ events'[f] = events[f]
      BY <1>6, <1>7, <3>1
    <3> QED  BY <2>1, <3>2 DEF Waiting, Busy
  <2>4. Waiting(e)
    BY <1>5, <2>1, <2>3 DEF Waiting, IsHead
  <2>5. events[e].at \in WaitingDeadlines(C)
    BY <2>2, <2>4 DEF WaitingDeadlines
  <2> QED  BY <1>9, <1>m, <2>1, <2>5 DEF NoTimer
<1> QED  BY <1>1, <1>4, <1>10, <1>11, <1>12, <1>13, <1>14, MutationKept DEF QueueInv, RowsKept

--------------------------------------------------------------------------------
(* The process *)

\* The first resume of a coordinator ends every turn of its predecessors.
LEMMA StartStep ==
  ASSUME QueueInv, Start
  PROVE  QueueInv' /\ KeepsRows
<1>1. StoreInv /\ HostTypeOK /\ MutationInv
  BY DEF QueueInv
<1>2. RecoverTurnLeases(now) /\ now \in 0..MaxTime
  BY <1>1, BoundFacts DEF Start
<1>3. /\ StoreInv'
      /\ \A e \in EventIds, a \in Attempts : turns'[e][a].status # "running"
      /\ \A e \in EventIds, k \in Ordinals :
           /\ said'[e][k].text = said[e][k].text /\ said'[e][k].attempt = said[e][k].attempt
           /\ said[e][k].hold # "held" => said'[e][k] = said[e][k]
           /\ said[e][k].hold = "held" => said'[e][k].hold \in {"held", "fallback_released"}
      /\ \A e \in EventIds : events'[e].at \in {events[e].at, now}
  BY <1>1, <1>2, RecoverKeeps
<1>4. UNCHANGED <<now, timer, tasks, budget, bound, commits>> /\ up' = TRUE /\ scan' = TRUE
      /\ worker' = worker + 1 /\ worker < bound.workers
  BY DEF Start
<1>5. RowsKept /\ TasksKept
  <2>1. RowsKept
    BY <1>3 DEF RowsKept, KeepsRows, Lifecycle
  <2> QED  BY <1>4, <2>1, TasksUnchanged
<1>6. HostTypeOK'
  <2>1. worker' \in 0..MaxWorkers
    BY <1>1, <1>4, BoundFacts
  <2>2. \A e \in EventIds : events'[e].at <= bound.time
    BY <1>1, <1>3, BoundFacts DEF HostTypeOK
  <2> QED  BY <1>1, <1>4, <2>1, <2>2 DEF HostTypeOK
<1>7. TurnsOfTheLiving' /\ NoSleepingTurn'
  BY <1>3, <1>4 DEF TurnsOfTheLiving, NoSleepingTurn
<1> QED  BY <1>1, <1>3, <1>5, <1>6, <1>7, MutationKept DEF QueueInv, RowsKept

\* A stopped or crashed coordinator watches nothing, and its handlers stage nothing new.
LEMMA DownStep ==
  ASSUME QueueInv, Stop \/ Crash
  PROVE  QueueInv' /\ KeepsRows
<1>1. StoreInv /\ HostTypeOK /\ MutationInv
  BY DEF QueueInv
<1>2. UNCHANGED <<turnVars, now, worker, commits>> /\ up' = FALSE /\ scan' = FALSE
      /\ timer' = NoTimer /\ bound' = bound /\ budget' \in 0..bound'.faults
  BY <1>1, DisturbTypes DEF Stop, Crash
<1>t. \A e \in EventIds, a \in Attempts : tasks[e][a] \in Task
  BY <1>1 DEF HostTypeOK
<1>3. /\ tasks' \in [EventIds -> [Attempts -> Task]]
      /\ \A e \in EventIds, a \in Attempts :
           \/ tasks'[e][a].pc = "none"
           \/ /\ tasks'[e][a].pc = tasks[e][a].pc
              /\ tasks'[e][a].ordinal = tasks[e][a].ordinal
  <2>1. CASE Stop
    <3>1. \A e \in EventIds, a \in Attempts :
            /\ [tasks[e][a] EXCEPT !.aborted = TRUE] \in Task
            /\ [tasks[e][a] EXCEPT !.aborted = TRUE].pc = tasks[e][a].pc
            /\ [tasks[e][a] EXCEPT !.aborted = TRUE].ordinal = tasks[e][a].ordinal
      BY <1>t DEF Task
    <3> QED  BY <1>t, <2>1, <3>1 DEF Stop
  <2>2. CASE Crash
    <3>1. NoTask \in Task /\ NoTask.pc = "none"
      BY <1>1, BoundFacts DEF NoTask, Task, NoWorker
    <3> QED  BY <2>2, <3>1 DEF Crash
  <2> QED  BY <2>1, <2>2
<1>4. StoreInv' /\ RowsKept
  BY <1>1, <1>2, StoreUnchanged
<1>5. TasksKept
  BY <1>2, <1>3 DEF TasksKept, Staged
<1>6. HostTypeOK'
  BY <1>1, <1>2, <1>3 DEF HostTypeOK, turnVars
<1>7. TurnsOfTheLiving' /\ NoSleepingTurn'
  BY <1>2 DEF TurnsOfTheLiving, NoSleepingTurn
<1> QED  BY <1>1, <1>4, <1>5, <1>6, <1>7, MutationKept DEF QueueInv, RowsKept

--------------------------------------------------------------------------------
(* How a task ends *)

\* One task moves to a state that stages and commits no mutation.
LEMMA TaskMoves ==
  ASSUME HostTypeOK, NEW e \in EventIds, NEW a \in Attempts, NEW t \in Task,
         tasks' = [tasks EXCEPT ![e][a] = t], UNCHANGED commits,
         t.pc \in Staged => tasks[e][a].pc \in Staged /\ t.ordinal = tasks[e][a].ordinal,
         t.pc = "held" => tasks[e][a].pc = "held",
         t.pc \in {"committed", "confirmed"} => tasks[e][a].pc \in {"committed", "confirmed"},
         t.pc \in {"queued", "run"} => tasks[e][a].pc \in {"queued", "run"}
  PROVE  TasksKept /\ tasks' \in [EventIds -> [Attempts -> Task]]
<1>1. /\ tasks' \in [EventIds -> [Attempts -> Task]]
      /\ tasks'[e][a] = t
      /\ \A f \in EventIds, b \in Attempts : f # e \/ b # a => tasks'[f][b] = tasks[f][b]
  BY OneTask DEF HostTypeOK
<1>2. ASSUME NEW f \in EventIds, NEW b \in Attempts
      PROVE  /\ tasks'[f][b].pc \in Staged =>
                  tasks[f][b].pc \in Staged /\ tasks'[f][b].ordinal = tasks[f][b].ordinal
             /\ tasks'[f][b].pc = "held" => tasks[f][b].pc = "held"
             /\ tasks'[f][b].pc \in {"committed", "confirmed"} =>
                  tasks[f][b].pc \in {"committed", "confirmed"}
             /\ tasks'[f][b].pc \in {"queued", "run"} => tasks[f][b].pc \in {"queued", "run"}
  <2>1. CASE f = e /\ b = a
    BY <1>1, <2>1
  <2>2. CASE f # e \/ b # a
    BY <1>1, <2>2
  <2> QED  BY <2>1, <2>2
<1> QED  BY <1>1, <1>2 DEF TasksKept

\* The end of a task is such a move.
LEMMA EndMoves ==
  ASSUME HostTypeOK, NEW e \in EventIds, NEW a \in Attempts, NEW final \in BOOLEAN,
         End(e, a, final)
  PROVE  TasksKept /\ tasks' \in [EventIds -> [Attempts -> Task]]
<1> DEFINE t == [tasks[e][a] EXCEPT !.pc = "over", !.final = final]
<1>1. tasks[e][a] \in Task
  BY DEF HostTypeOK
<1>2. t \in Task /\ t.pc = "over"
  BY <1>1 DEF Task
<1>3. tasks' = [tasks EXCEPT ![e][a] = t] /\ UNCHANGED commits
  BY DEF End, HostTypeOK
<1> HIDE DEF t
<1> QED  BY <1>2, <1>3, TaskMoves DEF Staged

\* A task that ends, or that the actor no longer waits for, schedules a scan unless its
\* coordinator is gone: what it writes, the scan will see.
LEMMA EndStep ==
  ASSUME QueueInv, NEW e \in EventIds, NEW a \in Attempts,
         StoreInv', RowsKept, TasksKept, tasks' \in [EventIds -> [Attempts -> Task]],
         \A f \in EventIds, b \in Attempts :
           turns'[f][b].status = "running" => turns'[f][b] = turns[f][b],
         \A f \in EventIds : events'[f].at <= bound.time,
         up => Mine(e, a) \/ UNCHANGED <<events, turns, done>>,
         scan' = Rescan(e, a), UNCHANGED <<timer, now, worker, up, bound, commits>>,
         budget' \in 0..bound.faults
  PROVE  QueueInv' /\ KeepsRows
<1>1. HostTypeOK /\ TurnsOfTheLiving /\ MutationInv /\ NoSleepingTurn
  BY DEF QueueInv
<1>2. HostTypeOK'
  BY <1>1 DEF HostTypeOK, Rescan, Mine
<1>3. TurnsOfTheLiving'
  BY <1>1, LivingKept
<1>4. NoSleepingTurn'
  <2>1. CASE up /\ UNCHANGED <<events, turns, done>>
    BY <1>1, <2>1, WakeKept DEF Rescan
  <2>2. CASE up /\ Mine(e, a)
    BY <2>2 DEF NoSleepingTurn, Rescan
  <2>3. CASE ~up
    BY <2>3 DEF NoSleepingTurn
  <2> QED  BY <2>1, <2>2, <2>3
<1> QED  BY <1>1, <1>2, <1>3, <1>4, MutationKept DEF QueueInv, RowsKept

\* A turn that may still be written is one of the coordinator that is up, if one is.
LEMMA WritersAreMine ==
  ASSUME QueueInv, NEW e \in EventIds, NEW a \in Attempts, CanFinish(e, a)
  PROVE  /\ turns[e][a].status = "running"
         /\ up => Mine(e, a)
BY DEF QueueInv, TurnsOfTheLiving, CanFinish, RunsFor, Mine

\* A turn that runs its handler, past no emission of a held row, has none.
LEMMA NothingHeld ==
  ASSUME QueueInv, NEW e \in EventIds, NEW a \in Attempts,
         turns[e][a].status = "running", tasks[e][a].pc \in {"queued", "run"}
  PROVE  \A k \in Ordinals : ~Lifecycle(e, k)
<1>1. events[e].state = "running" /\ events[e].attempts = a
  BY RunningFacts DEF QueueInv
<1> QED  BY <1>1 DEF QueueInv, StoreInv, HeldIsCurrent, MutationInv, HeldByOne

\* What a finished turn leaves.
LEMMA FinishWrites ==
  ASSUME QueueInv, NEW e \in EventIds, NEW a \in Attempts, NEW outcome \in Ended,
         turns[e][a].status = "running", FinishTurn(e, a, outcome)
  PROVE  /\ StoreInv' /\ RowsKept
         /\ \A f \in EventIds, b \in Attempts :
              turns'[f][b].status = "running" => turns'[f][b] = turns[f][b]
         /\ \A f \in EventIds : events'[f].at <= bound.time
<1>1. StoreInv /\ HostTypeOK
  BY DEF QueueInv
<1>2. TurnOutcome(e, a, outcome) \in Ended
  BY DEF TurnOutcome, Ended
<1>3. StoreInv'
  BY <1>1, FinishKeeps
<1>4. \A f \in EventIds : events[f] \in Event
  BY <1>1 DEF StoreInv, TurnTypeOK
<1>5. \A f \in EventIds : events'[f].at = events[f].at
  BY <1>1, <1>4 DEF FinishTurn, StoreInv, TurnTypeOK, Event
<1>6. \A f \in EventIds : events'[f].at <= bound.time
  BY <1>1, <1>5 DEF HostTypeOK
<1>7. /\ turns' = [turns EXCEPT ![e][a] = EndedTurn(TurnOutcome(e, a, outcome))]
      /\ said' = NeutralizedRows(e, a)
  BY DEF FinishTurn
<1> QED  BY <1>1, <1>2, <1>3, <1>6, <1>7, EndedFacts

\* What an interrupted turn leaves.
LEMMA InterruptWrites ==
  ASSUME QueueInv, NEW e \in EventIds, NEW a \in Attempts,
         turns[e][a].status = "running", tasks[e][a].pc = "run", InterruptTurn(e, a)
  PROVE  /\ StoreInv' /\ RowsKept
         /\ \A f \in EventIds, b \in Attempts :
              turns'[f][b].status = "running" => turns'[f][b] = turns[f][b]
         /\ \A f \in EventIds : events'[f].at <= bound.time
<1>1. StoreInv /\ HostTypeOK
  BY DEF QueueInv
<1>2. \A k \in Ordinals : ~Lifecycle(e, k)
  BY NothingHeld
<1>3. StoreInv'
  BY <1>1, <1>2, InterruptKeeps
<1>4. \A f \in EventIds : events[f] \in Event
  BY <1>1 DEF StoreInv, TurnTypeOK
<1>5. \A f \in EventIds : events'[f].at = events[f].at
  BY <1>1, <1>4 DEF InterruptTurn, StoreInv, TurnTypeOK, Event
<1>6. \A f \in EventIds : events'[f].at <= bound.time
  BY <1>1, <1>5 DEF HostTypeOK
<1>7. /\ turns' = [turns EXCEPT ![e][a] = EndedTurn("interrupted")]
      /\ said' = NeutralizedRows(e, a) /\ "interrupted" \in Ended
  BY DEF InterruptTurn, Ended
<1> QED  BY <1>1, <1>3, <1>6, <1>7, EndedFacts

\* What a hand-off leaves, whether it is carried out or given up.
LEMMA HandoffWrites ==
  ASSUME QueueInv, NEW e \in EventIds, NEW a \in Attempts, NEW s \in Sessions, NEW expected,
         turns[e][a].status = "running", tasks[e][a].pc = "run", s # events[e].session,
         HandoffTurn(e, a, s, NoKey, Body, expected, now)
  PROVE  /\ StoreInv' /\ RowsKept
         /\ \A f \in EventIds, b \in Attempts :
              turns'[f][b].status = "running" => turns'[f][b] = turns[f][b]
         /\ \A f \in EventIds : events'[f].at <= bound.time
<1>1. StoreInv /\ HostTypeOK
  BY DEF QueueInv
<1>2. Body \in Bodies /\ now \in 0..MaxTime /\ now <= bound.time
  BY <1>1, TurnAssumption, BoundFacts DEF Body
<1>3. CASE InterruptTurn(e, a)
  BY <1>3, InterruptWrites
<1>4. CASE HandOff(e, a, s, NoKey, Body, now)
  <2>1. StoreInv'
    BY <1>1, <1>2, <1>4, HandOffKeeps
  <2>2. \A f \in EventIds : events[f] \in Event
    BY <1>1 DEF StoreInv, TurnTypeOK
  <2>3. \A f \in EventIds : events'[f].at = events[f].at \/ events'[f].at = now
    <3>1. events' = [[events EXCEPT ![e].state = "completed"]
                       EXCEPT ![filled + 1] = PendingEvent(s, next[s] + 1, NoKey, Body, now)]
      BY <1>4 DEF HandOff, IsDuplicate
    <3>2. \A f \in EventIds :
            \/ events'[f] = events[f]
            \/ events'[f] = [events[e] EXCEPT !.state = "completed"] /\ f = e
            \/ events'[f] = PendingEvent(s, next[s] + 1, NoKey, Body, now)
      BY <1>1, <3>1 DEF StoreInv, TurnTypeOK
    <3> QED  BY <2>2, <3>2 DEF PendingEvent, Event
  <2>4. \A f \in EventIds : events'[f].at <= bound.time
    BY <1>1, <1>2, <2>3 DEF HostTypeOK
  <2>5. /\ turns' = [turns EXCEPT ![e][a] = EndedTurn("no_reply")]
        /\ said' = NeutralizedRows(e, a) /\ "no_reply" \in Ended
    BY <1>4 DEF HandOff, Ended
  <2> QED  BY <1>1, <2>1, <2>4, <2>5, EndedFacts
<1> QED  BY <1>3, <1>4 DEF HandoffTurn

\* What a step without a write leaves.
LEMMA StoreRests ==
  ASSUME QueueInv, UNCHANGED turnVars
  PROVE  /\ StoreInv' /\ RowsKept
         /\ \A f \in EventIds, b \in Attempts :
              turns'[f][b].status = "running" => turns'[f][b] = turns[f][b]
         /\ \A f \in EventIds : events'[f].at <= bound.time
         /\ UNCHANGED <<events, turns, done>>
BY StoreUnchanged DEF QueueInv, HostTypeOK, turnVars

\* The budget stays within its bound.
LEMMA BudgetFacts ==
  ASSUME QueueInv
  PROVE  /\ UNCHANGED <<budget, bound>> => budget' \in 0..bound.faults
         /\ \A kind : Disturb(kind) => budget' \in 0..bound.faults /\ UNCHANGED bound
BY DisturbTypes DEF QueueInv, HostTypeOK

\* Every way a handler ends: its result applied, refused or lost.
LEMMA EndingStep ==
  ASSUME QueueInv, NEW e \in EventIds, NEW a \in Attempts,
         \/ HandlerFails(e, a) \/ FailUnwritten(e, a)
         \/ \E outcome \in Result : Finish(e, a, outcome)
         \/ \E s \in Sessions : Handoff(e, a, s)
         \/ HandoffFails(e, a) \/ HandoffUnwritten(e, a)
  PROVE  QueueInv' /\ KeepsRows
<1> DEFINE Writes ==
      /\ StoreInv' /\ RowsKept
      /\ \A f \in EventIds, b \in Attempts :
           turns'[f][b].status = "running" => turns'[f][b] = turns[f][b]
      /\ \A f \in EventIds : events'[f].at <= bound.time
<1>1. ASSUME NEW final \in BOOLEAN, End(e, a, final), Writes,
             up => Mine(e, a) \/ UNCHANGED <<events, turns, done>>,
             UNCHANGED bound, budget' \in 0..bound.faults
      PROVE  QueueInv' /\ KeepsRows
  <2>1. TasksKept /\ tasks' \in [EventIds -> [Attempts -> Task]]
    BY <1>1, EndMoves DEF QueueInv
  <2>2. scan' = Rescan(e, a) /\ UNCHANGED <<timer, now, worker, up, commits>>
    BY <1>1 DEF End
  <2> QED  BY <1>1, <2>1, <2>2, EndStep
<1>2. CASE HandlerFails(e, a)
  <2>1. End(e, a, TRUE) /\ UNCHANGED bound /\ budget' \in 0..bound.faults
    BY <1>2, BudgetFacts DEF HandlerFails, Fail
  <2>2. CASE tasks[e][a].final \/ ~Mine(e, a) \/ ~CanFinish(e, a)
    <3>1. UNCHANGED turnVars
      BY <1>2, <2>2 DEF HandlerFails, Fail
    <3>2. Writes /\ UNCHANGED <<events, turns, done>>
      BY <3>1, StoreRests
    <3> QED  BY <1>1, <2>1, <3>2
  <2>3. CASE ~(tasks[e][a].final \/ ~Mine(e, a) \/ ~CanFinish(e, a))
    <3>1. FinishTurn(e, a, FailureOutcome(e, a)) /\ FailureOutcome(e, a) \in Ended
      BY <1>2, <2>3 DEF HandlerFails, Fail, FailureOutcome, Ended
    <3>2. turns[e][a].status = "running"
      BY <2>3, WritersAreMine
    <3>3. Writes
      BY <3>1, <3>2, FinishWrites
    <3> QED  BY <1>1, <2>1, <2>3, <3>3
  <2> QED  BY <2>2, <2>3
<1>3. CASE FailUnwritten(e, a) \/ HandoffUnwritten(e, a)
  <2>1. PICK final \in BOOLEAN : End(e, a, final)
    BY <1>3 DEF FailUnwritten, HandoffUnwritten
  <2>2. UNCHANGED turnVars /\ UNCHANGED bound /\ budget' \in 0..bound.faults
    BY <1>3, BudgetFacts DEF FailUnwritten, HandoffUnwritten
  <2>3. Writes /\ UNCHANGED <<events, turns, done>>
    BY <2>2, StoreRests
  <2> QED  BY <1>1, <2>1, <2>2, <2>3
<1>4. CASE \E outcome \in Result : Finish(e, a, outcome)
  <2>1. PICK outcome \in Result : Finish(e, a, outcome)
    BY <1>4
  <2>2. /\ FinishTurn(e, a, outcome) /\ outcome \in Ended /\ CanFinish(e, a)
        /\ End(e, a, TRUE) /\ UNCHANGED bound /\ budget' \in 0..bound.faults
    BY <2>1, BudgetFacts DEF Finish, Result, Ended
  <2>3. turns[e][a].status = "running" /\ (up => Mine(e, a))
    BY <2>2, WritersAreMine
  <2>4. Writes
    BY <2>2, <2>3, FinishWrites
  <2> QED  BY <1>1, <2>2, <2>3, <2>4
<1>5. CASE \E s \in Sessions : Handoff(e, a, s)
  <2>1. PICK s \in Sessions : Handoff(e, a, s)
    BY <1>5
  <2>2. /\ HandoffTurn(e, a, s, NoKey, Body, tasks[e][a].expected, now)
        /\ tasks[e][a].pc = "run" /\ s # events[e].session /\ CanFinish(e, a)
        /\ End(e, a, TRUE) /\ UNCHANGED bound /\ budget' \in 0..bound.faults
    BY <2>1, BudgetFacts DEF Handoff
  <2>3. turns[e][a].status = "running" /\ (up => Mine(e, a))
    BY <2>2, WritersAreMine
  <2>4. Writes
    BY <2>2, <2>3, HandoffWrites
  <2> QED  BY <1>1, <2>2, <2>3, <2>4
<1>6. CASE HandoffFails(e, a)
  <2>1. /\ InterruptTurn(e, a) /\ tasks[e][a].pc = "run" /\ CanFinish(e, a)
        /\ End(e, a, TRUE) /\ UNCHANGED bound /\ budget' \in 0..bound.faults
    BY <1>6, BudgetFacts DEF HandoffFails
  <2>2. turns[e][a].status = "running" /\ (up => Mine(e, a))
    BY <2>1, WritersAreMine
  <2>3. Writes
    BY <2>1, <2>2, InterruptWrites
  <2> QED  BY <1>1, <2>1, <2>2, <2>3
<1> QED  BY <1>2, <1>3, <1>4, <1>5, <1>6

\* The actor gives up a task whose handler runs on.
LEMMA TimeoutStep ==
  ASSUME QueueInv, NEW e \in EventIds, NEW a \in Attempts, NEW written \in BOOLEAN,
         ActorTimesOut(e, a, written)
  PROVE  QueueInv' /\ KeepsRows
<1> DEFINE t == [tasks[e][a] EXCEPT !.late = TRUE, !.final = @ \/ Mine(e, a)]
<1>1. HostTypeOK /\ tasks[e][a] \in Task
  BY DEF QueueInv, HostTypeOK
<1>2. t \in Task /\ t.pc = tasks[e][a].pc /\ t.ordinal = tasks[e][a].ordinal
  BY <1>1 DEF Task
<1>3. /\ tasks' = [tasks EXCEPT ![e][a] = t]
      /\ scan' = Rescan(e, a) /\ UNCHANGED <<timer, now, worker, up, commits>>
  BY <1>1 DEF ActorTimesOut, HostTypeOK
<1>4. UNCHANGED bound /\ budget' \in 0..bound.faults
  BY BudgetFacts DEF ActorTimesOut
<1>5. TasksKept /\ tasks' \in [EventIds -> [Attempts -> Task]]
  <2> HIDE DEF t
  <2> QED  BY <1>1, <1>2, <1>3, TaskMoves
<1>6. CASE written /\ ~tasks[e][a].final /\ Mine(e, a) /\ CanFinish(e, a)
  <2>1. FinishTurn(e, a, "timed_out") /\ "timed_out" \in Ended
    BY <1>6 DEF ActorTimesOut, Ended
  <2>2. turns[e][a].status = "running"
    BY <1>6, WritersAreMine
  <2> QED  BY <1>3, <1>4, <1>5, <1>6, <2>1, <2>2, FinishWrites, EndStep
<1>7. CASE ~(written /\ ~tasks[e][a].final /\ Mine(e, a) /\ CanFinish(e, a))
  <2>1. UNCHANGED turnVars
    BY <1>7 DEF ActorTimesOut
  <2> QED  BY <1>3, <1>4, <1>5, <2>1, StoreRests, EndStep
<1> QED  BY <1>6, <1>7

--------------------------------------------------------------------------------
(* The handler *)

\* Steps of a task that neither end it nor move an event.
LEMMA HandlerStep ==
  ASSUME QueueInv, StoreInv', MutationInv', KeepsRows,
         tasks' \in [EventIds -> [Attempts -> Task]], commits' \in [EventIds -> Nat],
         UNCHANGED <<events, turns, done, now, worker, up, scan, timer, bound>>,
         budget' \in 0..bound.faults
  PROVE  QueueInv' /\ KeepsRows
<1>1. HostTypeOK /\ TurnsOfTheLiving /\ NoSleepingTurn
  BY DEF QueueInv
<1>2. HostTypeOK'
  BY <1>1 DEF HostTypeOK
<1>3. TurnsOfTheLiving' /\ NoSleepingTurn'
  BY <1>1, LivingKept, WakeKept
<1> QED  BY <1>2, <1>3 DEF QueueInv

\* Tasks that start, are refused their commit, or lose their claim.
LEMMA BeginStep ==
  ASSUME QueueInv, NEW e \in EventIds, NEW a \in Attempts,
         Begin(e, a) \/ CommitRefused(e, a) \/ RenewFails(e, a)
  PROVE  QueueInv' /\ KeepsRows
<1>1. HostTypeOK /\ MutationInv /\ tasks[e][a] \in Task
  BY DEF QueueInv, HostTypeOK
<1>2. /\ UNCHANGED turnVars /\ UNCHANGED <<now, worker, up, scan, timer, bound, commits>>
      /\ budget' \in 0..bound.faults
  BY BudgetFacts DEF Begin, CommitRefused, RenewFails, hostVars
<1>3. PICK t \in Task :
        /\ tasks' = [tasks EXCEPT ![e][a] = t] /\ t.ordinal = tasks[e][a].ordinal
        /\ \/ t.pc = tasks[e][a].pc
           \/ tasks[e][a].pc = "queued" /\ t.pc = "run"
           \/ tasks[e][a].pc = "held" /\ t.pc = "refused"
  <2>1. CASE Begin(e, a)
    <3> DEFINE t == [tasks[e][a] EXCEPT !.pc = "run"]
    <3>1. t \in Task /\ t.pc = "run" /\ tasks[e][a].pc = "queued"
         /\ t.ordinal = tasks[e][a].ordinal
      BY <1>1, <2>1 DEF Task, Begin
    <3>2. tasks' = [tasks EXCEPT ![e][a] = t]
      BY <1>1, <2>1 DEF Begin, HostTypeOK
    <3> HIDE DEF t
    <3> QED  BY <3>1, <3>2
  <2>2. CASE CommitRefused(e, a)
    <3> DEFINE t == [tasks[e][a] EXCEPT !.pc = "refused"]
    <3>1. t \in Task /\ t.pc = "refused" /\ tasks[e][a].pc = "held"
         /\ t.ordinal = tasks[e][a].ordinal
      BY <1>1, <2>2 DEF Task, CommitRefused
    <3>2. tasks' = [tasks EXCEPT ![e][a] = t]
      BY <1>1, <2>2 DEF CommitRefused, HostTypeOK
    <3> HIDE DEF t
    <3> QED  BY <3>1, <3>2
  <2>3. CASE RenewFails(e, a)
    <3> DEFINE t == [tasks[e][a] EXCEPT !.aborted = TRUE]
    <3>1. t \in Task /\ t.pc = tasks[e][a].pc /\ t.ordinal = tasks[e][a].ordinal
      BY <1>1, <2>3 DEF Task
    <3>2. tasks' = [tasks EXCEPT ![e][a] = t]
      BY <1>1, <2>3 DEF RenewFails, HostTypeOK
    <3> HIDE DEF t
    <3> QED  BY <3>1, <3>2
  <2> QED  BY <2>1, <2>2, <2>3
<1>4. TasksKept /\ tasks' \in [EventIds -> [Attempts -> Task]]
  BY <1>1, <1>2, <1>3, TaskMoves DEF Staged
<1>5. StoreInv' /\ RowsKept /\ UNCHANGED <<events, turns, done>>
  BY <1>2, StoreRests
<1>6. MutationInv' /\ KeepsRows
  BY <1>1, <1>4, <1>5, MutationKept DEF RowsKept
<1>7. commits' \in [EventIds -> Nat]
  BY <1>1, <1>2 DEF HostTypeOK
<1> QED  BY <1>2, <1>4, <1>5, <1>6, <1>7, HandlerStep

\* The first held row of an event is appended before any mutation of it is committed.
LEMMA EmitStep ==
  ASSUME QueueInv, NEW e \in EventIds, NEW a \in Attempts, NEW k \in Ordinals,
         NEW text \in Texts, NEW held \in BOOLEAN, Emit(e, a, k, text, held)
  PROVE  QueueInv' /\ KeepsRows
<1> DEFINE t == [tasks[e][a] EXCEPT !.ordinal = k, !.pc = IF held THEN "held" ELSE @]
           row == [hold |-> IF held THEN "held" ELSE "none", text |-> text, attempt |-> a]
           repeated == said[e][k].hold # "absent" /\ said[e][k].text = text
<1>1. StoreInv /\ HostTypeOK /\ MutationInv /\ tasks[e][a] \in Task
  BY DEF QueueInv, HostTypeOK
<1>2. /\ turns[e][a].status = "running" /\ tasks[e][a].pc = "run"
      /\ AppendTurnOutbox(e, a, k, text, held)
      /\ said[e][k].hold # "absent" => said[e][k].text = text
      /\ held => said[e][k].hold # "none"
  BY DEF Emit, CanAppend, RunsFor
<1>3. \A l \in Ordinals : ~Lifecycle(e, l)
  BY <1>2, NothingHeld
<1>4. /\ StoreInv'
      /\ \A f \in EventIds, l \in Ordinals : f # e \/ l # k \/ repeated => said'[f][l] = said[f][l]
      /\ ~repeated => said'[e][k] = row
  BY <1>1, <1>2, AppendKeeps
<1>5. t \in Task /\ t.pc = (IF held THEN "held" ELSE "run") /\ t.ordinal = k
  BY <1>1, <1>2 DEF Task
<1>6. tasks' = [tasks EXCEPT ![e][a] = t]
  BY <1>1 DEF Emit, HostTypeOK
<1>7. UNCHANGED <<events, turns, done, now, worker, up, scan, timer, bound, budget, commits>>
  BY DEF Emit, AppendTurnOutbox, hostVars
<1>8. KeepsRows
  BY <1>2, <1>4 DEF KeepsRows
<1>9. budget' \in 0..bound.faults /\ commits' \in [EventIds -> Nat]
  BY <1>1, <1>7 DEF HostTypeOK
<1>t. /\ tasks' \in [EventIds -> [Attempts -> Task]]
      /\ tasks'[e][a] = t
      /\ \A f \in EventIds, b \in Attempts : f # e \/ b # a => tasks'[f][b] = tasks[f][b]
  <2> HIDE DEF t
  <2> QED  BY <1>1, <1>5, <1>6, OneTask DEF HostTypeOK
<1>10. CASE ~held
  <2>1. \A f \in EventIds, l \in Ordinals :
          said'[f][l] = said[f][l] \/ (~Lifecycle(f, l)' /\ f = e /\ l = k)
    <3>1. row.hold = "none"
      BY <1>10
    <3>2. ~repeated => ~Lifecycle(e, k)'
      BY <1>4, <3>1 DEF Lifecycle
    <3> HIDE DEF row
    <3> QED  BY <1>4, <3>2
  <2>2. \A f \in EventIds, l \in Ordinals :
          /\ Lifecycle(f, l)' <=> Lifecycle(f, l)
          /\ Lifecycle(f, l) => said'[f][l] = said[f][l]
          /\ said'[f][l].hold = "released" => said[f][l].hold = "released"
    BY <1>3, <2>1 DEF Lifecycle
  <2>3. \A f \in EventIds, b \in Attempts :
          /\ tasks'[f][b].pc = tasks[f][b].pc
          /\ tasks[f][b].pc \in Staged => tasks'[f][b] = tasks[f][b]
    <3>1. t.pc = tasks[e][a].pc /\ tasks[e][a].pc \notin Staged
      BY <1>2, <1>5, <1>10 DEF Staged
    <3> HIDE DEF t
    <3> QED  BY <1>t, <3>1
  <2>4. StagedHasRow' /\ HeldByOne'
    BY <1>1, <2>2, <2>3 DEF MutationInv, StagedHasRow, HeldByOne
  <2>5. CommitsCounted' /\ ConfirmationIsTrue'
    BY <1>1, <1>7, <2>2, <2>3 DEF MutationInv, CommitsCounted, ConfirmationIsTrue
  <2>6. MutationInv'
    BY <2>4, <2>5 DEF MutationInv
  <2> QED  BY <1>4, <1>7, <1>8, <1>9, <1>t, <2>6, HandlerStep
<1>11. CASE held
  <2>0. ~repeated
    BY <1>2, <1>3, <1>11 DEF Lifecycle
  <2>1. said'[e][k].hold = "held" /\ said'[e][k].attempt = a
    BY <1>4, <1>11, <2>0
  <2>2. \A f \in EventIds, l \in Ordinals : f # e \/ l # k => said'[f][l] = said[f][l]
    BY <1>4
  <2>3. t.pc = "held" /\ t.ordinal = k
    BY <1>5, <1>11
  <2>4. commits[e] = 0
    BY <1>1, <1>3 DEF MutationInv, CommitsCounted, HostTypeOK
  <2> HIDE DEF t, row, repeated
  <2>5. \A l \in Ordinals : Lifecycle(e, l)' <=> l = k
    BY <1>3, <2>1, <2>2 DEF Lifecycle
  <2>6. \A f \in EventIds, l \in Ordinals : f # e => (Lifecycle(f, l)' <=> Lifecycle(f, l))
    BY <2>2 DEF Lifecycle
  <2>7. \A b \in Attempts : tasks[e][b].pc \notin Staged
    BY <1>1, <1>3 DEF MutationInv, StagedHasRow
  <2>8. StagedHasRow'
    <3> SUFFICES ASSUME NEW f \in EventIds, NEW b \in Attempts, tasks'[f][b].pc \in Staged
                 PROVE  \E l \in Ordinals :
                          l = tasks'[f][b].ordinal /\ Lifecycle(f, l)' /\ said'[f][l].attempt = b
      BY DEF StagedHasRow
    <3>1. CASE f = e
      <4>1. b = a
        BY <1>t, <2>7, <3>1
      <4> QED  BY <1>t, <2>1, <2>3, <2>5, <3>1, <4>1
    <3>2. CASE f # e
      BY <1>1, <1>t, <2>2, <2>6, <3>2 DEF MutationInv, StagedHasRow
    <3> QED  BY <3>1, <3>2
  <2>9. HeldByOne'
    <3>1. \A f \in EventIds, l, m \in Ordinals :
            Lifecycle(f, l)' /\ Lifecycle(f, m)' => said'[f][l].attempt = said'[f][m].attempt
      BY <1>1, <2>2, <2>5, <2>6 DEF MutationInv, HeldByOne
    <3>2. ASSUME NEW f \in EventIds, NEW l \in Ordinals, NEW b \in Attempts,
                 Lifecycle(f, l)', said'[f][l].attempt = b
          PROVE  tasks'[f][b].pc \notin {"queued", "run"}
      <4>1. CASE f = e
        <5>1. l = k /\ b = a
          BY <2>1, <2>5, <3>2, <4>1
        <5> QED  BY <1>t, <2>3, <4>1, <5>1
      <4>2. CASE f # e
        BY <1>1, <1>t, <2>2, <2>6, <3>2, <4>2 DEF MutationInv, HeldByOne
      <4> QED  BY <4>1, <4>2
    <3> QED  BY <3>1, <3>2 DEF HeldByOne
  <2>10. CommitsCounted'
    <3>1. \A f \in EventIds :
            commits'[f] <= 1 /\ (commits'[f] > 0 => \E l \in Ordinals : Lifecycle(f, l)')
      <4>1. \A f \in EventIds : commits[f] > 0 => f # e
        BY <2>4
      <4> QED  BY <1>1, <1>7, <2>6, <4>1 DEF MutationInv, CommitsCounted
    <3>2. ASSUME NEW f \in EventIds, NEW b \in Attempts
          PROVE  /\ tasks'[f][b].pc = "held" => commits'[f] = 0
                 /\ tasks'[f][b].pc \in {"committed", "confirmed"} => commits'[f] = 1
      <4>1. CASE f = e /\ b = a
        BY <1>7, <1>t, <2>3, <2>4, <4>1
      <4>2. CASE ~(f = e /\ b = a)
        BY <1>1, <1>7, <1>t, <4>2 DEF MutationInv, CommitsCounted
      <4> QED  BY <4>1, <4>2
    <3> QED  BY <3>1, <3>2 DEF CommitsCounted
  <2>11. ConfirmationIsTrue'
    <3> SUFFICES ASSUME NEW f \in EventIds, NEW l \in Ordinals, said'[f][l].hold = "released"
                 PROVE  commits'[f] = 1
      BY DEF ConfirmationIsTrue
    <3>1. f # e \/ l # k
      BY <2>1
    <3> QED  BY <1>1, <1>7, <2>2, <3>1 DEF MutationInv, ConfirmationIsTrue
  <2>12. MutationInv'
    BY <2>8, <2>9, <2>10, <2>11 DEF MutationInv
  <2> QED  BY <1>4, <1>7, <1>8, <1>9, <1>t, <2>12, HandlerStep
<1> QED  BY <1>10, <1>11

\* The staged mutation of an event is committed by the one handler that holds its row.
LEMMA CommitStep ==
  ASSUME QueueInv, NEW e \in EventIds, NEW a \in Attempts, Commit(e, a)
  PROVE  QueueInv' /\ KeepsRows
<1> DEFINE t == [tasks[e][a] EXCEPT !.pc = "committed"]
<1>1. StoreInv /\ HostTypeOK /\ MutationInv /\ tasks[e][a] \in Task
  BY DEF QueueInv, HostTypeOK
<1>2. /\ tasks[e][a].pc = "held" /\ UNCHANGED turnVars
      /\ UNCHANGED <<now, worker, up, scan, timer, bound, budget>>
  BY DEF Commit, hostVars
<1>3. t \in Task /\ t.pc = "committed" /\ t.ordinal = tasks[e][a].ordinal
  BY <1>1 DEF Task
<1>4. tasks' = [tasks EXCEPT ![e][a] = t]
  BY <1>1 DEF Commit, HostTypeOK
<1>t. /\ tasks' \in [EventIds -> [Attempts -> Task]]
      /\ tasks'[e][a] = t
      /\ \A f \in EventIds, b \in Attempts : f # e \/ b # a => tasks'[f][b] = tasks[f][b]
  <2> HIDE DEF t
  <2> QED  BY <1>1, <1>3, <1>4, OneTask DEF HostTypeOK
<1> HIDE DEF t
<1>5. commits[e] = 0
  BY <1>1, <1>2 DEF MutationInv, CommitsCounted
<1>6. /\ commits' \in [EventIds -> Nat] /\ commits'[e] = 1
      /\ \A f \in EventIds : f # e => commits'[f] = commits[f]
  BY <1>1, <1>5 DEF Commit, HostTypeOK
<1>7. StoreInv' /\ KeepsRows /\ UNCHANGED <<said, events, turns, done>>
  BY <1>2, StoreRests DEF RowsKept, turnVars
<1>8. \E k \in Ordinals : Lifecycle(e, k) /\ said[e][k].attempt = a
  BY <1>1, <1>2 DEF MutationInv, StagedHasRow, Staged
<1>9. \A b \in Attempts : b # a => tasks[e][b].pc \notin Staged
  BY <1>1, <1>8 DEF MutationInv, StagedHasRow, HeldByOne
<1>10. \A f \in EventIds, k \in Ordinals : Lifecycle(f, k)' <=> Lifecycle(f, k)
  BY <1>7 DEF Lifecycle
<1>11. StagedHasRow'
  <2> SUFFICES ASSUME NEW f \in EventIds, NEW b \in Attempts, tasks'[f][b].pc \in Staged
               PROVE  \E k \in Ordinals :
                        k = tasks'[f][b].ordinal /\ Lifecycle(f, k)' /\ said'[f][k].attempt = b
    BY DEF StagedHasRow
  <2>1. tasks[f][b].pc \in Staged /\ tasks'[f][b].ordinal = tasks[f][b].ordinal
    BY <1>2, <1>3, <1>t DEF Staged
  <2> QED  BY <1>1, <1>7, <1>10, <2>1 DEF MutationInv, StagedHasRow
<1>12. HeldByOne'
  <2>1. \A f \in EventIds, b \in Attempts :
          tasks'[f][b].pc \in {"queued", "run"} => tasks[f][b].pc \in {"queued", "run"}
    BY <1>3, <1>t
  <2> QED  BY <1>1, <1>7, <1>10, <2>1 DEF MutationInv, HeldByOne
<1>13. CommitsCounted'
  <2>1. \A f \in EventIds :
          commits'[f] <= 1 /\ (commits'[f] > 0 => \E k \in Ordinals : Lifecycle(f, k)')
    BY <1>1, <1>6, <1>8, <1>10 DEF MutationInv, CommitsCounted
  <2>2. ASSUME NEW f \in EventIds, NEW b \in Attempts
        PROVE  /\ tasks'[f][b].pc = "held" => commits'[f] = 0
               /\ tasks'[f][b].pc \in {"committed", "confirmed"} => commits'[f] = 1
    <3>1. CASE f # e
      BY <1>1, <1>6, <1>t, <3>1 DEF MutationInv, CommitsCounted
    <3>2. CASE f = e /\ b = a
      BY <1>3, <1>6, <1>t, <3>2
    <3>3. CASE f = e /\ b # a
      BY <1>9, <1>t, <3>3 DEF Staged
    <3> QED  BY <3>1, <3>2, <3>3
  <2> QED  BY <2>1, <2>2 DEF CommitsCounted
<1>14. ConfirmationIsTrue'
  <2>1. \A k \in Ordinals : said[e][k].hold # "released"
    BY <1>1, <1>5 DEF MutationInv, ConfirmationIsTrue
  <2> QED  BY <1>1, <1>6, <1>7, <2>1 DEF MutationInv, ConfirmationIsTrue
<1>15. MutationInv'
  BY <1>11, <1>12, <1>13, <1>14 DEF MutationInv
<1>16. budget' \in 0..bound.faults
  BY <1>1, <1>2 DEF HostTypeOK
<1> QED  BY <1>2, <1>6, <1>7, <1>15, <1>16, <1>t, HandlerStep

\* A held row is released as confirmed after its commit only.
LEMMA ReleaseStep ==
  ASSUME QueueInv, NEW e \in EventIds, NEW a \in Attempts, Release(e, a)
  PROVE  QueueInv' /\ KeepsRows
<1> DEFINE k == tasks[e][a].ordinal
           outcome == HeldOutcome(tasks[e][a].pc)
           t == [tasks[e][a] EXCEPT !.pc = IF @ = "committed" THEN "confirmed" ELSE @]
<1>1. StoreInv /\ HostTypeOK /\ MutationInv /\ tasks[e][a] \in Task
  BY DEF QueueInv, HostTypeOK
<1>2. /\ tasks[e][a].pc \in {"committed", "refused"}
      /\ CanRelease(e, k, outcome) /\ ReleaseHeld(e, k, outcome)
      /\ outcome \in {"released", "fallback_released"}
      /\ outcome = "released" => commits[e] = 1
      /\ UNCHANGED <<now, worker, up, scan, timer, bound, budget, commits>>
  <2>1. outcome = "released" => tasks[e][a].pc = "committed"
    BY DEF HeldOutcome
  <2>2. outcome = "released" => commits[e] = 1
    BY <1>1, <2>1 DEF MutationInv, CommitsCounted
  <2> QED  BY <2>2 DEF Release, hostVars, HeldOutcome
<1>3. /\ t \in Task /\ t.ordinal = tasks[e][a].ordinal
      /\ \/ t.pc = tasks[e][a].pc
         \/ tasks[e][a].pc = "committed" /\ t.pc = "confirmed"
  BY <1>1 DEF Task
<1>4. tasks' = [tasks EXCEPT ![e][a] = t]
  BY <1>1 DEF Release, HostTypeOK
<1>5. TasksKept /\ tasks' \in [EventIds -> [Attempts -> Task]]
  <2> HIDE DEF t
  <2> QED  BY <1>1, <1>2, <1>3, <1>4, TaskMoves DEF Staged
<1>h. k \in Ordinals
  BY <1>1, <1>2 DEF MutationInv, StagedHasRow, Staged
<1> HIDE DEF k, outcome, t
<1>6. /\ StoreInv'
      /\ \A f \in EventIds, l \in Ordinals :
           /\ Lifecycle(f, l)' <=> Lifecycle(f, l)
           /\ said'[f][l].attempt = said[f][l].attempt
           /\ said'[f][l].text = said[f][l].text
           /\ said'[f][l].hold = (IF f = e /\ l = k THEN outcome ELSE said[f][l].hold)
  BY <1>1, <1>2, <1>h, ReleaseKeeps
<1>7. \A f \in EventIds, l \in Ordinals : said[f][l] \in Said /\ said'[f][l] \in Said
  BY <1>1, <1>6 DEF StoreInv, TurnTypeOK
<1>8. \A f \in EventIds, l \in Ordinals :
        said'[f][l].hold = said[f][l].hold => said'[f][l] = said[f][l]
  BY <1>6, <1>7 DEF Said
<1>9. RowsKept
  <2>1. KeepsRows
    BY <1>2, <1>6, <1>8 DEF KeepsRows, CanRelease
  <2>2. \A f \in EventIds, l \in Ordinals :
          said'[f][l].hold = "released" => said[f][l].hold = "released" \/ commits[f] = 1
    BY <1>2, <1>6
  <2> QED  BY <1>6, <2>1, <2>2 DEF RowsKept
<1>10. MutationInv' /\ KeepsRows
  BY <1>1, <1>5, <1>9, MutationKept DEF RowsKept
<1>11. commits' \in [EventIds -> Nat] /\ budget' \in 0..bound.faults
  BY <1>1, <1>2 DEF HostTypeOK
<1>12. UNCHANGED <<events, turns, done>>
  BY <1>2 DEF ReleaseHeld
<1> QED  BY <1>2, <1>5, <1>6, <1>10, <1>11, <1>12, HandlerStep

--------------------------------------------------------------------------------
(* The theorems *)

\* The empty store satisfies the invariant.
LEMMA QueueInitial == Init => QueueInv
<1> SUFFICES ASSUME Init PROVE QueueInv
  OBVIOUS
<1>1. StoreInv
  BY StoreInitial DEF Init
<1>2. bound \in Bound /\ bound \in Bounds
  BY QueueAssumption DEF Init
<1>3. bound.time \in 0..MaxTime /\ bound.faults \in Nat
  BY <1>2 DEF Bound
<1>4. \A e \in EventIds : /\ events[e].at = 0
                          /\ \A k \in Ordinals : said[e][k].hold = "absent"
                          /\ \A a \in Attempts : turns[e][a].status = "none"
  BY DEF Init, TurnStoreInit, NoEvent, PendingEvent
<1>5. NoTask \in Task /\ NoTask.pc = "none"
  BY QueueAssumption, TurnAssumption DEF NoTask, Task, NoWorker
<1>6. HostTypeOK
  <2>1. tasks \in [EventIds -> [Attempts -> Task]] /\ commits \in [EventIds -> Nat]
    BY <1>5 DEF Init
  <2>2. worker \in 0..MaxWorkers /\ up \in BOOLEAN /\ scan \in BOOLEAN
    <3>1. worker = 0 /\ up \in BOOLEAN /\ scan \in BOOLEAN
      BY Zenon DEF Init, NoWorker
    <3> QED  BY <3>1, QueueAssumption
  <2>3. now \in 0..bound.time /\ budget \in 0..bound.faults
        /\ \A e \in EventIds : events[e].at <= bound.time
    BY <1>3, <1>4, TurnAssumption DEF Init
  <2> QED  BY <1>2, <2>1, <2>2, <2>3 DEF Init, HostTypeOK
<1>7. TurnsOfTheLiving /\ NoSleepingTurn
  BY DEF Init, TurnsOfTheLiving, NoSleepingTurn
<1>8. MutationInv
  <2>1. \A e \in EventIds, a \in Attempts : tasks[e][a].pc = "none"
    BY <1>5 DEF Init
  <2>2. \A e \in EventIds : commits[e] = 0
    BY DEF Init
  <2>3. \A e \in EventIds, k \in Ordinals : ~Lifecycle(e, k)
    BY <1>4 DEF Lifecycle
  <2>4. StagedHasRow /\ HeldByOne
    BY <2>1, <2>3 DEF StagedHasRow, HeldByOne, Staged
  <2>5. CommitsCounted /\ ConfirmationIsTrue
    BY <1>4, <2>1, <2>2 DEF CommitsCounted, ConfirmationIsTrue
  <2> QED  BY <2>4, <2>5 DEF MutationInv
<1> QED  BY <1>1, <1>6, <1>7, <1>8 DEF QueueInv

\* Every step keeps the invariant, and the rows.
LEMMA QueueStep ==
  ASSUME QueueInv, [Next]_vars
  PROVE  QueueInv' /\ (KeepsRows \/ UNCHANGED vars)
<1>1. ASSUME NEW s \in Sessions, NEW at \in 0..MaxTime, Enqueue(s, at)
      PROVE  QueueInv' /\ KeepsRows
  BY <1>1, EnqueueStep
<1>2. ASSUME NEW e \in EventIds, NEW at \in 0..MaxTime, MoveDeadline(e, at) \/ Reschedule(e, at)
      PROVE  QueueInv' /\ KeepsRows
  BY <1>2, DeadlineStep
<1>3. CASE Scan
  <2>1. up /\ ScanTurns({e \in EventIds : ClaimableAt(e, now)}) /\ UNCHANGED <<budget, bound>>
    BY <1>3 DEF Scan
  <2>2. budget' \in 0..bound.faults
    BY <2>1, BudgetFacts
  <2> QED  BY <2>1, <2>2, ScanStep
<1>4. CASE ScanFails
  <2>1. PICK C \in SUBSET {e \in EventIds : ClaimableAt(e, now)} : ScanTurns(C)
    BY <1>4 DEF ScanFails
  <2>2. up /\ budget' \in 0..bound.faults /\ UNCHANGED bound
    BY <1>4, BudgetFacts DEF ScanFails
  <2> QED  BY <2>1, <2>2, ScanStep
<1>5. CASE TimerFires \/ Tick
  BY <1>5, ClockStep
<1>6. ASSUME NEW e \in EventIds, NEW a \in Attempts, Handler(e, a)
      PROVE  QueueInv' /\ KeepsRows
  <2>1. CASE Begin(e, a) \/ CommitRefused(e, a)
    BY <2>1, BeginStep
  <2>2. CASE \E k \in Ordinals, text \in Texts, held \in BOOLEAN : Emit(e, a, k, text, held)
    BY <2>2, EmitStep
  <2>3. CASE Commit(e, a)
    BY <2>3, CommitStep
  <2>4. CASE Release(e, a)
    BY <2>4, ReleaseStep
  <2>5. CASE \/ HandlerFails(e, a) \/ FailUnwritten(e, a)
             \/ \E outcome \in Result : Finish(e, a, outcome)
             \/ \E s \in Sessions : Handoff(e, a, s)
             \/ HandoffFails(e, a) \/ HandoffUnwritten(e, a)
    BY <2>5, EndingStep
  <2> QED  BY <1>6, <2>1, <2>2, <2>3, <2>4, <2>5 DEF Handler
<1>7. ASSUME NEW e \in EventIds, NEW a \in Attempts, NEW written \in BOOLEAN,
             ActorTimesOut(e, a, written)
      PROVE  QueueInv' /\ KeepsRows
  BY <1>7, TimeoutStep
<1>8. ASSUME NEW e \in EventIds, NEW a \in Attempts, RenewFails(e, a)
      PROVE  QueueInv' /\ KeepsRows
  BY <1>8, BeginStep
<1>9. CASE Start
  BY <1>9, StartStep
<1>10. CASE Stop \/ Crash
  BY <1>10, DownStep
<1>11. CASE UNCHANGED vars
  <2>1. /\ UNCHANGED turnVars
        /\ UNCHANGED <<now, worker, up, scan, timer, tasks, budget, bound, commits>>
    BY <1>11 DEF vars
  <2>2. StoreInv' /\ RowsKept /\ TasksKept /\ UNCHANGED <<events, turns, done>>
    BY <2>1, StoreRests, TasksUnchanged
  <2>3. MutationInv' /\ KeepsRows
    BY <2>2, MutationKept DEF QueueInv, RowsKept
  <2>4. budget' \in 0..bound.faults
    BY <2>1, BudgetFacts
  <2> QED  BY <2>1, <2>2, <2>3, <2>4, HandlerStep DEF QueueInv, HostTypeOK
<1> QED
  BY <1>1, <1>2, <1>3, <1>4, <1>5, <1>6, <1>7, <1>8, <1>9, <1>10, <1>11 DEF Next

\* Whatever the handlers, the timer, the faults and the restarts do, the store's tables
\* agree and the account of staged mutations is right (sessionTurnStore.ts, the claim state).
THEOREM QueueInvariance == Spec => []QueueInv
<1>1. Init => QueueInv
  BY QueueInitial
<1>2. QueueInv /\ [Next]_vars => QueueInv'
  BY QueueStep
<1> QED  BY <1>1, <1>2, PTL DEF Spec

\* Running turns of a session are the latest attempt of its one head.
LEMMA OneRuns ==
  ASSUME StoreInv, NEW s \in Sessions
  PROVE  Cardinality(RunningTurns(s)) <= 1
<1>1. \A t, u \in RunningTurns(s) : t = u
  <2> SUFFICES ASSUME NEW t \in RunningTurns(s), NEW u \in RunningTurns(s)
               PROVE  t = u
    OBVIOUS
  <2>1. /\ t \in EventIds \X Attempts /\ u \in EventIds \X Attempts
        /\ events[t[1]].session = s /\ events[u[1]].session = s
        /\ turns[t[1]][t[2]].status = "running" /\ turns[u[1]][u[2]].status = "running"
    BY DEF RunningTurns
  <2>2. t[1] \in EventIds /\ t[2] \in Attempts /\ u[1] \in EventIds /\ u[2] \in Attempts
    BY <2>1
  <2>3. /\ events[t[1]].attempts = t[2] /\ IsHead(t[1]) /\ Present(t[1])
        /\ events[u[1]].attempts = u[2] /\ IsHead(u[1]) /\ Present(u[1])
    BY <2>1, <2>2, RunningFacts
  <2>4. t[1] = u[1]
    BY <2>1, <2>2, <2>3, OneHead
  <2>5. t[2] = u[2]
    BY <2>3, <2>4
  <2> QED  BY <2>1, <2>4, <2>5
<1>2. CASE RunningTurns(s) = {}
  <2>1. Cardinality(RunningTurns(s)) = 0
    BY <1>2, FS_EmptySet
  <2> QED  BY <2>1
<1>3. CASE RunningTurns(s) # {}
  <2>1. PICK t \in RunningTurns(s) : TRUE
    BY <1>3
  <2>2. RunningTurns(s) = {t}
    BY <1>1, <2>1
  <2>3. Cardinality(RunningTurns(s)) = 1
    BY <2>2, FS_Singleton
  <2> QED  BY <2>3
<1> QED  BY <1>2, <1>3

\* Turns run in their sessions' order: one at a time, the head's latest attempt, with the
\* cursor behind it (claimNextTurn, finishTurn, recoverTurnLeases).
THEOREM TurnsRunInOrder == Spec => []TurnsInOrder
<1>1. QueueInv => TurnsInOrder
  <2> SUFFICES ASSUME QueueInv PROVE TurnsInOrder
    OBVIOUS
  <2>1. TurnTypeOK /\ Sequenced /\ CursorSplits /\ TablesAgree /\ HostTypeOK
    BY DEF QueueInv, StoreInv
  <2>2. QueueTypeOK
    BY <2>1 DEF QueueTypeOK, HostTypeOK
  <2>3. OneRunningTurn
    <3>1. \A s \in Sessions : Cardinality(RunningTurns(s)) <= 1
      BY OneRuns DEF QueueInv
    <3>2. ASSUME NEW e \in EventIds
          PROVE  (events[e].state = "running") <=>
                   \E a \in Attempts :
                     turns[e][a].status = "running" /\ a = events[e].attempts /\ IsHead(e)
      <4>1. events[e].attempts > 0 => events[e].attempts \in Attempts
        BY <2>1 DEF TurnTypeOK, Event, Attempts
      <4> QED  BY <2>1, <4>1 DEF TablesAgree
    <3> QED  BY <3>1, <3>2 DEF OneRunningTurn
  <2>4. EventCursorSplits
    BY <2>1 DEF EventCursorSplits, CursorSplits, Present
  <2> QED  BY <2>2, <2>3, <2>4 DEF TurnsInOrder
<1> QED  BY <1>1, QueueInvariance, PTL

\* A staged configuration change is committed once per event and confirmed only when it
\* is, for every sequence of timeouts, crashes and retries (systemConfigReply.ts).
THEOREM ChangesAreTold == Spec => []ChangeIsTold
<1>1. QueueInv => ChangeIsTold
  BY DEF QueueInv, MutationInv, CommitsCounted, ChangeIsTold, MutationOnce
<1> QED  BY <1>1, QueueInvariance, PTL

\* No waiting turn sleeps past its deadline: a scan is due or the timer is early enough
\* (sessionTurnWake.ts).
THEOREM TurnsAreWoken == Spec => []NoSleepingTurn
<1>1. QueueInv => NoSleepingTurn
  BY DEF QueueInv
<1> QED  BY <1>1, QueueInvariance, PTL

\* What a turn appended stands, whatever its later attempts would say (appendTurnOutbox).
THEOREM RowsAreKept == Spec => RowsStand
<1>1. QueueInv /\ [Next]_vars => [KeepsRows]_vars
  BY QueueStep
<1> QED  BY <1>1, QueueInvariance, PTL DEF Spec, RowsStand

================================================================================
