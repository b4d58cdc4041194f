--------------------------- MODULE SessionActorProofs --------------------------
(* The session actor keeps its books, forgets nobody and implements the keyed  *)
(* queues, for any number of sessions, tasks and slots.                        *)
(*                                                                             *)
(* The safety parts of the runs' properties are inductive together with two    *)
(* facts: only a session at work settles, and while a call is in pump's loop   *)
(* the only waiter without a session is the one of the session it finishes.    *)
EXTENDS SessionActor, FiniteSetTheorems, TLAPS

Working == {s \in Sessions : IsActive(s)}

(* A task settles while it holds its session's slot.                           *)
SettledAtWork == settled \subseteq Working

(* A call that is under way may have deleted the session it finishes before it *)
(* looks at that session's waiters.                                            *)
WaitersFollowed == pumping => idleWaiters \subseteq sessions \cup {finishing}

ActorInv == SlotsAndQueues /\ NobodyForgotten /\ SettledAtWork /\ WaitersFollowed

Entries(seq) == {seq[i] : i \in DOMAIN seq}

Distinct(seq) == \A i, j \in DOMAIN seq : seq[i] = seq[j] => i = j

--------------------------------------------------------------------------------
(* The list of ready sessions                                                  *)

(* Appending a new element keeps a list free of repetitions.                   *)
LEMMA AppendEntry ==
  ASSUME NEW S, NEW seq \in Seq(S), NEW x \in S
  PROVE  /\ Append(seq, x) \in Seq(S)
         /\ Entries(Append(seq, x)) = Entries(seq) \cup {x}
         /\ Distinct(seq) /\ x \notin Entries(seq) => Distinct(Append(seq, x))
<1>1. /\ Append(seq, x) \in Seq(S) /\ DOMAIN Append(seq, x) = 1 .. Len(seq) + 1
      /\ DOMAIN seq = 1 .. Len(seq) /\ Len(seq) \in Nat
      /\ \A i \in 1 .. Len(seq) : Append(seq, x)[i] = seq[i]
      /\ Append(seq, x)[Len(seq) + 1] = x
  OBVIOUS
<1>2. \A i \in 1 .. Len(seq) + 1 : i \in 1 .. Len(seq) \/ i = Len(seq) + 1
  BY <1>1
<1>3. \A i \in 1 .. Len(seq) : i \in 1 .. Len(seq) + 1
  BY <1>1
<1>3a. Len(seq) + 1 \in 1 .. Len(seq) + 1
  BY <1>1
<1>4. Entries(Append(seq, x)) = Entries(seq) \cup {x}
  <2>1. Entries(Append(seq, x)) \subseteq Entries(seq) \cup {x}
    BY <1>1, <1>2 DEF Entries
  <2>2. Entries(seq) \cup {x} \subseteq Entries(Append(seq, x))
    BY <1>1, <1>3, <1>3a DEF Entries
  <2> QED  BY <2>1, <2>2
<1>5. Distinct(seq) /\ x \notin Entries(seq) => Distinct(Append(seq, x))
  BY <1>1, <1>2 DEF Distinct, Entries
<1> QED  BY <1>1, <1>4, <1>5

(* The tail of a list without repetitions lacks exactly the head.              *)
LEMMA TailEntries ==
  ASSUME NEW S, NEW seq \in Seq(S), seq # <<>>, Distinct(seq)
  PROVE  /\ Head(seq) \in Entries(seq) /\ Head(seq) \in S
         /\ Tail(seq) \in Seq(S)
         /\ Entries(Tail(seq)) = Entries(seq) \ {Head(seq)}
         /\ Distinct(Tail(seq))
<1>1. /\ Len(seq) \in Nat \ {0} /\ DOMAIN seq = 1 .. Len(seq) /\ Head(seq) = seq[1]
      /\ Tail(seq) \in Seq(S) /\ DOMAIN Tail(seq) = 1 .. Len(seq) - 1
      /\ \A i \in 1 .. Len(seq) - 1 : Tail(seq)[i] = seq[i + 1]
      /\ Head(seq) \in S
  OBVIOUS
<1>2. /\ 1 \in 1 .. Len(seq)
      /\ \A i \in 1 .. Len(seq) - 1 : i + 1 \in 1 .. Len(seq) /\ i + 1 # 1
      /\ \A i \in 1 .. Len(seq) : i # 1 => i - 1 \in 1 .. Len(seq) - 1 /\ i = (i - 1) + 1
  BY <1>1
<1>3. Entries(Tail(seq)) \subseteq Entries(seq) \ {Head(seq)}
  BY <1>1, <1>2 DEF Entries, Distinct
<1>4. Entries(seq) \ {Head(seq)} \subseteq Entries(Tail(seq))
  <2> SUFFICES ASSUME NEW i \in 1 .. Len(seq), seq[i] # seq[1]
               PROVE  seq[i] \in Entries(Tail(seq))
    BY <1>1 DEF Entries
  <2>1. i - 1 \in 1 .. Len(seq) - 1 /\ i = (i - 1) + 1
    BY <1>2
  <2>2. Tail(seq)[i - 1] = seq[i]
    BY <1>1, <2>1
  <2> QED  BY <1>1, <2>1, <2>2 DEF Entries
<1>5. Distinct(Tail(seq))
  <2> SUFFICES ASSUME NEW i \in 1 .. Len(seq) - 1, NEW j \in 1 .. Len(seq) - 1,
                      Tail(seq)[i] = Tail(seq)[j]
               PROVE  i = j
    BY <1>1 DEF Distinct
  <2>1. seq[i + 1] = seq[j + 1] /\ i + 1 \in 1 .. Len(seq) /\ j + 1 \in 1 .. Len(seq)
    BY <1>1, <1>2
  <2>2. i + 1 = j + 1
    BY <1>1, <2>1 DEF Distinct
  <2> QED  BY <1>1, <2>2
<1>6. Head(seq) \in Entries(seq)
  BY <1>1, <1>2 DEF Entries
<1> QED  BY <1>1, <1>3, <1>4, <1>5, <1>6

(* ReadyHasWork in these words.                                                *)
LEMMA ReadyInWords ==
  ReadyHasWork <=>
    /\ Distinct(readySessions)
    /\ ready = Entries(readySessions)
    /\ ready = {s \in Sessions : ~IsActive(s) /\ queue[s] # <<>>}
    /\ sessions = {s \in Sessions : IsActive(s) \/ queue[s] # <<>>}
BY DEF ReadyHasWork, Distinct, Entries

(* Sessions at work can be counted.                                            *)
LEMMA WorkingFinite == IsFiniteSet(Working) /\ Cardinality(Working) \in Nat
BY ActorAssumption, FS_Subset, FS_CardinalityType DEF Working

(* The actor starts with empty books.                                          *)
LEMMA InitialBooks == Init => ActorInv
<1> SUFFICES ASSUME Init PROVE ActorInv
  OBVIOUS
<1>1. Working = {}
  BY DEF Init, Working, IsActive
<1>2. ActorTypeOK
  <2>1. <<>> \in Seq(Tasks) /\ <<>> \in Seq(Sessions)
    OBVIOUS
  <2>2. queue \in [Sessions -> Seq(Tasks)] /\ readySessions \in Seq(Sessions)
    BY <2>1 DEF Init
  <2>3. activeCount \in Nat
    BY DEF Init
  <2> QED  BY <2>2, <2>3 DEF Init, ActorTypeOK
<1>3. SlotsCounted
  BY <1>1, FS_EmptySet, ActorAssumption DEF Init, SlotsCounted, Working
<1>4. ReadyHasWork
  BY DEF Init, ReadyHasWork, IsActive
<1>5. NobodyForgotten /\ SettledAtWork /\ WaitersFollowed
  BY DEF Init, NobodyForgotten, NoStalledSession, NoForgottenWaiter, SettledAtWork, WaitersFollowed
<1> QED  BY <1>2, <1>3, <1>4, <1>5 DEF ActorInv, SlotsAndQueues

--------------------------------------------------------------------------------
(* The steps                                                                   *)

(* What the books are made of.                                                 *)
books == <<sessions, queue, active, ready, readySessions, activeCount>>

(* Who leaves the books alone keeps them.                                      *)
LEMMA BooksUntouched ==
  ASSUME SlotsAndQueues, UNCHANGED books,
         settled' \in SUBSET Sessions, handlers' \in SUBSET Tasks, pumping' \in BOOLEAN,
         finishing' \in Sessions \cup {None}, called' \in BOOLEAN,
         idleWaiters' \in SUBSET Sessions, draining' \in BOOLEAN
  PROVE  SlotsAndQueues' /\ Working' = Working
<1>1. ActorTypeOK'
  BY DEF SlotsAndQueues, ActorTypeOK, books
<1>2. SlotsCounted' /\ ReadyHasWork' /\ Working' = Working
  BY DEF SlotsAndQueues, SlotsCounted, ReadyHasWork, Working, IsActive, books
<1> QED  BY <1>1, <1>2 DEF SlotsAndQueues

(* markReady appends an idle session with work that is not yet in the list.    *)
LEMMA MarkReadyAppends ==
  ASSUME ActorTypeOK, ready = Entries(readySessions), Distinct(readySessions),
         NEW s \in Sessions, MarkReady(s)
  PROVE  /\ ready' = ready \cup {s} /\ ready' = Entries(readySessions')
         /\ Distinct(readySessions') /\ readySessions' \in Seq(Sessions)
<1>1. readySessions \in Seq(Sessions)
  BY DEF ActorTypeOK
<1>2. CASE s \in ready
  BY <1>1, <1>2 DEF MarkReady
<1>3. CASE s \notin ready
  <2>1. /\ Append(readySessions, s) \in Seq(Sessions)
        /\ Entries(Append(readySessions, s)) = ready \cup {s}
        /\ Distinct(Append(readySessions, s))
    BY <1>1, <1>3, AppendEntry
  <2>2. ready' = ready \cup {s} /\ readySessions' = Append(readySessions, s)
    BY <1>3 DEF MarkReady
  <2> QED  BY <2>1, <2>2
<1> QED  BY <1>2, <1>3

(* A new task makes an idle session ready, from outside or inside the loop.    *)
LEMMA EnqueueKeeps ==
  ASSUME ActorInv, NEW s \in Sessions, NEW t \in Tasks, Enqueue(s, t)
  PROVE  ActorInv'
<1>t. ActorTypeOK /\ SlotsCounted /\ ReadyHasWork
  BY DEF ActorInv, SlotsAndQueues
<1>q. /\ queue[s] \in Seq(Tasks) /\ Append(queue[s], t) \in Seq(Tasks)
      /\ Append(queue[s], t) # <<>>
  <2>1. queue[s] \in Seq(Tasks)
    BY <1>t DEF ActorTypeOK
  <2>2. Len(Append(queue[s], t)) = Len(queue[s]) + 1 /\ Len(queue[s]) \in Nat /\ Len(<<>>) = 0
    BY <2>1
  <2>3. Append(queue[s], t) # <<>>
    BY <2>2
  <2> QED  BY <2>1, <2>3
<1>1. /\ \A r \in Sessions : IsActive(r)' <=> IsActive(r)
      /\ Working' = Working
  BY DEF Enqueue, IsActive, Working
<1>2. \A r \in Sessions : queue'[r] # <<>> <=> queue[r] # <<>> \/ r = s
  BY <1>t, <1>q DEF Enqueue, ActorTypeOK
<1>3. /\ ready' = (IF IsActive(s) THEN ready ELSE ready \cup {s})
      /\ ready' = Entries(readySessions')
      /\ Distinct(readySessions') /\ readySessions' \in Seq(Sessions)
  <2>1. CASE IsActive(s)
    BY <1>t, <2>1, ReadyInWords DEF Enqueue, ActorTypeOK, Entries, Distinct
  <2>2. CASE ~IsActive(s)
    BY <1>t, <2>2, ReadyInWords, MarkReadyAppends DEF Enqueue
  <2> QED  BY <2>1, <2>2
<1>4. ActorTypeOK'
  BY <1>t, <1>q, <1>3 DEF ActorTypeOK, Enqueue
<1>5. SlotsCounted'
  BY <1>t, <1>1 DEF SlotsCounted, Enqueue, Working
<1>6. ReadyHasWork'
  <2>1. ready' = {r \in Sessions : ~IsActive(r)' /\ queue'[r] # <<>>}
    BY <1>t, <1>1, <1>2, <1>3 DEF ReadyHasWork
  <2>2. sessions' = {r \in Sessions : IsActive(r)' \/ queue'[r] # <<>>}
    BY <1>t, <1>1, <1>2 DEF ReadyHasWork, Enqueue
  <2> QED  BY <1>3, <2>1, <2>2 DEF ReadyHasWork, IsActive, Entries, Distinct
<1>7. NobodyForgotten'
  BY DEF Enqueue, NobodyForgotten, NoStalledSession, NoForgottenWaiter, AtRest
<1>8. SettledAtWork'
  BY <1>1 DEF ActorInv, SettledAtWork, Enqueue
<1>9. WaitersFollowed'
  BY DEF ActorInv, NobodyForgotten, NoForgottenWaiter, WaitersFollowed, Enqueue, AtRest
<1> QED  BY <1>4, <1>5, <1>6, <1>7, <1>8, <1>9 DEF ActorInv, SlotsAndQueues

(* The loop takes the head of the list, which is idle and has work.            *)
LEMMA PumpStartsKeeps ==
  ASSUME ActorInv, PumpStarts
  PROVE  ActorInv'
<1> DEFINE s == Head(readySessions)
<1>t. ActorTypeOK /\ SlotsCounted /\ ReadyHasWork
  BY DEF ActorInv, SlotsAndQueues
<1>1. /\ readySessions # <<>> /\ StartHead(s) /\ pumping
      /\ activeCount < MaxConcurrency
  BY DEF PumpStarts
<1>2. /\ s \in Sessions /\ s \in ready
      /\ readySessions' \in Seq(Sessions) /\ Distinct(readySessions')
      /\ ready' = ready \ {s} /\ ready' = Entries(readySessions')
  BY <1>t, <1>1, ReadyInWords, TailEntries DEF ActorTypeOK, StartHead
<1>3. ~IsActive(s) /\ queue[s] # <<>>
  BY <1>t, <1>2 DEF ReadyHasWork
<1>4. /\ Head(queue[s]) \in Tasks /\ Head(queue[s]) # None
      /\ Tail(queue[s]) \in Seq(Tasks)
  BY <1>t, <1>2, <1>3, ActorAssumption DEF ActorTypeOK
<1>5. \A r \in Sessions : /\ IsActive(r)' <=> IsActive(r) \/ r = s
                          /\ r # s => queue'[r] = queue[r]
  BY <1>t, <1>1, <1>2, <1>4 DEF StartHead, IsActive, ActorTypeOK
<1>6. Working' = Working \cup {s} /\ s \notin Working
  BY <1>2, <1>3, <1>5 DEF Working
<1>7. ActorTypeOK'
  BY <1>t, <1>1, <1>2, <1>4 DEF ActorTypeOK, StartHead
<1>8. SlotsCounted'
  <2>1. Cardinality(Working \cup {s}) = Cardinality(Working) + 1
    BY <1>6, WorkingFinite, FS_AddElement
  <2>2. activeCount' = activeCount + 1 /\ activeCount \in Nat /\ MaxConcurrency \in Nat
    BY <1>t, <1>1, ActorAssumption DEF StartHead, ActorTypeOK
  <2>3. activeCount = Cardinality(Working)
    BY <1>t DEF SlotsCounted, Working
  <2>4. activeCount' = Cardinality(Working') /\ activeCount' <= MaxConcurrency
    BY <1>1, <1>6, <2>1, <2>2, <2>3
  <2> QED  BY <2>4 DEF SlotsCounted, Working
<1>9. ReadyHasWork'
  <2>1. ready' = {r \in Sessions : ~IsActive(r)' /\ queue'[r] # <<>>}
    BY <1>t, <1>2, <1>5 DEF ReadyHasWork
  <2>2. sessions' = {r \in Sessions : IsActive(r)' \/ queue'[r] # <<>>}
    BY <1>t, <1>1, <1>3, <1>5 DEF ReadyHasWork, StartHead
  <2> QED  BY <1>2, <2>1, <2>2 DEF ReadyHasWork, IsActive, Entries, Distinct
<1>10. NobodyForgotten'
  BY <1>1 DEF StartHead, NobodyForgotten, NoStalledSession, NoForgottenWaiter, AtRest
<1>11. SettledAtWork'
  BY <1>1, <1>6 DEF ActorInv, SettledAtWork, StartHead
<1>12. WaitersFollowed'
  BY <1>1 DEF ActorInv, WaitersFollowed, StartHead
<1> QED  BY <1>7, <1>8, <1>9, <1>10, <1>11, <1>12 DEF ActorInv, SlotsAndQueues

(* finishTask frees the slot of a session at work, and makes it ready again or *)
(* deletes it.                                                                 *)
LEMMA FinishTaskKeeps ==
  ASSUME ActorInv, NEW s \in Sessions, FinishTask(s)
  PROVE  ActorInv'
<1>t. ActorTypeOK /\ SlotsCounted /\ ReadyHasWork
  BY DEF ActorInv, SlotsAndQueues
<1>1. IsActive(s) /\ s \in Working
  BY DEF ActorInv, SettledAtWork, FinishTask, Working
<1>2. \A r \in Sessions : IsActive(r)' <=> IsActive(r) /\ r # s
  BY <1>t DEF FinishTask, IsActive, ActorTypeOK
<1>3. Working' = Working \ {s}
  BY <1>2 DEF Working
<1>4. /\ ready' = (IF queue[s] # <<>> THEN ready \cup {s} ELSE ready)
      /\ ready' = Entries(readySessions')
      /\ Distinct(readySessions') /\ readySessions' \in Seq(Sessions)
      /\ sessions' = (IF queue[s] # <<>> THEN sessions ELSE sessions \ {s})
  <2>1. CASE queue[s] # <<>>
    BY <1>t, <2>1, ReadyInWords, MarkReadyAppends DEF FinishTask, Release
  <2>2. CASE queue[s] = <<>>
    BY <1>t, <2>2, ReadyInWords DEF FinishTask, Release, ActorTypeOK, Entries, Distinct
  <2> QED  BY <2>1, <2>2
<1>5. activeCount' \in Nat /\ SlotsCounted'
  <2>1. Cardinality(Working \ {s}) = Cardinality(Working) - 1
    BY <1>1, WorkingFinite, FS_RemoveElement
  <2>2. Cardinality(Working \ {s}) \in Nat
    BY WorkingFinite, FS_RemoveElement, FS_CardinalityType
  <2>3. /\ activeCount' = activeCount - 1 /\ activeCount = Cardinality(Working)
        /\ activeCount \in Nat /\ activeCount <= MaxConcurrency /\ MaxConcurrency \in Nat
    BY <1>t, ActorAssumption DEF FinishTask, ActorTypeOK, SlotsCounted, Working
  <2> QED  BY <1>3, <2>1, <2>2, <2>3 DEF SlotsCounted, Working
<1>6. ActorTypeOK'
  BY <1>t, <1>4, <1>5 DEF ActorTypeOK, FinishTask
<1>7. ReadyHasWork'
  <2>1. ready' = {r \in Sessions : ~IsActive(r)' /\ queue'[r] # <<>>}
    BY <1>t, <1>1, <1>2, <1>4 DEF ReadyHasWork, FinishTask
  <2>2. sessions' = {r \in Sessions : IsActive(r)' \/ queue'[r] # <<>>}
    BY <1>t, <1>1, <1>2, <1>4 DEF ReadyHasWork, FinishTask
  <2> QED  BY <1>4, <2>1, <2>2 DEF ReadyHasWork, IsActive, Entries, Distinct
<1>8. NobodyForgotten'
  BY DEF FinishTask, NobodyForgotten, NoStalledSession, NoForgottenWaiter, AtRest
<1>9. SettledAtWork'
  BY <1>3 DEF ActorInv, SettledAtWork, FinishTask
<1>10. WaitersFollowed'
  BY <1>4 DEF ActorInv, NobodyForgotten, NoForgottenWaiter, WaitersFollowed, FinishTask
<1> QED  BY <1>5, <1>6, <1>7, <1>8, <1>9, <1>10 DEF ActorInv, SlotsAndQueues

(* After the loop every ready session waits for a slot, and whoever waits for  *)
(* a session that is gone has been told.                                       *)
LEMMA PumpEndsKeeps ==
  ASSUME ActorInv, PumpEnds
  PROVE  ActorInv'
<1>t. ActorTypeOK /\ SlotsCounted /\ ReadyHasWork
  BY DEF ActorInv, SlotsAndQueues
<1>1. SlotsAndQueues' /\ Working' = Working
  <2>1. UNCHANGED books /\ idleWaiters' \in SUBSET Sessions /\ draining' \in BOOLEAN
    BY <1>t DEF PumpEnds, Resolve, books, ActorTypeOK
  <2> QED  BY <1>t, <2>1, BooksUntouched DEF ActorInv, PumpEnds, ActorTypeOK
<1>2. NoStalledSession'
  <2>1. activeCount < MaxConcurrency => ready = {}
    BY <1>t DEF PumpEnds, ReadyHasWork
  <2>2. activeCount <= MaxConcurrency /\ activeCount \in Nat /\ MaxConcurrency \in Nat
    BY <1>t, ActorAssumption DEF SlotsCounted, ActorTypeOK
  <2> QED  BY <2>1, <2>2 DEF NoStalledSession, PumpEnds
<1>3. NoForgottenWaiter'
  <2>1. idleWaiters \subseteq sessions \cup {finishing}
    BY DEF ActorInv, WaitersFollowed, PumpEnds
  <2>2. idleWaiters' \subseteq sessions
    BY <2>1 DEF PumpEnds, Resolve
  <2>3. sessions = {} => activeCount = 0
    <3>1. sessions = {} => Working = {}
      BY <1>t DEF ReadyHasWork, Working
    <3> QED  BY <1>t, <3>1, FS_EmptySet DEF SlotsCounted, Working
  <2>4. draining' => sessions # {}
    BY <2>3 DEF PumpEnds, Resolve
  <2> QED  BY <2>2, <2>4 DEF NoForgottenWaiter, PumpEnds
<1>4. SettledAtWork' /\ WaitersFollowed'
  BY <1>1 DEF ActorInv, SettledAtWork, WaitersFollowed, PumpEnds
<1> QED  BY <1>1, <1>2, <1>3, <1>4 DEF ActorInv, NobodyForgotten

(* Handlers that end, time-outs and waiters leave the books alone.             *)
LEMMA OthersKeep ==
  ASSUME ActorInv,
         \/ Drain
         \/ \E t \in Tasks : HandlerEnds(t)
         \/ \E s \in Sessions : TimesOut(s) \/ WhenIdle(s)
         \/ UNCHANGED vars
  PROVE  ActorInv'
<1>t. ActorTypeOK
  BY DEF ActorInv, SlotsAndQueues
<1>1. /\ UNCHANGED <<books, pumping, finishing, called>>
      /\ settled' \in SUBSET Sessions /\ handlers' \in SUBSET Tasks
      /\ idleWaiters' \in SUBSET Sessions /\ draining' \in BOOLEAN
  BY <1>t DEF Drain, HandlerEnds, TimesOut, WhenIdle, vars, books, ActorTypeOK
<1>2. SlotsAndQueues' /\ Working' = Working
  BY <1>t, <1>1, BooksUntouched DEF ActorInv, ActorTypeOK
<1>3. settled' \subseteq Working
  <2>1. CASE \E t \in Tasks : HandlerEnds(t)
    <3>1. PICK t \in Tasks : HandlerEnds(t)
      BY <2>1
    <3>2. t # None
      BY ActorAssumption
    <3> QED  BY <3>1, <3>2 DEF HandlerEnds, ActorInv, SettledAtWork, Working, IsActive
  <2>2. CASE \E s \in Sessions : TimesOut(s)
    BY <2>2 DEF TimesOut, ActorInv, SettledAtWork, Working
  <2>3. CASE Drain \/ (\E s \in Sessions : WhenIdle(s)) \/ UNCHANGED vars
    BY <2>3 DEF Drain, WhenIdle, vars, ActorInv, SettledAtWork
  <2> QED  BY <2>1, <2>2, <2>3
<1>4. NobodyForgotten'
  BY DEF ActorInv, NobodyForgotten, NoStalledSession, NoForgottenWaiter, AtRest,
         Drain, HandlerEnds, TimesOut, WhenIdle, vars
<1>5. WaitersFollowed'
  BY DEF ActorInv, WaitersFollowed, AtRest, Drain, HandlerEnds, TimesOut, WhenIdle, vars
<1> QED  BY <1>2, <1>3, <1>4, <1>5 DEF ActorInv, SettledAtWork

(* Every step of the actor keeps its invariant.                                *)
LEMMA NextKeeps ==
  ASSUME ActorInv, [Next]_vars
  PROVE  ActorInv'
<1>1. CASE PumpStarts
  BY <1>1, PumpStartsKeeps
<1>2. CASE PumpEnds
  BY <1>2, PumpEndsKeeps
<1>3. CASE \E s \in Sessions : FinishTask(s)
  BY <1>3, FinishTaskKeeps
<1>4. CASE \E s \in Sessions, t \in Tasks : Enqueue(s, t)
  BY <1>4, EnqueueKeeps
<1>5. CASE \/ Drain
           \/ \E t \in Tasks : HandlerEnds(t)
           \/ \E s \in Sessions : TimesOut(s) \/ WhenIdle(s)
           \/ UNCHANGED vars
  BY <1>5, OthersKeep
<1> QED  BY <1>1, <1>2, <1>3, <1>4, <1>5 DEF Next

--------------------------------------------------------------------------------
(* The theorems                                                                *)

(* The inductive invariant of the actor.                                       *)
THEOREM ActorInvariance == Spec => []ActorInv
<1>1. Init => ActorInv
  BY InitialBooks
<1>2. ActorInv /\ [Next]_vars => ActorInv'
  BY NextKeeps
<1> QED  BY <1>1, <1>2, PTL DEF Spec

(* The slots in use are the sessions at work, at most the cap, and the list of *)
(* ready sessions is exact, for every number of sessions and tasks.            *)
THEOREM BooksAgree == Spec => []SlotsAndQueues
<1>1. ActorInv => SlotsAndQueues
  BY DEF ActorInv
<1> QED  BY <1>1, ActorInvariance, PTL

(* No session with work stalls beside a free slot, and no promise of whenIdle  *)
(* or drain is left behind, whatever handlers enqueue from inside the loop.    *)
THEOREM NobodyIsForgotten == Spec => []NobodyForgotten
<1>1. ActorInv => NobodyForgotten
  BY DEF ActorInv
<1> QED  BY <1>1, ActorInvariance, PTL

(* Every step of the actor is one of the keyed queues, or none.                *)
LEMMA NextServes ==
  ASSUME ActorInv, [Next]_vars
  PROVE  [Abstract!Next]_<<queue, active>>
<1>t. ActorTypeOK /\ SlotsCounted /\ ReadyHasWork
  BY DEF ActorInv, SlotsAndQueues
<1>1. CASE PumpStarts
  <2> DEFINE s == Head(readySessions)
  <2>1. s \in ready /\ s \in Sessions
    BY <1>t, <1>1, ReadyInWords, TailEntries DEF PumpStarts, ActorTypeOK
  <2>2. active[s] = None /\ queue[s] # <<>>
    BY <1>t, <2>1 DEF ReadyHasWork, IsActive
  <2>3. Abstract!Cardinality(Abstract!Serving) < MaxConcurrency
    <3>1. Abstract!Serving = Working
      BY DEF Abstract!Serving, Working, IsActive
    <3>2. Cardinality(Working) < MaxConcurrency
      BY <1>t, <1>1 DEF SlotsCounted, Working, PumpStarts
    <3>3. Abstract!Cardinality(Working) = Cardinality(Working)
      BY DEF Abstract!Cardinality, Cardinality
    <3> QED  BY <3>1, <3>2, <3>3
  <2>4. Abstract!Serve(s)
    BY <1>1, <2>2, <2>3 DEF PumpStarts, StartHead, Abstract!Serve
  <2> QED  BY <2>1, <2>4 DEF Abstract!Next
<1>2. CASE \E s \in Sessions : FinishTask(s)
  <2>1. PICK s \in Sessions : FinishTask(s)
    BY <1>2
  <2>2. active[s] # None
    BY <2>1 DEF ActorInv, SettledAtWork, Working, IsActive, FinishTask
  <2>3. Abstract!Leave(s)
    BY <2>1, <2>2 DEF FinishTask, Abstract!Leave
  <2> QED  BY <2>3 DEF Abstract!Next
<1>3. CASE \E s \in Sessions, t \in Tasks : Enqueue(s, t)
  <2>1. PICK s \in Sessions, t \in Tasks : Enqueue(s, t)
    BY <1>3
  <2>2. ~Abstract!InUse(t)
    BY <2>1 DEF Enqueue, Free, Queued, Abstract!InUse
  <2>3. Abstract!Enter(s, t)
    BY <2>1, <2>2 DEF Enqueue, Abstract!Enter
  <2> QED  BY <2>3 DEF Abstract!Next
<1>4. CASE \/ PumpEnds \/ Drain
           \/ \E t \in Tasks : HandlerEnds(t)
           \/ \E s \in Sessions : TimesOut(s) \/ WhenIdle(s)
           \/ UNCHANGED vars
  BY <1>4 DEF PumpEnds, Drain, HandlerEnds, TimesOut, WhenIdle, vars
<1> QED  BY <1>1, <1>2, <1>3, <1>4 DEF Next

(* The actor implements the keyed queues: tasks of a session are served in     *)
(* their order, one at a time, at most MaxConcurrency sessions at once.        *)
THEOREM ActorServesInOrder == Spec => ServesInOrder
<1>1. Init => Abstract!Init
  BY DEF Init, Abstract!Init
<1>2. ActorInv /\ [Next]_vars => [Abstract!Next]_<<queue, active>>
  BY NextServes
<1> QED  BY <1>1, <1>2, ActorInvariance, PTL DEF Spec, ServesInOrder, Abstract!Spec, Abstract!vars

================================================================================
