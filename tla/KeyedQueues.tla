------------------------------ MODULE KeyedQueues ------------------------------
(* What a keyed scheduler promises its callers: tasks of one key leave in the  *)
(* order they entered, one at a time, and at most Max keys are served at once. *)
EXTENDS Naturals, Sequences, FiniteSets

CONSTANTS Keys, Tasks, Max, None

VARIABLES waiting, served

vars == <<waiting, served>>

Serving == {k \in Keys : served[k] # None}

InUse(t) == \E k \in Keys : served[k] = t \/ \E i \in DOMAIN waiting[k] : waiting[k][i] = t

Init ==
  /\ waiting = [k \in Keys |-> <<>>]
  /\ served = [k \in Keys |-> None]

Enter(k, t) ==
  /\ ~InUse(t)
  /\ waiting' = [waiting EXCEPT ![k] = Append(@, t)]
  /\ UNCHANGED served

Serve(k) ==
  /\ waiting[k] # <<>>
  /\ served[k] = None
  /\ Cardinality(Serving) < Max
  /\ served' = [served EXCEPT ![k] = Head(waiting[k])]
  /\ waiting' = [waiting EXCEPT ![k] = Tail(@)]

Leave(k) ==
  /\ served[k] # None
  /\ served' = [served EXCEPT ![k] = None]
  /\ UNCHANGED waiting

Next == \E k \in Keys : Serve(k) \/ Leave(k) \/ \E t \in Tasks : Enter(k, t)

Spec == Init /\ [][Next]_vars

================================================================================
