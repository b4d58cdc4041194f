------------------------------ MODULE MCTurnQueue ------------------------------
(* TurnQueue on small instances: four bounds, each wide where its hazards are. *)
EXTENDS TurnQueue

\* two sessions under every failure
Faulty ==
  [events |-> 2, ordinals |-> {}, results |-> {"replied", "deferred"}, time |-> 0, workers |-> 2,
   kinds |-> {"persist", "timeout", "renew", "handoff", "stop", "crash"}, faults |-> 2]

\* one turn that appends rows and commits a mutation, through three coordinators
Mutating ==
  [events |-> 1, ordinals |-> {1, 2}, results |-> {"replied", "deferred"}, time |-> 0, workers |-> 3,
   kinds |-> {"persist", "timeout", "renew", "commit", "handoff", "stop", "crash"}, faults |-> 2]

\* turns that wait for deadlines, which move
Waking ==
  [events |-> 2, ordinals |-> {}, results |-> {"replied"}, time |-> 2, workers |-> 1,
   kinds |-> {"persist", "reschedule"}, faults |-> 1]

\* a store that accepts every write
Lasting ==
  [events |-> 2, ordinals |-> {}, results |-> {"replied"}, time |-> 1, workers |-> 2,
   kinds |-> {"timeout", "renew", "handoff", "stop", "crash"}, faults |-> 1]

MCBounds == {Faulty, Mutating, Waking, Lasting}

================================================================================
