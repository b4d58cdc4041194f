---------------------------- MODULE MCScheduledTasks ---------------------------
(* ScheduledTasks on small instances. *)
EXTENDS ScheduledTasks

CONSTANTS once, cron

\* the run of a one-time task, which two schedulers deliver to two conversations
Delivering ==
  [tasks |-> {once}, targets |-> 2, lease |-> 2, edits |-> 2, workers |-> 2, faults |-> 3]

\* two tasks that are edited while one scheduler drains them
Editing ==
  [tasks |-> {once, cron}, targets |-> 1, lease |-> 1, edits |-> 3, workers |-> 1, faults |-> 1]

MCBounds == {Delivering, Editing}

================================================================================
