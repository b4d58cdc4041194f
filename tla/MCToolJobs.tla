------------------------------- MODULE MCToolJobs -------------------------------
(* ToolJobs on small instances: two local codex jobs and one of another tool. *)
EXTENDS ToolJobs

CONSTANTS l1, l2, p

\* a codex job and another, over crashes that leave its process at work
Crashing ==
  [jobs |-> {l1, p}, attempts |-> 3, workers |-> 3,
   kinds |-> {"crash", "stop", "timeout", "renew", "unverified"}, faults |-> 2]

\* one codex job, disturbed in every way
Unwritten ==
  [jobs |-> {l1}, attempts |-> 3, workers |-> 3,
   kinds |-> {"crash", "stop", "persist", "timeout", "renew", "unverified"}, faults |-> 3]

\* the files of two local jobs, which results lose against timeouts and stops
Files ==
  [jobs |-> {l1, l2}, attempts |-> 2, workers |-> 2,
   kinds |-> {"stop", "persist", "timeout", "renew"}, faults |-> 2]

\* two local jobs side by side in one life
Side ==
  [jobs |-> {l1, l2}, attempts |-> 1, workers |-> 1,
   kinds |-> {"renew", "persist", "rollback"}, faults |-> 2]

MCBounds == {Crashing, Unwritten, Files, Side}

================================================================================
