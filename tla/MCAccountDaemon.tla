----------------------------- MODULE MCAccountDaemon -----------------------------
(* AccountDaemon on small instances. *)
EXTENDS AccountDaemon

CONSTANTS r1, r2

\* a daemon was killed in charge; three starts race to replace it, and a request waits
Racing ==
  [left |-> 0, daemons |-> 1..3, requests |-> {r1}, kinds |-> {}, faults |-> 0]

\* two starts race to replace it, and any of them may be killed on the way
Killing ==
  [left |-> 0, daemons |-> 1..2, requests |-> {r1}, kinds |-> {"crash"}, faults |-> 1]

\* two starts and two requests over stops, crashes and an impatient bot
Replacing ==
  [left |-> None, daemons |-> 1..2, requests |-> {r1, r2}, kinds |-> {"crash", "stop", "timeout"}, faults |-> 2]

MCBounds == {Racing, Killing, Replacing}

================================================================================
