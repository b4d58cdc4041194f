--------------------------- MODULE OutboxPartitions ---------------------------
(***************************************************************************)
(* The in-memory pause and probe state of the delivery partitions          *)
(* (services/sessions/outboxPartitionScheduler.ts) as a value with         *)
(* one operator per method: paused partitions, partitions whose probe is   *)
(* ready, partitions with an armed probe timer.                            *)
(***************************************************************************)

Lanes(P) == [paused : SUBSET P, ready : SUBSET P, probes : SUBSET P]

NoLanes == [paused |-> {}, ready |-> {}, probes |-> {}]

\* scheduleProbe is idempotent: an armed timer is kept
PauseLane(l, p) ==
  [paused |-> l.paused \cup {p}, ready |-> l.ready \ {p}, probes |-> l.probes \cup {p}]

ResumeLane(l, p) ==
  [paused |-> l.paused \ {p}, ready |-> l.ready \ {p}, probes |-> l.probes \ {p}]

RetryLane(l, p) ==
  [l EXCEPT !.probes = IF p \in l.paused THEN @ \cup {p} ELSE @]

CompleteAttempt(l, p, proven) ==
  IF proven THEN (IF p \in l.paused THEN ResumeLane(l, p) ELSE l) ELSE RetryLane(l, p)

TakeReady(l, p) == [l EXCEPT !.ready = @ \ {p}]

\* the probe timer fires
ProbeFires(l, p) ==
  [l EXCEPT !.probes = @ \ {p}, !.ready = IF p \in l.paused THEN @ \cup {p} ELSE @]

================================================================================
