----------------------------- MODULE MCReplyIntake -----------------------------
(* ReplyIntake on small instances: two senders of one conversation. *)
EXTENDS ReplyIntake

CONSTANTS c1, d1, d2, m1, m2, m3

MCSessions == {c1, d1, d2}
MCHome == [s \in Senders |-> c1]
MCFrom == [m \in Messages |-> IF m = m2 THEN d2 ELSE d1]
MCKeys == Messages \cup {NoKey}
MCBodies == SUBSET (Messages \X (1..MaxRecord))

\* windows of two senders that move while they are handed off
Windows ==
  [messages |-> {m1, m2, m3}, direct |-> {m1, m2, m3}, copies |-> {1}, delay |-> 1, time |-> 2,
   kinds |-> {"crash", "forget", "gate"}, faults |-> 1]

\* messages delivered twice into windows, records that are not saved
Unsaved ==
  [messages |-> {m1, m2}, direct |-> {m1, m2}, copies |-> {1, 2}, delay |-> 1, time |-> 2,
   kinds |-> {"crash", "save", "gate"}, faults |-> 2]

\* no debounce: every message is answered by itself
Direct ==
  [messages |-> {m1, m2, m3}, direct |-> {m1, m3}, copies |-> {1, 2}, delay |-> 0, time |-> 0,
   kinds |-> {"crash", "save", "forget"}, faults |-> 1]

\* a window of two messages over a crash
Lasting ==
  [messages |-> {m1, m3}, direct |-> {m1, m3}, copies |-> {1}, delay |-> 1, time |-> 3,
   kinds |-> {"crash"}, faults |-> 1]

\* messages of one sender delivered twice, over a crash
Doubled ==
  [messages |-> {m1, m3}, direct |-> {m1, m3}, copies |-> {1, 2}, delay |-> 1, time |-> 3,
   kinds |-> {"crash"}, faults |-> 1]

\* no debounce, and every save succeeds
Immediate ==
  [messages |-> {m1, m2, m3}, direct |-> {m1, m3}, copies |-> {1, 2}, delay |-> 0, time |-> 0,
   kinds |-> {"forget"}, faults |-> 1]

\* two windows claim one sequence: a strict save fails while other messages wait
Conflicting ==
  [messages |-> {m1, m2, m3}, direct |-> {m1, m2}, copies |-> {1}, delay |-> 1, time |-> 2,
   kinds |-> {"save"}, faults |-> 1]

MCBounds == {Windows, Unsaved, Direct, Lasting, Doubled, Immediate, Conflicting}

================================================================================
