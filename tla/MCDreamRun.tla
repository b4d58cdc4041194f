------------------------------ MODULE MCDreamRun ------------------------------
(* DreamRun on small instances. *)
EXTENDS DreamRun

CONSTANTS n1, n2

\* two notes that are appended while the Dream replaces the document
Appending == [notes |-> {n1, n2}, lives |-> 1, forces |-> 0, edits |-> 0, faults |-> 1]

\* a note, an edit, and a crash or stop between the steps of the commit
Crashing == [notes |-> {n1}, lives |-> 2, forces |-> 0, edits |-> 1, faults |-> 1]

\* a second round over a note, and the administrator's edits
Forcing == [notes |-> {n1}, lives |-> 1, forces |-> 1, edits |-> 1, faults |-> 1]

\* rounds over failures and suspensions, without notes
Rounds == [notes |-> {}, lives |-> 2, forces |-> 1, edits |-> 0, faults |-> 3]

MCBounds == {Appending, Crashing, Forcing, Rounds}

\* two notes and a Dream, with nothing going wrong
Alone == {[notes |-> {n1, n2}, lives |-> 1, forces |-> 0, edits |-> 0, faults |-> 0]}

===============================================================================
