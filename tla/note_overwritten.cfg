SPECIFICATION Spec
CONSTANTS
  n1 = n1
  n2 = n2
  Notes = {n1, n2}
  Dreams = {d1}
  Records = {}
  None = None
  Bounds <- Alone
CHECK_DEADLOCK FALSE
INVARIANTS
  NotesKept
