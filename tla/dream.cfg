SPECIFICATION FairSpec
CONSTANTS
  n1 = n1
  n2 = n2
  Notes = {n1, n2}
  Dreams = {d1, d2}
  Records = {r1}
  None = None
  Bounds <- MCBounds
CHECK_DEADLOCK FALSE
INVARIANTS
  RowIsTrue
  
PROPERTIES
  LongTermKept
  NoLateWrite
  DreamSettles
