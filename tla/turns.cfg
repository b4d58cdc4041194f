SPECIFICATION FairSpec
CONSTANTS
  Sessions = {s1, s2}
  MaxEvents = 2
  MaxAttempts = 3
  MaxTime = 2
  NoKey = none
  Keys = {none}
  Bodies = {body}
  Ordinals = {1, 2}
  Texts = {x, y}
  Cap = 1
  MaxWorkers = 3
  Bounds <- MCBounds
CHECK_DEADLOCK FALSE
INVARIANTS
  TurnsInOrder
  ChangeIsTold
  NoSleepingTurn
PROPERTIES
  RowsStand
  EveryEventConcludes
