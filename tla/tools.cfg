SPECIFICATION FairSpec
CONSTANTS
  l1 = l1
  l2 = l2
  p = p
  Jobs = {l1, l2, p}
  Plain = {p}
  Local = {l1, l2}
  Cap = 2
  MaxAttempts = 3
  MaxWorkers = 3
  Bounds <- MCBounds
CHECK_DEADLOCK FALSE
INVARIANTS
  ProcessesExclude
  FilesMatchOutcome
PROPERTIES
  CompletedOnce
  EveryJobCompletes
