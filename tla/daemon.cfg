SPECIFICATION FairSpec
CONSTANTS
  r1 = r1
  r2 = r2
  None = None
  Daemons = {0, 1, 2, 3}
  Requests = {r1, r2}
  Bounds <- MCBounds
CHECK_DEADLOCK FALSE
INVARIANTS
  OneOwner
PROPERTIES
  RequestsHandledOnce
  DaemonSettles
