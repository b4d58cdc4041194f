SPECIFICATION HostSpec
CONSTANTS
  Sessions = {s1, s2}
  Partitions = {p1, p2}
  MaxRows = 2
  MaxAttempts = 2
  Steps = {1}
  Effects = {1}
  Slots = {c1, c2}
  MaxConcurrency = 1
  MaxWorkers = 2
  Disturbances = {"remote", "settle", "stop", "crash", "offline"}
  MaxDisturbances = 1
INVARIANTS
  EffectOnce
PROPERTIES
  EveryMessageConcludes
CHECK_DEADLOCK FALSE
