SPECIFICATION Spec
CONSTANTS
  once = once
  cron = cron
  Tasks = {once, cron}
  Once = {once}
  MaxTargets = 2
  Backoff = 1
  Retention = 2
  Period = 2
  MaxTime = 5
  MaxWorkers = 2
  Bounds <- MCBounds
CHECK_DEADLOCK FALSE
INVARIANTS
  OccurrencesOpen
  DeliveredAsOne
  SleepsInTime
PROPERTIES
  OutcomeStands
