SPECIFICATION Spec
CONSTANTS
  Sessions = {s1, s2}
  Partitions = {p1, p2}
  MaxRows = 2
  MaxAttempts = 2
  Steps = {1}
  Effects = {}
  Slots = {c1, c2}
  MaxConcurrency = 2
  MaxWorkers = 1
  Disturbances = {"prepare", "remote", "settle", "timeout", "offline", "renew", "traffic"}
  MaxDisturbances = 2
SYMMETRY SlotSymmetry
CHECK_DEADLOCK FALSE
INVARIANTS
  DeliveryWatched
  LeaseIsRecoverable
