SPECIFICATION Spec
CONSTANTS
  Sessions = {s1, s2}
  Partitions = {p1}
  MaxRows = 2
  MaxAttempts = 2
  Steps = {1}
  Effects = {1}
  Slots = {c1, c2}
  MaxConcurrency = 2
  MaxWorkers = 2
  Disturbances = {"prepare", "skip", "remote", "settle", "timeout", "offline", "renew", "stall",
                  "persist", "recovery", "stop", "crash", "replay", "resolve", "traffic", "hold"}
  MaxDisturbances = 2
INVARIANTS
  SessionsSplit
  AtMostOneSend
  OneTransportPerPartition
PROPERTIES
  KeepsOrder
SYMMETRY SlotSymmetry
CHECK_DEADLOCK FALSE
