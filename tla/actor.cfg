SPECIFICATION FairSpec
CONSTANTS
  Sessions = {s1, s2, s3}
  Tasks = {t1, t2, t3, t4}
  MaxConcurrency = 2
  None = None
INVARIANTS
  SlotsAndQueues
  NobodyForgotten
PROPERTIES
  ServesInOrder
  EveryTaskStarts
