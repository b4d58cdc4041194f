SPECIFICATION FairSpec
CONSTANTS
  c1 = c1
  d1 = d1
  d2 = d2
  m1 = m1
  m2 = m2
  m3 = m3
  Sessions <- MCSessions
  Conversations = {c1}
  Senders = {d1, d2}
  Home <- MCHome
  Messages = {m1, m2, m3}
  From <- MCFrom
  Copies = {1, 2}
  MaxFollowUps = 1
  MaxRecord = 5
  MaxEvents = 4
  MaxAttempts = 3
  MaxTime = 3
  NoKey = none
  Keys <- MCKeys
  Bodies <- MCBodies
  Ordinals = {}
  Texts = {}
  Bounds <- MCBounds
CHECK_DEADLOCK FALSE
INVARIANTS
  RecordsFit
  AnsweredOnce
  HandoffCarriesAll
PROPERTIES
  EveryWindowAnswered
