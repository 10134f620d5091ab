SPECIFICATION FairSpec
CONSTANTS
  Nodes = {1, 2, 3}
  NSlots = 1
  Offers <- OneMayWatch
  Lookups = {1}
  MaxScore = 2
  ScoreStep = 1
  Stagger = 0
  Jitter = 0
  Tiebreak = 3
  Timeout = 6
  BufferTTL = 20
  Delta = 1
  Slack = 1
  LastRequest = 1
  MaxRounds = 1
  MaxTime = 20
  Faults = {}
  Nil = Nil
INVARIANTS UniqueWinner SomeWinner
PROPERTY RoundsResolve
CHECK_DEADLOCK FALSE
