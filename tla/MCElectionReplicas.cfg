SPECIFICATION Spec
CONSTANTS
  Nodes = {1, 2, 3}
  NSlots = 2
  Offers <- DistinctBids
  Lookups = {1}
  MaxScore = 2
  ScoreStep = 1
  Stagger = 2
  Jitter = 0
  Tiebreak = 3
  Timeout = 10
  BufferTTL = 20
  Delta = 1
  Slack = 1
  LastRequest = 0
  MaxRounds = 1
  MaxTime = 24
  Faults = {}
  Nil = Nil
PROPERTY ImplementsPlacement
CHECK_DEADLOCK FALSE
