SPECIFICATION Spec
CONSTANTS
  Nodes = {1, 2}
  NSlots = 2
  Offers <- DistinctBids
  Lookups = {1}
  MaxScore = 1
  ScoreStep = 1
  Stagger = 1
  Jitter = 0
  Tiebreak = 1
  Timeout = 2
  BufferTTL = 2
  Delta = 1
  Slack = 0
  LastRequest = 0
  MaxRounds = 1
  MaxTime = 4
  Faults = {"loss", "publish", "stop", "leave", "crash", "delete"}
  Nil = Nil
INVARIANTS TypeOK ClaimBacked OneSlotUnlessFailed
CHECK_DEADLOCK FALSE
