SPECIFICATION Spec
CONSTANTS
  Nodes = {n1}
  Knowing = {n1}
  Rumours <- Anything
  Responders = {n1}
  Bands = {"small", "large"}
  Suspect <- McSuspect
  Quarantine <- McQuarantine
  MaxScore = 3
  MaxOutages = 2
  MaxResizes = 1
  MaxNet = 2
  Flaky = TRUE
INVARIANTS TypeOK  QuarantineHasTimer
PROPERTY QuarantineEnds
CHECK_DEADLOCK FALSE
