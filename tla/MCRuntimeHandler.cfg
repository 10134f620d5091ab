SPECIFICATION Spec
CONSTANTS
  t1 = t1
  p1 = p1
  Nil = Nil
  Tags <- MCTags
  Peers <- MCPeers
  Shapes = {"dir", "file"}
  CheckpointState = "exited"
  RestartLimit = 1
  Retries = 2
  MaxPerCapsule = 0
  MaxOps = 2
  MaxFaults = 1
INVARIANTS
  TypeOK
  DeathIsReported
  ZeroDowntime
CHECK_DEADLOCK FALSE
