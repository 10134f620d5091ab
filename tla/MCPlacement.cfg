SPECIFICATION Spec
CONSTANTS
  n1 = n1
  n2 = n2
  c1 = c1
  Absent = Absent
  Unset = Unset
  Malformed = Malformed
  Nodes = {n1, n2}
  Cluster <- MCCluster
  Capacity <- MCCapacity
  Advertised <- MCAdvertised
  NodeLabels <- MCNodeLabels
  Samples <- MCSamples
  Statuses = {"active", "suspected"}
  Overrides <- MCOverrides
  HistoryDepth = 1
  MaxInFlight = 1
  Catalog <- MCCatalog
  Placements <- MCPlacements
  Capsules = {c1}
  Specs <- MCSpecs
  SlotSets <- MCSlotSets
  Usages <- MCUsages
  MaxTime = 3
  MaxFires = 3
  MaxDeletes = 1
INVARIANTS MTypeOK BetterNodeScoresHigher CooldownRespected
CHECK_DEADLOCK FALSE
