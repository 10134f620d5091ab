CONSTANTS
  n1 = n1
  n2 = n2
  Stored = Stored
  Nil = Nil
  Nodes <- MCNodes
  MaxReplicas = 2
  Creators <- MCCreators
  Lookups <- MCLookups
  Disturb <- MCDisturb
  MaxDisturb = 1
  Deletable = {1}
SPECIFICATION Spec
INVARIANTS TypeOK AppliedOnce OrphanIsReplaced NoStuckElecting
CHECK_DEADLOCK FALSE
