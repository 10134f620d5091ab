SPECIFICATION FairSpec
CONSTANTS
  n1 = n1
  n2 = n2
  n3 = n3
  Nil = Nil
  Nodes = {n1, n2, n3}
  First = n1
  RemoveAt = 2
  MaxInFlight = 2
  MaxFaults = 2
  Cuttable = {n3}
  Threads <- MCThreads
  Watched <- MCWatched
INVARIANT TypeOK
PROPERTIES NoEarlyRemoval RevocationsSpread
CHECK_DEADLOCK FALSE
