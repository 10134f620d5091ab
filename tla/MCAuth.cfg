SPECIFICATION FairSpec
CONSTANTS
  n1 = n1
  n2 = n2
  n3 = n3
  Nil = Nil
  Nodes = {n1, n2, n3}
  Members = {n1, n2}
  First = n1
  Bootstraps <- MCBootstraps
  MaxStarts = 1
  MaxOps = 1
INVARIANTS TypeOK 
PROPERTIES RejectedIsRefused JoinReturns
CHECK_DEADLOCK FALSE
