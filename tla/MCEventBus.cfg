SPECIFICATION Spec
CONSTANTS
  one = one
  every = every
  Publishers = {p1, p2}
  Chans = {one, every}
  Types = {"won", "lost"}
  Topic <- McTopic
  All = All
  InputCap = 2
  SubCap = 1
  MaxEvents = 3
INVARIANTS TypeOK InOrder DropsAccounted PanicsOnlyAfterClose
PROPERTIES AcceptedAreFannedOut CloseReturns
CHECK_DEADLOCK FALSE
