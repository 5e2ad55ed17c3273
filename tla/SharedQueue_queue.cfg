CONSTANTS
  Pushers = {p1, p2}
  Poppers = {c1, c2}
  Nodes = {n1, n2, n3}
  NULL = NULL
  Garbage = Garbage
  None = None
  MaxPushes = 3
SPECIFICATION FairSpec
INVARIANTS
  TypeOK
  PrivateNodes
  TailIsLast
  NoLostWakeup
PROPERTIES
  FifoKept
  ValuesReachWaiters
