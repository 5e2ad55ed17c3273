CONSTANTS
  Clients = {c1, c2}
  Workers = {w1, w2}
  Listen = 1
  FDLimit = 4
  Main = Main
  None = None
SPECIFICATION FairSpec
PROPERTIES
  QueuedIsPopped
  ShutdownCompletes
