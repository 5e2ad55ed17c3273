CONSTANTS
  Clients = {c1}
  Workers = {w1}
  Listen = 1
  FDLimit = 3
  Main = Main
  None = None
SPECIFICATION Spec
PROPERTIES
  WorkersDrainTheQueue
