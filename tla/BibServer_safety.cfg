CONSTANTS
  Clients = {c1, c2, c3}
  Workers = {w1, w2}
  Listen = 1
  FDLimit = 4
  Main = Main
  None = None
SPECIFICATION Spec
SYMMETRY Symmetry
INVARIANTS
  TypeOK
  SelectCoversAll
  ExclusiveDescriptors
  ReadsNeverBlock
  NewConnectionsAreFresh
PROPERTIES
  TurnsInOrder
