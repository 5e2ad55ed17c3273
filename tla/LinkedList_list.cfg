CONSTANTS
  Threads = {t1, t2}
  Removers = {t2}
  Nodes = {n1, n2, n3}
  NULL = NULL
  Garbage = Garbage
  None = None
  MaxAdds = 3
SPECIFICATION Spec
SYMMETRY Symmetry
INVARIANTS
  TypeOK
  SizeIsLength
  CrashNeedsRemoval
PROPERTIES
  ListKept
