SPECIFICATION Spec
CONSTANTS
  n1 = n1
  n2 = n2
  n3 = n3
  c1 = c1
  c2 = c2
  Nodes = {n1, n2, n3}
  Reads = {c1, c2}
  MaxTerm = 2
  MaxLog = 2
  MaxBatch = 2
  MaxEvents = 2
INVARIANTS   HandOverComplete
CHECK_DEADLOCK FALSE
SYMMETRY Symmetry
VIEW View
