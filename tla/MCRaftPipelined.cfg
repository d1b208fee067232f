\* kserver's pipelined WAL under a stable leader and a crash: the durable
\* frontier keeps acknowledgements and commits behind the disks.
SPECIFICATION BootedSpec
CONSTANTS
  Node = {n1, n2, n3}
  None = None
  Pipelined = TRUE
  MaxInflight = 2
  MaxTerm = 1
  MaxLog = 2
  ChunkSize = 2
  MaxTimeouts = 0
  MaxBeats = 2
  MaxCrashes = 1
  MaxFails = 0
SYMMETRY NodeSymmetry
VIEW View
INVARIANTS CommittedDurable
