\* With the pipelined WAL a vote leaves on an earlier record's completion; a
\* crash forgets it and the node votes again in the same term: two leaders.
SPECIFICATION ContestSpec
CONSTANTS
  Node = {n1, n2, n3}
  None = None
  Pipelined = TRUE
  MaxInflight = 2
  MaxTerm = 2
  MaxLog = 1
  ChunkSize = 2
  MaxTimeouts = 0
  MaxBeats = 0
  MaxCrashes = 1
  MaxFails = 0
SYMMETRY NodeSymmetry
VIEW View
INVARIANT ElectionSafety
