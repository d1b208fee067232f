\* A leader with a command in flight, a second election, stale and reordered
\* messages and an allocation failure: match_index is durable and nothing
\* committed is dropped.
SPECIFICATION BootedSpec
CONSTANTS
  Node = {n1, n2, n3}
  None = None
  Pipelined = FALSE
  MaxInflight = 1
  MaxTerm = 2
  MaxLog = 2
  ChunkSize = 2
  MaxTimeouts = 1
  MaxBeats = 2
  MaxCrashes = 0
  MaxFails = 1
SYMMETRY NodeSymmetry
VIEW View
INVARIANT MatchDurable
PROPERTY CommittedKept
