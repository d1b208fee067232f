\* From fresh nodes, with two elections and a crash; from an overwritten tail,
\* with a crash and a failed allocation; and from a deposed leader's longer log,
\* with two more elections up to the term cap: one leader per term, logs match,
\* new leaders have what is committed, and what is committed is one entry on a
\* quorum of disks.
SPECIFICATION HistoriesSpec
CONSTANTS
  Node = {n1, n2, n3}
  None = None
  Pipelined = FALSE
  MaxInflight = 1
  MaxTerm = 3
  MaxLog = 2
  ChunkSize = 2
  MaxTimeouts = 2
  MaxBeats = 3
  MaxCrashes = 1
  MaxFails = 1
SYMMETRY NodeSymmetry
VIEW View
INVARIANTS ElectionSafety LogMatching LeaderCompleteness CommittedDurable
