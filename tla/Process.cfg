\* The event loop, the shutdown of a process and the durability contract of a
\* caller that persists before the node runs on, each on an instance of its own.
SPECIFICATION ProcessSpec
CONSTANTS
  Producers = {p1, p2}
  Stoppers = {s1}
  Budget = 1
  Limit = 3
  MaxPosts = 4
  Timeouts = FALSE
  InflightMax = 2
  MaxInputs = 2
  Entry = {e1, e2}
  Vote = {none, n1, n2}
  NoVote = none
  MaxTerm = 2
  MaxLog = 2
  MaxInflight = 3
  CutInFlight = FALSE
  HardInFlight = FALSE
INVARIANTS NoLostWake PostsInOrder FreedClean WorkAccounted DurabilityContract
PROPERTIES LoopGoesOn StopFinishes AdvertisedTermKept ReplyLeaves
CHECK_DEADLOCK FALSE
