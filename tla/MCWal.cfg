\* Two records in flight, term changes and overwritten tails, crashes at any
\* point of a write, a second one over what the first tore: recovery accepts
\* the files, restores the hard state and every entry reported durable, and
\* brings no cut tail back.
SPECIFICATION StoreSpec
CONSTANTS
  SegSize = 4
  MaxSeg = 4
  PrefixMax = 2
  UnusedMax = 2
  TailSegs = 3
  Peer = {p1}
  None = None
  Sizes = {1}
  MetaEvery = 4
  MaxInflight = 2
  MaxTerm = 2
  MaxIndex = 2
  MaxGen = 3
  MaxSnaps = 0
  MaxCrashes = 2
  MaxTroubles = 3
  Situations = {}
INVARIANTS  TailsStayCut
CHECK_DEADLOCK FALSE
