\* The client's state machine against hosts that crash, redirect and answer
\* late, and the server's handling of requests through elections, lost
\* connections and a stop, each on an instance of its own.
SPECIFICATION RequestsSpec
CONSTANTS
  h1 = h1
  h2 = h2
  Hosts = {h1, h2}
  NoHost = NoHost
  Seeds <- MCSeeds
  Members <- MCMembers
  MaxRequests = 2
  Limit = 2
  RetryMax = 1
  Timeout = 1
  MaxFaults = 2
  Scripts <- MCScripts
  MaxValue = 3
  FlushLimit = 2
  MaxChanges = 2
  MaxDisconnects = 1
INVARIANTS OkMeansRan RequestsAccounted WritesInOrder
PROPERTIES ClientGoesOn EveryoneAnswered
CHECK_DEADLOCK FALSE
