SPECIFICATION FairSpec
CONSTANTS
  Size = 2
  Leaders <- MCLeaders
  Followers <- MCFollowers
  MaxLog = 3
  MaxNet = 2
  MaxEvents = 1
INVARIANTS CommittedAgrees MatchIsHeld FileWhole
PROPERTY CatchesUp
