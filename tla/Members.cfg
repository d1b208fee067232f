SPECIFICATION Spec
CONSTANTS
  Nodes <- MCNodes
  Initial <- Pair
  Scripts <- MCScripts
  Rounds = 1
  Chunk = 2
  MaxTerm = 2
  MaxLog = 5
  MaxEvents = 2
VIEW View
INVARIANTS JointSafety OneResult ChangeHappened ReadyForNext
CHECK_DEADLOCK FALSE
