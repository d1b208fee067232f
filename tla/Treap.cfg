\* Every history of edits, forks, captures and saves of a small tree, with
\* allocations that fail at any point and a save that reads while the owner
\* edits: the tree implements the ordered map, no pointer dangles, each node is
\* retired once, every tree is canonical, and every query agrees.
SPECIFICATION Spec
CONSTANTS
  Keys = {1, 2, 3}
  Prio <- MCPrio
  Vals = {0, 1}
  NoMap = NoMap
  Ranges <- MCRanges
  Stored <- MCStored
  MaxNodes = 12
  MaxBlobs = 4
  MaxEdits = 2
  MaxViews = 2
  Failures = {1, 3}
INVARIANTS MemorySafe Searchable
PROPERTIES Implements
CHECK_DEADLOCK FALSE
