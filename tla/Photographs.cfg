SPECIFICATION PhotoSpec
CONSTANTS
  r1 = r1
  r2 = r2
  Worker = worker
  Removals <- MCRemovals
  MaxBooks = 2
  MaxShots = 2
SYMMETRY Swaps
INVARIANTS NamedIsKept NothingLeft
CHECK_DEADLOCK FALSE
