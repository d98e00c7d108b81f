SPECIFICATION PhotoSpec
CONSTANTS
  r1 = r1
  r2 = r2
  Worker = worker
  Removals <- OneRemoval
  MaxBooks = 2
  MaxShots = 2
INVARIANTS HashIsItsOwn
CHECK_DEADLOCK FALSE
