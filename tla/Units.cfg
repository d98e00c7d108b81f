SPECIFICATION UnitsSpec
CONSTANTS
  Txs = {t, u}
  LastName = 5
  Calls <- AnyNames
  Catches = FALSE
  MaxDepth = 3
  MayShare = TRUE
INVARIANTS
  Serialised
  RefusedOnSharedPlank
  NoDeadlock
  HeldIsHeld
PROPERTY
  DropHoldsItsRuns
SYMMETRY AnyOrder
