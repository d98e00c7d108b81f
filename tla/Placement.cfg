SPECIFICATION Spec
CONSTANTS
  Nowhere = Nowhere
  Nobody = Nobody
  Books = {b}
  Areas = {a1, a2}
  Txs = {t, u}
  MaxRows = 5
INVARIANTS
  FoldsAgree
  CirculationAlternates
  OutIsOut
PROPERTY
  SoleWriterHeals
  NextAnswerIsAsked
SYMMETRY AnyOrder
CHECK_DEADLOCK FALSE
