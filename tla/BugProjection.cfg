SPECIFICATION Spec
CONSTANTS
  Nowhere = Nowhere
  Nobody = Nobody
  Books = {b}
  Areas = {a1, a2}
  Txs = {t, u}
  MaxRows = 5

CHECK_DEADLOCK FALSE
INVARIANT NoWindow
