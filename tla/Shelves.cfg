SPECIFICATION Spec
CONSTANTS
  f1 = f1
  f2 = f2
  f3 = f3
  p1 = p1
  fiction = fiction
  poetry = poetry
  guest = guest
  Ranges = {fiction, poetry}
  OtherRules = {guest}
  Books = {f1, f2, f3, p1}
  Pinned = {p1}
  Key <- MCKey
  RangeOf <- MCRangeOf
  Rooms <- MCRooms
  Spent <- MCSpent
  Nowhere = 0
  MaxPiece = 4
  MaxSteps = 4
CHECK_DEADLOCK FALSE

INVARIANTS
  TypeOK
  WalksAgree
PROPERTIES
  CarryListFollows
  BooksFollowPlanks
  MovesAsOffered
  OthersStay
  TakenBack
