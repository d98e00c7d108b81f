SPECIFICATION Spec
CONSTANTS
  Books = {1}
  Seeded = {1}
  Slots = {"front"}
  People = {alex, sam}
  Patches <- TitleOrIsbn
  Requests = {r1, r2}
  LettingGo = {FALSE}
  ReadingsThatMayDie = 2
  MaxShots = 2
  MaxReadAgains = 0
  MaxCrashes = 0
  MaxFaults = 0
INVARIANTS
  StatedWins
PROPERTY
  NoForeignEditLost
CHECK_DEADLOCK FALSE
SYMMETRY Interchangeable
