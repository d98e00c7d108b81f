SPECIFICATION Spec
CONSTANTS
  Books = {1}
  Seeded = {}
  Slots = {"front"}
  People = {}
  Patches <- TitleOrIsbn
  Requests = {}
  LettingGo = {FALSE}
  ReadingsThatMayDie = 2
  MaxShots = 2
  MaxReadAgains = 0
  MaxCrashes = 0
  MaxFaults = 0
INVARIANT
  RetakeIsRead
CHECK_DEADLOCK FALSE
