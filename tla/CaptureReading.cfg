SPECIFICATION Spec
CONSTANTS
  Books = {1}
  Seeded = {}
  Slots = {"back", "front"}
  People = {}
  Patches <- TitleOrIsbn
  Requests = {}
  LettingGo = {FALSE}
  ReadingsThatMayDie = 2
  MaxShots = 2
  MaxReadAgains = 1
  MaxCrashes = 0
  MaxFaults = 1
INVARIANTS
  SettledMeansRead
  ReadMeansOffered
  WorkerWillLook
PROPERTY
  FollowsBookLife
CHECK_DEADLOCK FALSE
