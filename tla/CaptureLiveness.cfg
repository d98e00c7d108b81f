SPECIFICATION FairSpec
CONSTANTS
  Books = {1, 2}
  Seeded = {1}
  Slots = {"back"}
  People = {}
  Patches <- TitleOrIsbn
  Requests = {}
  LettingGo = {FALSE}
  ReadingsThatMayDie = 2
  MaxShots = 1
  MaxReadAgains = 0
  MaxCrashes = 3
  MaxFaults = 0
INVARIANT
  CrashLoopBounded
PROPERTY
  PendingIsSettled
CHECK_DEADLOCK FALSE
