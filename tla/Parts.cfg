SPECIFICATION PartsSpec
CONSTANTS
  k1 = k1
  r1 = r1
  r2 = r2
  r3 = r3
  Pages <- MCPages
  Requests <- MCRequests
  MaxIssued = 2
  Chains = {1, 2}
  Retries = 2
  MaxSends = 4
  Scans = {1, 2}
  MaxSwipes = 4
  Books = {1}
  Tasks <- MCRequests
  Isbns = {"one", "two"}
  GenreIn <- MCGenreIn
  Mine = {"lent"}
  Lookups <- MCRequests
  Interval = 3
  Budgets = {3, 5, 8}
  Lag = 1
  MaxTime = 9
  Calls <- MCRequests
  NoCall = none
  Bound = 2
  MaxClock = 7
  Shots <- MCRequests
  Passes = {1, 2}
  Works = {"x", "y"}
  Codes = {"one", "two"}
  Printed = {"ann", "bob", "cat"}
  Old = "old"
INVARIANTS SpentOnce OneChain PresentedTwiceEnds OneBookOneCapture SwipedOnce HeadingsAreItsOwn PaceKept InTurn SweepWillLook
PROPERTIES PersonsTagStays RangeFollowsTags AnswersOrAdds CorrectionsStand
SYMMETRY AnyOrder
CHECK_DEADLOCK FALSE
