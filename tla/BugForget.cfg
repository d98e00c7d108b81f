SPECIFICATION TagSpec
CONSTANTS
  Books = {1}
  Tasks = {r1, r2, r3}
  Isbns = {"one", "two"}
  GenreIn <- MCGenreIn
  Mine = {"lent"}
PROPERTY NeverTakenOff
CHECK_DEADLOCK FALSE
SYMMETRY AnyOrder
