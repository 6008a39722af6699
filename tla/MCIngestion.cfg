SPECIFICATION Spec
CONSTANTS
  c1 = c1
  c2 = c2
  s1 = s1
  s2 = s2
  MaxInt = 12
  Positions = {"p"}
  FillIDs <- MCFillIDs
  Fill <- MCFill
  Sources <- MCSources
  Callers <- MCCallers
  MaxConcurrency = 2
  MaxApplications = 3
  MaxRestarts = 1
SYMMETRY Symmetry
INVARIANTS IngestionInv BooksBalance BooksReplay
PROPERTY StoppedIsQuiet
CHECK_DEADLOCK FALSE
