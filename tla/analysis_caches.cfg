CONSTANTS
  Runs = {p1, p2}
  FileOrder <- MCFileOrder
  Contents <- MCContents
  Refers <- MCRefers
  Routes <- MCRoutes
  Executables <- MCExecutables
  MaxEdits = 2
  MaxAnalyses = 3
  Absent = Absent
SPECIFICATION MCSpec
SYMMETRY Symmetry
INVARIANTS SameGraphAsFull OnlyChangesDone
CHECK_DEADLOCK FALSE
