SPECIFICATION Spec
CONSTANTS
  Files <- MCFiles
  Kind <- MCKind
  Node <- MCNode
  Dir <- MCDir
  Depth <- MCDepth
  First <- MCFirst
  CADirs <- MCCADirs
  Cases <- MCCases
  Options <- MCOptions
  NotSet = NotSet
  Unreadable = Unreadable
  Now0 = 1
  MaxTime = 4
  MaxRuns = 3
  MaxCuts = 1
INVARIANTS
  TypeOK
  ValidWithinCA
  ReportIsTrue
PROPERTIES
  NothingLost
  OnlySelected
CHECK_DEADLOCK FALSE
