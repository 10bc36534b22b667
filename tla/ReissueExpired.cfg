SPECIFICATION Spec
CONSTANTS
  Files <- MCFiles
  Kind <- MCKind
  Node <- MCNode
  Dir <- MCDir
  Depth <- MCDepth
  First <- MCFirst
  CADirs <- MCCADirs
  Cases <- GoodCases
  Options <- ExpiredOptions
  NotSet = NotSet
  Unreadable = Unreadable
  Now0 = 1
  MaxTime = 4
  MaxRuns = 3
  MaxCuts = 1
INVARIANT
  NoneExpired
CHECK_DEADLOCK FALSE
