SPECIFICATION Spec
CONSTANTS
  Network <- MCOneOrg
  Names = {1, 2}
  Builds = {1, 2}
  NoNet = NoNet
  None = None
  ByName = ByName
  Torn = Torn
  Retries = 2
  MaxCommands = 4
  MaxFaults = 1
  MaxLaunches = 1
INVARIANTS
  RouteIsToNodes
CHECK_DEADLOCK FALSE
