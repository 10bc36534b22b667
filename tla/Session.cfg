SPECIFICATION Spec
CONSTANTS
  Network <- MCNetwork
  Names = {1, 2}
  Builds = {1, 2}
  NoNet = NoNet
  None = None
  ByName = ByName
  Torn = Torn
  Retries = 2
  MaxCommands = 3
  MaxFaults = 1
  MaxLaunches = 1
INVARIANTS
  TypeOK
  RouteIsLeft
  CallsArrive
  DownIsComplete
  InvokeIsCommitted
  ServicesRunPackages
  PortsDistinct
PROPERTIES
  CommandsEnd
CHECK_DEADLOCK FALSE
