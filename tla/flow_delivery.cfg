SPECIFICATION FlowSpec
CONSTANTS
  v1 = v1
  e1 = e1
  Viewer = {v1}
  ModuleApp = {1}
  Module = {"ECAL"}
  Element = {e1}
  ModuleName <- OneModule
  NoModule = NoModule
  MaxStarts = 1
  MaxCommands = 2
  MaxBookings = 2
  MaxExits = 0
  MaxQueue = 2
CHECK_DEADLOCK FALSE
PROPERTIES
  DueListArrives
  WatchedElementsArrive
