SPECIFICATION Spec
CONSTANTS
  v1 = v1
  e1 = e1
  e2 = e2
  Viewer = {v1}
  ModuleApp = {1, 2}
  Module = {"ECAL", "HCAL"}
  Element = {e1, e2}
  ModuleName <- OwnNames
  NoModule = NoModule
  MaxStarts = 1
SYMMETRY Symmetry
CHECK_DEADLOCK FALSE
INVARIANTS
  WatchedListTold
  PublicationsSubscribed
