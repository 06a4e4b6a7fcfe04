SPECIFICATION Spec
CONSTANTS
  v1 = v1
  v2 = v2
  e1 = e1
  Viewer = {v1, v2}
  ModuleApp = {1, 2, 3}
  Module = {"ECAL", "HCAL"}
  Element = {e1}
  ModuleName <- SharedName
  NoModule = NoModule
  MaxStarts = 2
SYMMETRY Symmetry
CHECK_DEADLOCK FALSE
INVARIANTS
  SubscribersRegistered
  KnownModulesServed
PROPERTIES
  SubscriptionsLostByOwner
  UnaskedOnlyInUpdateMode
  CollectedElementsReachSubscribers
