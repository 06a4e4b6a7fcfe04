SPECIFICATION Spec
CONSTANTS
  Run <- TwoRunsAndBadOnes
  NoRun = NoRun
  MaxCommands = 3
  MaxOutages = 2
CHECK_DEADLOCK FALSE
INVARIANTS
  ClientFollowsService
  StaleRunsEnd
PROPERTY EndOfRunReachesClient
