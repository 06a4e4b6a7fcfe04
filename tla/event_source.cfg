SPECIFICATION FairSpec
CONSTANTS
  Collector = {c1, c2}
  MaxOutages = 2
  MaxPending = 2
CHECK_DEADLOCK FALSE
INVARIANTS
  RegistrationIsReal
  SteadyCollectorsServed
PROPERTY RestartedCollectorsRegister
