SPECIFICATION FairSpec
CONSTANTS
  Number = {1, 2}
  NoNumber = NoNumber
  Standalone = Standalone
  CycleValue = 2
  MaxInterrupts = 2
  MaxRuns = 2
  MaxEvents = 3
  MaxQueueSize = 2
CHECK_DEADLOCK FALSE
INVARIANTS
  EventsOfThisRun
  ArchiveOfRun
  CleanReturn
PROPERTIES
  CallsFollowProtocol
  RunOverIsNoticed
  StopIsHonoured
