SPECIFICATION MCSpec
CONSTANTS
  Run = {1, 2}
  NoRun = NoRun
  Name = {"Global", "Beam"}
  Password = {"secret"}
  NoPassword = ""
  MaxCalls = 4
  MaxInterrupts = 2
  MaxStatus = 2
CHECK_DEADLOCK FALSE
INVARIANTS
  StateMatchesAnnouncements
  ServicesAliveAtSignals
PROPERTIES
  AnnouncedWithPassword
  GrantedStartsSucceed
  InterruptStops
  ImplementsLifecycle
