SPECIFICATION FairSpec
CONSTANTS
  Client = {c1}
  MaxEvents = 2
  MaxCalls = 3
  MaxOutages = 1
CHECK_DEADLOCK FALSE
INVARIANTS
  TypeOK
  ConfirmedClientsKnown
PROPERTY AnnouncedClientsRegister
