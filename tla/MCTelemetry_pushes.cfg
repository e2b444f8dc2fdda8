CONSTANTS
  MaxRequests = 2
  Sensors = 2
  MaxLives = 2
  Days = 2
  MaxFaults = 2
SPECIFICATION Spec
CHECK_DEADLOCK FALSE
INVARIANTS
  TypeOK
PROPERTIES
  ImplementsJournal
  OnlyCrossedPushesGoBack
  FlushEnds
