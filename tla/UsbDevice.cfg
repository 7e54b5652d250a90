SPECIFICATION Spec
CONSTANTS
  Free = Free
  Nothing = Nothing
  RingSize = 6
  KeySlots = 2
  Configurations <- MCConfigurations
  Reports <- MCReports
INVARIANTS
  TypeOK
  AnswersItsRequest
PROPERTIES
  ImplementsReports
  KeepsPolling
CHECK_DEADLOCK FALSE
