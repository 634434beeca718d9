SPECIFICATION FairControllerSpec
CONSTANTS
  MaxTimers = 2
CHECK_DEADLOCK FALSE
INVARIANTS
  RunningCoversThread
PROPERTIES
  StopCancelsReconnect
  DraftSurvives
  CommandsEnd
