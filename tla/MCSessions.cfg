SPECIFICATION FairSpec
CONSTANTS
  Clients = {p1}
  Service = Service
  Ids = {s1, s2}
  MaxSessions = 2
  MaxActive = 1
  None = None
CHECK_DEADLOCK FALSE
INVARIANTS
  RemovedIsReleased
  ActiveLimit
  QuietExport
PROPERTIES
  SessionEnds
