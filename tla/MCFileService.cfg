CONSTANTS
  r1 = r1
  r2 = r2
  r3 = r3
  MaxPath = 3
  MaxFolder = 2
  FolderOf <- MCFolderOf
  Contents = {a, b}
  MaxStamp = 5
  MaxCalls = 5
  Callers = {w1, w2}
  NoCaller = NoCaller
  MaxFaults = 1
  Readers = {r1, r2, r3}
  OwnerOf <- MCOwnerOf
  MaxClock = 2
  IdleTime = 1
  Lifetime = 2
  MaxOwned = 2
  MaxEntries = 3
  Limit = 1
SPECIFICATION ServiceSpec
SYMMETRY Symmetry
CONSTRAINT Bounds
CHECK_DEADLOCK FALSE
INVARIANTS
  SnapshotsAreStable
  HashesAreTrue
  InventoryFitsAMoment
PROPERTIES
  ReplacesWhatWasSeen
