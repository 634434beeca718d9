SPECIFICATION Spec
CONSTANTS
  Observers = {o1, o2}
  Requests = {r1, r2}
  Slots = 2
  Batch = 1
  MaxRecords = 1
  MaxEpoch = 4
  None = None
  Gui = Gui
  Abandoned = Abandoned
  Empty = Empty
  Partial = Partial
SYMMETRY Symmetry
CHECK_DEADLOCK FALSE
INVARIANTS
  EpochIsolation
  WindowIntact
  ClearIsFinal
