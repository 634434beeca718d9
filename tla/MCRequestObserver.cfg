SPECIFICATION ObserverSpec
CONSTANTS
  Requests = {c1, c2, c3, c4}
  Ids = {i1, i2, i3}
  LongId = LongId
  MaxPending = 2
  MaxEpoch = 4
  Absent = Absent
SYMMETRY Symmetry
CHECK_DEADLOCK FALSE
INVARIANTS
  RunningIsPending
  OnlyForgottenMismatch
