CONSTANTS
  MaxRuns = 2
  MaxFaults = 2
SPECIFICATION FairVmSpec
CHECK_DEADLOCK FALSE
INVARIANTS
  OwnedUntilGone
  StopIsProof
PROPERTIES
  VmEnds
