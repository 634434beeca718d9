CONSTANTS
  Desktop = desktop
  Procs = {desktop, cli}
  Settings <- MCSettings
  NoFile = NoFile
  Keep = 1
  Free = Free
  Stale = Stale
  ReadOnly = ro
  Modes = {ro, dev}
  MaxFaults = 1
SPECIFICATION Spec
CHECK_DEADLOCK FALSE
INVARIANTS
  TaskMatchesSettings
PROPERTIES
  NoLostUpdate
  ReplacedIsKept
  PowerFieldLast
