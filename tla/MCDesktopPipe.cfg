CONSTANTS
  MaxId = 3
  MaxEdits = 1
  MaxChanges = 1
  MaxCommands = 2
  MaxOutgoing = 2
SPECIFICATION PipeSpec
CHECK_DEADLOCK FALSE
INVARIANTS
  OutcomeIsTrue
  DraftKept
PROPERTIES
  BackendEnds
