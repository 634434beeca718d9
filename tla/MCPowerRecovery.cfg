CONSTANTS
  Programs = {desktop, cli}
  Supplies = {ac, dc}
  Schemes = {scheme}
  Nobody = Nobody
SPECIFICATION RecoverySpec
INVARIANTS
  JournalGoesLast
PROPERTIES
  RecoveryEnds
