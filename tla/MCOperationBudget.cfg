SPECIFICATION FairSpec
CONSTANTS
  Calls = {c1, c2}
  Callers = {p1}
  Threads = {t1, t2}
  MaxWorkers = 2
  MaxDepth = 2
  None = None
INVARIANTS
  SlotsConserved
  BudgetIsOwn
PROPERTIES
  WorkStopsWithCaller
  EveryCallEnds
