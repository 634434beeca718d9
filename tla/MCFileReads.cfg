CONSTANTS
  Characters <- MCCharacters
  Texts <- MCTexts
  Requests <- MCRequests
  Maximum = 6
  Budgets = {3, 10}
  RowWidth = 3
  Lead = 2
  RangeWidth = 5
  Output = 6
  Matches = 1
  Context = 1
  Folders <- MCFolders
  Queries = {1, 2}
  MaxEntries = 4
  MaxFiles = 3
  MaxFile = 3
  MaxScan = 5
  PerQuery = 2
  AllMatches = 3
  BatchBudget = 6
  Reserve = 1
  AnswerSizes = {1, 2, 4}
SPECIFICATION ReadSpec
CHECK_DEADLOCK FALSE
INVARIANTS
  ReadIsWindow
  SearchFindsLines
  UntruncatedIsComplete
