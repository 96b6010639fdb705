SPECIFICATION Spec
CONSTANTS
  KeepRecent = 1
  MaxRuns = 3
  MaxBranches = 1
  MaxCalls = 2
  MaxMessages = 6
  MaxSummaries = 1
  MaxStops = 1
INVARIANTS TypeOK RequestPaired InputFirst ReloadAgrees HistoryKept
CHECK_DEADLOCK FALSE
