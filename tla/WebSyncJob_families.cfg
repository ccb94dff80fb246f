SPECIFICATION Spec
CONSTANTS
  j1 = j1  j2 = j2  s1 = s1  p1 = p1  p2 = p2  w1 = w1  w2 = w2
  NoWorker = NoWorker
  NoJob = NoJob
  Job <- OneJob
  Site = {s1}
  SiteOf <- OneSite
  Production <- OneJob
  Item = {p1, p2}
  Loser <- OneLoser
  WinnerOf <- FirstWins
  Worker = {w1, w2}
  Concurrency = 1
  MaxFailures = 1
  MaxItemAttempts = 1
  MaxInterruptions = 0
  MaxRetries = 1
  MaxFaults = 0
  MaxPageFailures = 0
  SlowPages = FALSE
  PromptHeartbeats = FALSE
  LateFailures = TRUE
SYMMETRY WorkerSymmetry
INVARIANT CountersMatchPages
PROPERTY OnePagePerFamily
CHECK_DEADLOCK FALSE
