SPECIFICATION Spec
CONSTANTS
  j1 = j1  j2 = j2  s1 = s1  p1 = p1  p2 = p2  w1 = w1  w2 = w2
  NoWorker = NoWorker
  NoJob = NoJob
  Job <- OneJob
  Site = {s1}
  SiteOf <- OneSite
  Production = {}
  Item = {p1, p2}
  Loser <- NoLoser
  WinnerOf <- NoWinner
  Worker = {w1, w2}
  Concurrency = 1
  MaxFailures = 1
  MaxItemAttempts = 1
  MaxInterruptions = 0
  MaxRetries = 0
  MaxFaults = 1
  MaxPageFailures = 1
  SlowPages = TRUE
  PromptHeartbeats = FALSE
  LateFailures = FALSE
SYMMETRY WorkerSymmetry
INVARIANT TypeOK
INVARIANT WaitingJobsAreUnleased
PROPERTY CompletedPagesAreDurable
PROPERTY TerminalIsFinal
CHECK_DEADLOCK FALSE
