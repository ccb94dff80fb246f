SPECIFICATION FairSpec
CONSTANTS
  j1 = j1  j2 = j2  s1 = s1  p1 = p1  p2 = p2  w1 = w1  w2 = w2
  NoWorker = NoWorker
  NoJob = NoJob
  Job <- OneJob
  Site = {s1}
  SiteOf <- OneSite
  Production <- OneJob
  Item = {p1, p2}
  Loser <- NoLoser
  WinnerOf <- NoWinner
  Worker = {w1, w2}
  Concurrency = 1
  MaxFailures = 2
  MaxItemAttempts = 4
  MaxInterruptions = 1
  MaxRetries = 1
  MaxFaults = 0
  MaxPageFailures = 1
  SlowPages = FALSE
  PromptHeartbeats = TRUE
  LateFailures = FALSE
INVARIANT PublicationStatusIsTrue
PROPERTY NoPartialPublication
PROPERTY EveryJobFinishes
CHECK_DEADLOCK FALSE
