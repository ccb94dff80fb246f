SPECIFICATION Spec
CONSTANTS
  j1 = j1  j2 = j2  s1 = s1  p1 = p1  p2 = p2  w1 = w1  w2 = w2
  NoWorker = NoWorker
  NoJob = NoJob
  Job <- TwoJobs
  Site = {s1}
  SiteOf <- OneSite
  Production <- TwoJobs
  Item = {p1}
  Loser <- NoLoser
  WinnerOf <- NoWinner
  Worker = {w1, w2}
  Concurrency = 2
  MaxFailures = 2
  MaxItemAttempts = 2
  MaxInterruptions = 2
  MaxRetries = 0
  MaxFaults = 1
  MaxPageFailures = 0
  SlowPages = FALSE
  PromptHeartbeats = TRUE
  LateFailures = FALSE
SYMMETRY WorkerAndJobSymmetry
INVARIANT PublicationStatusIsTrue
INVARIANT OneUnfinishedJobPerSite
INVARIANT OneRunPerJob
INVARIANT OneFetchPerPage
PROPERTY NoPublicationAfterCancel
PROPERTY PublishedIsNeverDiscarded
CHECK_DEADLOCK FALSE
