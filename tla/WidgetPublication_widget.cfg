SPECIFICATION FairSpec
CONSTANTS
  Dispatcher = {d1, d2}
  Replica = {r1}
  BatchSize = 2
  MaxAttempts = 2
  MaxWrites = 2
  MaxVersions = 2
  MaxFaults = 1
  MaxCrashes = 1
INVARIANT TypeOK
INVARIANT AnnouncedMeansInvalidated
PROPERTY EventsSettle
PROPERTY CacheConverges
CHECK_DEADLOCK FALSE
