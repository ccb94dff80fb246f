SPECIFICATION FairSpec
CONSTANTS
  TenantCount = 3
  MaxActiveTenants = 2
  PageSlots = 2
  Concurrency = 2
  Quantum = 1
INVARIANT TypeOK
INVARIANT SlotsAreConserved
PROPERTY NobodyIsOvertaken
PROPERTY EveryTenantGetsTurns
PROPERTY EveryPageGetsItsSlot
CHECK_DEADLOCK FALSE
