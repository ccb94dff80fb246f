SPECIFICATION FairSpec
CONSTANTS
  c1 = c1  c2 = c2  e1 = e1
  Code <- TwoCodes
  Email = {e1}
  EmailOf <- SameEmail
  MaxIntents = 2
  MaxTenants = 1
  Worker = {w1}
  MaxResends = 1
  MaxFaults = 1
INVARIANT TypeOK
INVARIANT PlacesAreKept
INVARIANT OpenEnrollmentsCanComplete
PROPERTY SpentCodesStaySpent
PROPERTY EveryLinkIsMailed
CHECK_DEADLOCK FALSE
