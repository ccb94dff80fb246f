SPECIFICATION FairSpec
CONSTANTS
  Case = {c1}
  NoCase = NoCase
  Turn = {t1}
  MaxChanges = 2
  MaxEvals = 1
  MaxFaults = 1
INVARIANT TypeOK
INVARIANT GuidanceWasApproved
PROPERTY NothingIsGivenAfterRollback
PROPERTY StoppedStaysStopped
PROPERTY OutcomesAreLearnedOrOvertaken
